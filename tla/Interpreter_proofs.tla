------------------------- MODULE Interpreter_proofs -------------------------
(***************************************************************************)
(* For every program that keeps to ProgramAssumption both interpreters     *)
(* implement the architecture: exceptions are precise, in a delay slot or  *)
(* not, and Cause and EPC tell which.  What is left of an instruction that *)
(* is interrupted, and the interrupt of a write to Count, are exceptions   *)
(* that PreciseExceptions names.                                           *)
(*                                                                         *)
(* Between two rounds the machine is at rest (Rest): no delay slot and no  *)
(* jump is pending, and it is at exception level exactly while it runs a   *)
(* handler.  Each operator maps a machine at rest, or in a slot, to        *)
(* another; the lemmas of the first part say which, the ones of the second *)
(* say what the architecture allows, and the third puts them together.     *)
(***************************************************************************)
EXTENDS Interpreter, SequenceTheorems, TLAPS

(* A machine of a program that never switched interpreters, by its fields.  *)
MachineFields == {"pure", "addr", "slot", "skip", "epc", "bd", "exl", "stale", "out",
                  "scar"}

Is(s, p, a, sl, sk, ep, b, x, o) ==
    /\ s = [f \in MachineFields |-> s[f]]
    /\ s.pure = p /\ s.addr = a /\ s.slot = sl /\ s.skip = sk /\ s.epc = ep
    /\ s.bd = b /\ s.exl = x /\ s.stale = None /\ s.out = o

(* ... at rest, in a delay slot, and with a jump pending.                   *)
R(s, p, a, ep, b, x, o) == Is(s, p, a, FALSE, None, ep, b, x, o)
D(s, p, a, ep, b, x, o) == Is(s, p, a, TRUE, None, ep, b, x, o)
P(s, p, h, ep, o) == \E a \in Int : Is(s, p, a, FALSE, h, ep, TRUE, TRUE, o)

Fit(p, a, ep, b, x) ==
    /\ p \in BOOLEAN /\ b \in BOOLEAN /\ x \in BOOLEAN
    /\ a \in DOMAIN Code
    /\ ep \in Int
    /\ x <=> a \in Handlers
    /\ x => ep \in DOMAIN Code \ Handlers
    /\ b => ep \in DOMAIN Code /\ Code[ep].op \in Control

Rest ==
    /\ R(m, m.pure, m.addr, m.epc, m.bd, m.exl, <<>>)
    /\ Fit(m.pure, m.addr, m.epc, m.bd, m.exl)
    /\ m.scar = {}
-----------------------------------------------------------------------------
(* 1. What the operators do to a machine.                                   *)

LEMMA Addresses ==
    /\ None = -1
    /\ DOMAIN Code \subseteq Nat
    /\ None \notin DOMAIN Code
    /\ {Vector, Refill, Start} \subseteq DOMAIN Code
    /\ {Vector, Refill} \subseteq Handlers
    /\ Vector # None /\ Refill # None /\ Vector \in Int /\ Refill \in Int
BY InterpreterAssumption, ProgramAssumption DEF None

(* The handler of a miss that is not nested.                                *)
Handler(known) == IF known THEN Vector ELSE Refill

LEMMA Jumped ==
    ASSUME NEW p, NEW a, NEW sl, NEW ep, NEW b, NEW x, NEW o, NEW s, NEW v,
           Is(s, p, a, sl, None, ep, b, x, o)
    PROVE  /\ Is(set_pc(s, v), p, v, sl, None, ep, b, x, o)
           /\ Is([s EXCEPT !.addr = v], p, v, sl, None, ep, b, x, o)
BY DEF Is, set_pc, MachineFields

LEMMA GeneralAtRest ==
    ASSUME NEW p, NEW a, NEW ep, NEW b, NEW x, NEW o, NEW s, R(s, p, a, ep, b, x, o)
    PROVE  R(exception_general(s), p, Vector, a, FALSE, TRUE, o)
BY DEF R, Is, exception_general, set_pc, leave_to_branch, MachineFields

(* In a slot the exception is that of the branch, and the jump is pending.  *)
LEMMA GeneralInSlot ==
    ASSUME NEW p, NEW a, NEW ep, NEW b, NEW x, NEW o, NEW s, D(s, p, a, ep, b, x, o)
    PROVE  P([exception_general(s) EXCEPT !.slot = FALSE], p, Vector, a - 1, o)
<1>1. Is(exception_general(s), p, Vector, TRUE, Vector, a - 1, TRUE, TRUE, o)
  BY DEF D, Is, exception_general, set_pc, leave_to_branch, MachineFields
<1>2. Is([exception_general(s) EXCEPT !.slot = FALSE], p, Vector, FALSE, Vector, a - 1, TRUE, TRUE, o)
  BY <1>1 DEF Is, MachineFields
<1> QED BY <1>2, Addresses DEF P

LEMMA MissAtRest ==
    ASSUME NEW p, NEW a \in Int, NEW ep, NEW b, NEW o, NEW s, R(s, p, a, ep, b, FALSE, o),
           NEW data \in BOOLEAN, NEW known \in BOOLEAN
    PROVE  R(TLB_refill_exception(s, data, known),
             p, Handler(known), IF data THEN a - 1 ELSE a, FALSE, TRUE, o)
<1> DEFINE t == set_pc(s, Handler(known))
           v == a - (IF s.slot THEN 1 ELSE 0) - (IF data THEN 1 ELSE 0)
           r == [t EXCEPT !.exl = TRUE, !.epc = v, !.bd = FALSE]
<1>1. s.slot = FALSE /\ s.exl = FALSE /\ s.addr = a /\ s.stale = None
  BY DEF R, Is
<1>2. Is(t, p, Handler(known), FALSE, None, ep, b, FALSE, o)
  BY Jumped DEF R
<1>3. TLB_refill_exception(s, data, known) = leave_to_branch(r, r.addr)
  BY <1>1 DEF TLB_refill_exception, Handler
<1>4. v = IF data THEN a - 1 ELSE a
  BY <1>1
<1>5. Is(leave_to_branch(r, r.addr), p, Handler(known), FALSE, None, v, FALSE, TRUE, o)
  <2> HIDE DEF t, v
  <2>1. Is(r, p, Handler(known), FALSE, None, v, FALSE, TRUE, o)
    BY <1>2 DEF Is, MachineFields
  <2> HIDE DEF r
  <2> QED BY <2>1 DEF Is, leave_to_branch
<1> QED BY <1>3, <1>4, <1>5 DEF R

LEMMA MissInSlot ==
    ASSUME NEW p, NEW a \in Int, NEW ep, NEW b, NEW o, NEW s, D(s, p, a, ep, b, FALSE, o),
           NEW known \in BOOLEAN
    PROVE  P([TLB_refill_exception(s, TRUE, known) EXCEPT !.slot = FALSE],
             p, Handler(known), a - 2, o)
<1> DEFINE t == set_pc(s, Handler(known))
           v == a - (IF s.slot THEN 1 ELSE 0) - (IF TRUE THEN 1 ELSE 0)
           r == [t EXCEPT !.exl = TRUE, !.epc = v, !.bd = TRUE]
<1>1. s.slot = TRUE /\ s.exl = FALSE /\ s.addr = a /\ s.stale = None
  BY DEF D, Is
<1>2. Is(t, p, Handler(known), TRUE, None, ep, b, FALSE, o)
  BY Jumped DEF D
<1>3. TLB_refill_exception(s, TRUE, known) = leave_to_branch(r, r.addr)
  BY <1>1 DEF TLB_refill_exception, Handler
<1>4. v = a - 2
  BY <1>1
<1>5. Is(leave_to_branch(r, r.addr), p, Handler(known), TRUE, Handler(known), v, TRUE, TRUE, o)
  <2> HIDE DEF t, v
  <2>1. Is(r, p, Handler(known), TRUE, None, v, TRUE, TRUE, o)
    BY <1>2 DEF Is, MachineFields
  <2> HIDE DEF r
  <2> QED BY <2>1 DEF Is, leave_to_branch, MachineFields
<1>6. ASSUME NEW z, NEW h, Is(z, p, h, TRUE, h, v, TRUE, TRUE, o)
      PROVE  Is([z EXCEPT !.slot = FALSE], p, h, FALSE, h, v, TRUE, TRUE, o)
  BY <1>6 DEF Is, MachineFields
<1>7. Handler(known) \in Int
  BY Addresses DEF Handler
<1> QED BY <1>3, <1>4, <1>5, <1>6, <1>7 DEF P

LEMMA ScarredRuns ==
    ASSUME NEW p, NEW a, NEW sl, NEW sk, NEW ep, NEW b, NEW x, NEW o, NEW s, NEW v,
           Is(s, p, a, sl, sk, ep, b, x, o)
    PROVE  Is(scarred(s, v), p, a, sl, sk, ep, b, x, o)
BY DEF Is, scarred, MachineFields

(* A device event raises an interrupt only outside the handlers.            *)
LEMMA TestRaises ==
    ASSUME NEW p, NEW a, NEW ep, NEW b, NEW o, NEW e, e.due, NEW s, R(s, p, a, ep, b, FALSE, o)
    PROVE  R(interrupt_test(s, e), p, Vector, a, FALSE, TRUE, o)
<1>1. s.skip = None /\ ~s.exl
  BY DEF R, Is
<1> QED BY <1>1, GeneralAtRest DEF interrupt_test, gen_interrupt

LEMMA TestIdle ==
    ASSUME NEW p, NEW a, NEW ep, NEW b, NEW x, NEW o, NEW e, ~e.due \/ x,
           NEW s, R(s, p, a, ep, b, x, o)
    PROVE  interrupt_test(s, e) = s
<1>1. s.skip = None /\ s.exl = x
  BY DEF R, Is
<1> QED BY <1>1 DEF interrupt_test, gen_interrupt

LEMMA TestHandling ==
    ASSUME NEW p, NEW a, NEW ep, NEW b, NEW o, NEW e, NEW s, R(s, p, a, ep, b, TRUE, o)
    PROVE  interrupt_test(s, e) = s
<1>1. s.skip = None /\ s.exl
  BY DEF R, Is
<1> QED BY <1>1 DEF interrupt_test, gen_interrupt

(* A pending jump is made first, wherever the branch has gone meanwhile.    *)
LEMMA TestPending ==
    ASSUME NEW p, NEW h, h # None, NEW ep, NEW o, NEW e, NEW s, P(s, p, h, ep, o)
    PROVE  R(interrupt_test(s, e), p, h, ep, TRUE, TRUE, o)
<1>1. interrupt_test(s, e) = [s EXCEPT !.addr = s.skip, !.skip = None]
  BY DEF interrupt_test, gen_interrupt, P, Is
<1> QED BY <1>1 DEF R, P, Is, MachineFields

(* The next instruction, and one more instruction completed.                *)
LEMMA Advanced ==
    ASSUME NEW p, NEW a, NEW sl, NEW ep, NEW b, NEW x, NEW o, NEW s, NEW v,
           Is(s, p, a, sl, None, ep, b, x, o)
    PROVE  /\ Is([s EXCEPT !.addr = @ + 1], p, a + 1, sl, None, ep, b, x, o)
           /\ Is([s EXCEPT !.addr = @ + 2], p, a + 2, sl, None, ep, b, x, o)
           /\ Is(complete(s, v), p, a, sl, None, ep, b, x, Append(o, v))
           /\ Is([s EXCEPT !.exl = FALSE], p, a, sl, None, ep, b, FALSE, o)
BY DEF Is, complete, MachineFields

LEMMA PlainRuns ==
    ASSUME NEW p, NEW a, NEW sl, NEW ep, NEW b, NEW x, NEW o, NEW s,
           Is(s, p, a, sl, None, ep, b, x, o)
    PROVE  Is(plain(s), p, a + 1, sl, None, ep, b, x, Append(o, a))
<1>1. s.addr = a
  BY DEF Is
<1> QED BY <1>1, Advanced DEF plain

LEMMA MemoryAtRest ==
    ASSUME NEW p, NEW a \in Int, NEW ep, NEW b, NEW o, NEW e \in Env,
           NEW s, R(s, p, a, ep, b, FALSE, o)
    PROVE  IF e.data THEN R(memory_access(s, e), p, Handler(e.known), a, FALSE, TRUE, o)
                     ELSE R(memory_access(s, e), p, a + 1, ep, b, FALSE, Append(o, a))
<1> DEFINE t == [s EXCEPT !.addr = @ + 1]
<1>1. s.addr = a /\ R(t, p, a + 1, ep, b, FALSE, o)
  BY Advanced DEF R, Is
<1>2. e.known \in BOOLEAN /\ e.data \in BOOLEAN
  BY DEF Env
<1> DEFINE u == TLB_refill_exception(t, TRUE, e.known)
<1>3. /\ e.data => memory_access(s, e) \in {u, scarred(u, a)}
      /\ ~e.data => memory_access(s, e) = complete(t, a)
  BY <1>1 DEF memory_access
<1> HIDE DEF t
<1>4. R(complete(t, a), p, a + 1, ep, b, FALSE, Append(o, a))
  BY <1>1, Advanced DEF R
<1>5. R(TLB_refill_exception(t, TRUE, e.known), p, Handler(e.known), a, FALSE, TRUE, o)
  <2>1. a + 1 \in Int /\ (IF TRUE THEN (a + 1) - 1 ELSE a + 1) = a
    OBVIOUS
  <2> QED BY <1>1, <1>2, <2>1, MissAtRest
<1>6. R(scarred(u, a), p, Handler(e.known), a, FALSE, TRUE, o)
  BY <1>5, ScarredRuns DEF R
<1> HIDE DEF u
<1> QED BY <1>2, <1>3, <1>4, <1>5, <1>6 DEF u

LEMMA MemoryInSlot ==
    ASSUME NEW p, NEW a \in Int, NEW ep, NEW b, NEW o, NEW e \in Env,
           NEW s, D(s, p, a, ep, b, FALSE, o)
    PROVE  IF e.data
           THEN P([memory_access(s, e) EXCEPT !.slot = FALSE], p, Handler(e.known), a - 1, o)
           ELSE D(memory_access(s, e), p, a + 1, ep, b, FALSE, Append(o, a))
<1> DEFINE t == [s EXCEPT !.addr = @ + 1]
<1>1. s.addr = a /\ D(t, p, a + 1, ep, b, FALSE, o)
  BY Advanced DEF D, Is
<1>2. e.known \in BOOLEAN /\ e.data \in BOOLEAN
  BY DEF Env
<1> DEFINE u == TLB_refill_exception(t, TRUE, e.known)
<1>3. /\ e.data => memory_access(s, e) \in {u, scarred(u, a)}
      /\ ~e.data => memory_access(s, e) = complete(t, a)
  BY <1>1 DEF memory_access
<1> HIDE DEF t
<1>4. D(complete(t, a), p, a + 1, ep, b, FALSE, Append(o, a))
  BY <1>1, Advanced DEF D
<1>5. P([TLB_refill_exception(t, TRUE, e.known) EXCEPT !.slot = FALSE], p, Handler(e.known), a - 1, o)
  <2>1. a + 1 \in Int /\ (a + 1) - 2 = a - 1
    OBVIOUS
  <2> QED BY <1>1, <1>2, <2>1, MissInSlot
<1>6. P([scarred(u, a) EXCEPT !.slot = FALSE], p, Handler(e.known), a - 1, o)
  <2>1. [scarred(u, a) EXCEPT !.slot = FALSE] = scarred([u EXCEPT !.slot = FALSE], a)
    BY DEF scarred
  <2> DEFINE w == [u EXCEPT !.slot = FALSE]
  <2>2. PICK v \in Int : Is(w, p, v, FALSE, Handler(e.known), a - 1, TRUE, TRUE, o)
    BY <1>5 DEF P
  <2> HIDE DEF w
  <2>3. Is(scarred(w, a), p, v, FALSE, Handler(e.known), a - 1, TRUE, TRUE, o)
    BY <2>2, ScarredRuns
  <2> QED BY <2>1, <2>3 DEF P, w
<1> HIDE DEF u
<1> QED BY <1>2, <1>3, <1>4, <1>5, <1>6 DEF u

(* A write to Count that an interrupt is due at.                            *)
CountHit(a, x, e) == Code[a].op = "count" /\ e.due /\ ~x

Traces(s, c) == s.scar = c

LEMMA CountAtRest ==
    ASSUME NEW p, NEW a, NEW ep, NEW b, NEW x, x = FALSE, NEW o, NEW e, e.due,
           NEW s, R(s, p, a, ep, b, x, o), s.scar = {}
    PROVE  /\ R(mtc0_count(s, e), p, Vector + 1, a, FALSE, TRUE, o)
           /\ Traces(mtc0_count(s, e), {a})
<1> DEFINE t == exception_general(s)
<1>1. R(t, p, Vector, a, FALSE, TRUE, o) /\ t.scar = {}
  BY GeneralAtRest DEF R, Is, exception_general, set_pc, leave_to_branch, MachineFields
<1>2. s.skip = None /\ ~s.exl /\ s.addr = a
  BY DEF R, Is
<1>3. mtc0_count(s, e) = [scarred(t, a) EXCEPT !.addr = @ + 1]
  BY <1>2 DEF mtc0_count, interrupt_test, gen_interrupt
<1> HIDE DEF t
<1>4. R(scarred(t, a), p, Vector, a, FALSE, TRUE, o) /\ scarred(t, a).scar = {a}
  BY <1>1, ScarredRuns DEF R, Is, scarred, MachineFields
<1> DEFINE u == scarred(t, a)
<1>5. R([u EXCEPT !.addr = @ + 1], p, Vector + 1, a, FALSE, TRUE, o)
  BY <1>4, Advanced DEF R
<1>6. [u EXCEPT !.addr = @ + 1].scar = u.scar
  BY <1>4 DEF R, Is, MachineFields
<1> QED BY <1>3, <1>4, <1>5, <1>6 DEF Traces

LEMMA CountInSlot ==
    ASSUME NEW p, NEW a, NEW ep, NEW b, NEW o, NEW e, e.due, NEW s, D(s, p, a, ep, b, FALSE, o)
    PROVE  P([mtc0_count(s, e) EXCEPT !.slot = FALSE], p, Vector, a - 1, o)
<1> DEFINE t == exception_general(s)
           u == scarred(t, a)
<1>1. Is(t, p, Vector, TRUE, Vector, a - 1, TRUE, TRUE, o)
  BY DEF D, Is, exception_general, set_pc, leave_to_branch, MachineFields
<1>2. s.skip = None /\ ~s.exl /\ s.addr = a
  BY DEF D, Is
<1>3. mtc0_count(s, e) = [u EXCEPT !.addr = @ + 1]
  BY <1>2 DEF mtc0_count, interrupt_test, gen_interrupt
<1> HIDE DEF t
<1>4. Is(u, p, Vector, TRUE, Vector, a - 1, TRUE, TRUE, o)
  BY <1>1, ScarredRuns
<1> HIDE DEF u
<1>5. Is([[u EXCEPT !.addr = @ + 1] EXCEPT !.slot = FALSE],
         p, Vector + 1, FALSE, Vector, a - 1, TRUE, TRUE, o)
  BY <1>4 DEF Is, MachineFields
<1>6. Vector + 1 \in Int
  BY Addresses
<1> QED BY <1>3, <1>5, <1>6 DEF P

(* A jump of the cached interpreter can find its destination unmapped.      *)
Misses(p, to, e) == e.target /\ to \in Paged /\ ~p

LEMMA JumpAtRest ==
    ASSUME NEW p \in BOOLEAN, NEW a, NEW ep, NEW b, NEW x \in BOOLEAN, NEW o, NEW e \in Env,
           NEW to \in Int, x => to \notin Paged, NEW s, R(s, p, a, ep, b, x, o)
    PROVE  IF Misses(p, to, e)
           THEN R(jump_out(s, to, e), p, Handler(e.known), to, FALSE, TRUE, o)
           ELSE R(jump_out(s, to, e), p, to, ep, b, x, o)
<1>1. s.skip = None /\ s.pure = p
  BY DEF R, Is
<1>2. R(set_pc(s, to), p, to, ep, b, x, o) /\ R([s EXCEPT !.addr = to], p, to, ep, b, x, o)
  BY Jumped DEF R
<1>3. CASE Misses(p, to, e)
  <2>1. x = FALSE
    BY <1>3 DEF Misses
  <2>2. e.known \in BOOLEAN
    BY DEF Env
  <2>3. R(TLB_refill_exception([s EXCEPT !.addr = to], FALSE, e.known), p, Handler(e.known),
          IF FALSE THEN to - 1 ELSE to, FALSE, TRUE, o)
    BY <1>2, <2>1, <2>2, MissAtRest
  <2> QED BY <1>1, <1>3, <2>3 DEF jump_out, Misses
<1>4. CASE ~Misses(p, to, e)
  BY <1>1, <1>2, <1>4 DEF jump_out, Misses
<1> QED BY <1>3, <1>4
-----------------------------------------------------------------------------
(* 2. What the architecture allows.                                         *)

A(u, a, ep, b, x) ==
    /\ u = [f \in {"pc", "epc", "bd", "exl"} |-> u[f]]
    /\ u.pc = a /\ u.epc = ep /\ u.bd = b /\ u.exl = x

(* One step of the architecture that completes d leads from one state to    *)
(* another.                                                                 *)
Leads(a, ep, b, x, a2, ep2, b2, x2, d) ==
    \A u, t : A(u, a, ep, b, x) /\ A(t, a2, ep2, b2, x2) =>
                 [s |-> t, done |-> d] \in Architecture!Step(u)

LEMMA OneState ==
    ASSUME NEW a, NEW ep, NEW b, NEW x
    PROVE  /\ \E u : A(u, a, ep, b, x)
           /\ \A u, t : A(u, a, ep, b, x) /\ A(t, a, ep, b, x) => u = t
<1>1. A([pc |-> a, epc |-> ep, bd |-> b, exl |-> x], a, ep, b, x)
  BY DEF A
<1>2. ASSUME NEW u, NEW t, A(u, a, ep, b, x), A(t, a, ep, b, x) PROVE u = t
  BY <1>2 DEF A
<1> QED BY <1>1, <1>2

LEMMA Raised ==
    ASSUME NEW a, NEW ep, NEW b, NEW u, A(u, a, ep, b, FALSE), NEW at, NEW inSlot, NEW h
    PROVE  A(Architecture!Raise(u, at, inSlot, h), h, at, inSlot, TRUE)
BY DEF A, Architecture!Raise

LEMMA Interrupted ==
    ASSUME NEW a, NEW ep, NEW b
    PROVE  Leads(a, ep, b, FALSE, Vector, a, FALSE, TRUE, <<>>)
<1> SUFFICES ASSUME NEW u, NEW t, A(u, a, ep, b, FALSE), A(t, Vector, a, FALSE, TRUE)
             PROVE  [s |-> t, done |-> <<>>] \in Architecture!Step(u)
  BY DEF Leads
<1>1. t = Architecture!Raise(u, a, FALSE, Vector)
  <2>1. A(Architecture!Raise(u, a, FALSE, Vector), Vector, a, FALSE, TRUE)
    BY Raised
  <2> QED BY <2>1, OneState, Zenon
<1>2. u.pc = a /\ ~u.exl
  BY DEF A
<1> QED BY <1>1, <1>2 DEF Architecture!Step

LEMMA Faulted ==
    ASSUME NEW a, NEW ep, NEW b, NEW h \in Architecture!Faults(a)
    PROVE  Leads(a, ep, b, FALSE, h, a, FALSE, TRUE, <<>>)
<1> SUFFICES ASSUME NEW u, NEW t, A(u, a, ep, b, FALSE), A(t, h, a, FALSE, TRUE)
             PROVE  [s |-> t, done |-> <<>>] \in Architecture!Step(u)
  BY DEF Leads
<1>1. t = Architecture!Raise(u, a, FALSE, h)
  <2>1. A(Architecture!Raise(u, a, FALSE, h), h, a, FALSE, TRUE)
    BY Raised
  <2> QED BY <2>1, OneState, Zenon
<1>2. u.pc = a
  BY DEF A
<1> QED BY <1>1, <1>2 DEF Architecture!Step

LEMMA SlotFaulted ==
    ASSUME NEW a, NEW ep, NEW b, Code[a].op \in Control,
           NEW h \in Architecture!Faults(a + 1) \cup {Vector}
    PROVE  Leads(a, ep, b, FALSE, h, a, TRUE, TRUE, <<>>)
<1> SUFFICES ASSUME NEW u, NEW t, A(u, a, ep, b, FALSE), A(t, h, a, TRUE, TRUE)
             PROVE  [s |-> t, done |-> <<>>] \in Architecture!Step(u)
  BY DEF Leads
<1>1. t = Architecture!Raise(u, a, TRUE, h)
  <2>1. A(Architecture!Raise(u, a, TRUE, h), h, a, TRUE, TRUE)
    BY Raised
  <2> QED BY <2>1, OneState, Zenon
<1>2. u.pc = a /\ ~u.exl
  BY DEF A
<1>3. Code[a].op \in Architecture!Control /\ Code[a].op # "sys" /\ Code[a].op # "eret"
  BY DEF Control, Jumps, Likely, Architecture!Control, Architecture!Jumps, Architecture!Likely,
         Architecture!Branches
<1> QED BY <1>1, <1>2, <1>3 DEF Architecture!Step

LEMMA Ordinary ==
    ASSUME NEW a, NEW ep, NEW b, NEW x, Code[a].op \in Accesses \cup {"op", "fp", "mtc0", "count"}
    PROVE  Leads(a, ep, b, x, a + 1, ep, b, x, <<a>>)
<1> SUFFICES ASSUME NEW u, NEW t, A(u, a, ep, b, x), A(t, a + 1, ep, b, x)
             PROVE  [s |-> t, done |-> <<a>>] \in Architecture!Step(u)
  BY DEF Leads
<1>1. t = [u EXCEPT !.pc = a + 1]
  BY DEF A
<1>2. u.pc = a
  BY DEF A
<1>3. Code[a].op \notin Architecture!Control /\ Code[a].op # "sys" /\ Code[a].op # "eret"
  BY DEF Accesses, Architecture!Control, Architecture!Jumps, Architecture!Likely, Architecture!Branches
<1> QED BY <1>1, <1>2, <1>3 DEF Architecture!Step

LEMMA Returned ==
    ASSUME NEW a, NEW ep, NEW b, NEW x, Code[a].op = "eret"
    PROVE  Leads(a, ep, b, x, ep, ep, b, FALSE, <<a>>)
<1> SUFFICES ASSUME NEW u, NEW t, A(u, a, ep, b, x), A(t, ep, ep, b, FALSE)
             PROVE  [s |-> t, done |-> <<a>>] \in Architecture!Step(u)
  BY DEF Leads
<1>1. A(Architecture!Return(u), ep, ep, b, FALSE)
  BY DEF A, Architecture!Return
<1>2. t = Architecture!Return(u)
  BY <1>1, OneState, Zenon
<1>3. u.pc = a
  BY DEF A
<1>4. Code[a].op \notin Architecture!Control /\ Code[a].op # "sys"
  BY DEF Architecture!Control, Architecture!Jumps, Architecture!Likely, Architecture!Branches
<1> QED BY <1>2, <1>3, <1>4 DEF Architecture!Step

LEMMA Branched ==
    ASSUME NEW a, NEW ep, NEW b, NEW x, Code[a].op \in Control, Code[a + 1].op # "sys",
           NEW n, n = Code[a].target \/ (n = a + 2 /\ Code[a].op \notin Jumps \cup Likely)
    PROVE  Leads(a, ep, b, x, n, ep, b, x, <<a + 1, a>>)
<1> SUFFICES ASSUME NEW u, NEW t, A(u, a, ep, b, x), A(t, n, ep, b, x)
             PROVE  [s |-> t, done |-> <<a + 1, a>>] \in Architecture!Step(u)
  BY DEF Leads
<1>1. t = [u EXCEPT !.pc = n]
  BY DEF A
<1>2. u.pc = a
  BY DEF A
<1>3. Code[a].op \in Architecture!Control /\ Code[a].op # "sys" /\ Code[a].op # "eret"
  BY DEF Control, Jumps, Likely, Architecture!Control, Architecture!Jumps, Architecture!Likely,
         Architecture!Branches
<1>4. n = a + 2 /\ n # Code[a].target => Code[a].op \in Architecture!Branches
  BY DEF Control, Jumps, Likely, Architecture!Branches
<1> QED BY <1>1, <1>2, <1>3, <1>4 DEF Architecture!Step

LEMMA SlotSkipped ==
    ASSUME NEW a, NEW ep, NEW b, NEW x, Code[a].op \in Likely
    PROVE  Leads(a, ep, b, x, a + 2, ep, b, x, <<a>>)
<1> SUFFICES ASSUME NEW u, NEW t, A(u, a, ep, b, x), A(t, a + 2, ep, b, x)
             PROVE  [s |-> t, done |-> <<a>>] \in Architecture!Step(u)
  BY DEF Leads
<1>1. t = [u EXCEPT !.pc = a + 2]
  BY DEF A
<1>2. u.pc = a
  BY DEF A
<1>3. Code[a].op \in Architecture!Control /\ Code[a].op # "sys" /\ Code[a].op # "eret"
  BY DEF Likely, Architecture!Control, Architecture!Likely
<1>4. Architecture!Likely = Likely
  BY DEF Likely, Architecture!Likely
<1> QED BY <1>1, <1>2, <1>3, <1>4 DEF Architecture!Step
-----------------------------------------------------------------------------
(* 3. Every instruction is one or two steps of the architecture.            *)

(* What a program at address a can rely on.                                 *)
LEMMA Programs ==
    ASSUME NEW a \in DOMAIN Code
    PROVE  /\ a \in Nat /\ a # None
           /\ Code[a].op \in Control \cup Accesses
                            \cup {"op", "fp", "sys", "mtc0", "count", "eret"}
           /\ Code[a].target \in DOMAIN Code
           /\ a \in Handlers => a \notin Paged
           /\ a \in Handlers => Code[a].op \in {"op", "mtc0", "count", "eret"} \cup (Control \ Cop1)
           /\ Code[a].op = "eret" => a \in Handlers
BY InterpreterAssumption, ProgramAssumption DEF None

LEMMA NextAddress ==
    ASSUME NEW a \in DOMAIN Code, Code[a].op \in Accesses \cup {"op", "fp", "mtc0", "count"}
    PROVE  a + 1 \in DOMAIN Code /\ (a + 1 \in Handlers <=> a \in Handlers)
<1>1. Following(a) = {a + 1}
  BY DEF Following, Control, Jumps, Likely, Accesses
<1> QED BY <1>1, ProgramAssumption

LEMMA Destinations ==
    ASSUME NEW a \in DOMAIN Code, Code[a].op \in Control
    PROVE  /\ Code[a].target \in DOMAIN Code /\ (Code[a].target \in Handlers <=> a \in Handlers)
           /\ Code[a].op \notin Jumps =>
                a + 2 \in DOMAIN Code /\ (a + 2 \in Handlers <=> a \in Handlers)
<1>1. Code[a].op \in Jumps => Following(a) = {Code[a].target}
  BY DEF Following, Jumps
<1>2. Code[a].op \notin Jumps => Following(a) = {Code[a].target, a + 2}
  BY DEF Following, Control, Jumps, Likely
<1>3. \A c \in Following(a) : c \in DOMAIN Code /\ (c \in Handlers <=> a \in Handlers)
  BY ProgramAssumption
<1> QED BY <1>1, <1>2, <1>3

LEMMA Slots ==
    ASSUME NEW a \in DOMAIN Code, Code[a].op \in Control
    PROVE  /\ a + 1 \in DOMAIN Code
           /\ Code[a + 1].op \in Accesses \cup {"op", "fp", "sys", "count"}
           /\ a \in Handlers => Code[a + 1].op = "op"
           /\ a + 1 \in Paged => Page(a) = Page(a + 1)
BY ProgramAssumption

Went(p, a, ep, b, x, r) ==
    \E a2, ep2, b2, x2, d :
        /\ R(r, p, a2, ep2, b2, x2, d)
        /\ Fit(p, a2, ep2, b2, x2)
        /\ d \in Seq(Int)
        /\ \/ Leads(a, ep, b, x, a2, ep2, b2, x2, d)
           \/ \E a1, ep1, b1, x1 :
                /\ Leads(a, ep, b, x, a1, ep1, b1, x1, d)
                /\ Leads(a1, ep1, b1, x1, a2, ep2, b2, x2, <<>>)

LEMMA Handled ==
    ASSUME NEW p \in BOOLEAN, NEW a \in DOMAIN Code \ Handlers, NEW h \in {Vector, Refill},
           NEW b \in BOOLEAN, b => Code[a].op \in Control
    PROVE  Fit(p, h, a, b, TRUE)
BY Addresses, Programs DEF Fit

LEMMA HandlerKinds ==
    ASSUME NEW known \in BOOLEAN
    PROVE  Handler(known) \in {Vector, Refill}
BY DEF Handler

(* An instruction, and then perhaps an interrupt.                           *)
LEMMA AfterTest ==
    ASSUME NEW p, NEW a, NEW ep, NEW b, NEW x, NEW z, NEW e \in Env,
           NEW a1, NEW ep1, NEW b1, NEW x1, NEW d \in Seq(Int),
           Fit(p, a1, ep1, b1, x1), R(z, p, a1, ep1, b1, x1, d),
           Leads(a, ep, b, x, a1, ep1, b1, x1, d)
    PROVE  Went(p, a, ep, b, x, interrupt_test(z, e))
<1>1. CASE e.due /\ ~x1
  <2>1. x1 = FALSE /\ p \in BOOLEAN /\ a1 \in DOMAIN Code \ Handlers /\ x1 \in BOOLEAN
    BY <1>1 DEF Fit
  <2>2. R(interrupt_test(z, e), p, Vector, a1, FALSE, TRUE, d)
    BY <1>1, <2>1, TestRaises
  <2>3. Fit(p, Vector, a1, FALSE, TRUE)
    BY <2>1, Handled
  <2>4. Leads(a1, ep1, b1, x1, Vector, a1, FALSE, TRUE, <<>>)
    BY <2>1, Interrupted
  <2> QED BY <2>2, <2>3, <2>4, Zenon DEF Went
<1>2. CASE ~e.due \/ x1
  <2>1. interrupt_test(z, e) = z
    BY <1>2, TestIdle
  <2> QED BY <2>1, Zenon DEF Went
<1> QED BY <1>1, <1>2

LEMMA Traps ==
    ASSUME NEW p \in BOOLEAN, NEW a \in DOMAIN Code \ Handlers, NEW ep, NEW b,
           NEW s, R(s, p, a, ep, b, FALSE, <<>>)
    PROVE  Went(p, a, ep, b, FALSE, exception_general(s))
<1>1. R(exception_general(s), p, Vector, a, FALSE, TRUE, <<>>)
  BY GeneralAtRest
<1>2. Fit(p, Vector, a, FALSE, TRUE)
  BY Handled
<1>3. <<>> \in Seq(Int)
  OBVIOUS
<1> QED BY <1>1, <1>2, <1>3, Interrupted, Zenon DEF Went

LEMMA SimpleGoes ==
    ASSUME NEW p, NEW a, NEW ep, NEW b, NEW x, Fit(p, a, ep, b, x), NEW e \in Env,
           NEW s, R(s, p, a, ep, b, x, <<>>), Code[a].op \notin Control, ~CountHit(a, x, e)
    PROVE  Went(p, a, ep, b, x, simple(s, e))
<1>1. /\ p \in BOOLEAN /\ x \in BOOLEAN /\ a \in DOMAIN Code /\ a \in Int
      /\ Code[a].op \in Accesses \cup {"op", "fp", "sys", "mtc0", "count", "eret"}
      /\ <<>> \in Seq(Int) /\ <<a>> \in Seq(Int) /\ Append(<<>>, a) = <<a>>
  BY Programs DEF Fit
<1>2. s.addr = a /\ s.epc = ep
  BY DEF R, Is
<1>3. e.data \in BOOLEAN /\ e.known \in BOOLEAN /\ e.usable \in BOOLEAN
  BY DEF Env
<1>4. Code[a].op \in Accesses \cup {"fp", "sys"} => x = FALSE /\ a \in DOMAIN Code \ Handlers
  BY <1>1, Programs DEF Fit, Control, Jumps, Likely, Accesses
<1>5. CASE Code[a].op = "sys" \/ check_cop1_unusable(s, e)
  <2>1. Code[a].op \in {"sys", "fp"}
    BY <1>2, <1>5 DEF check_cop1_unusable, Cop1, Control, Likely
  <2>2. simple(s, e) = exception_general(s)
    BY <1>2, <1>5, <2>1 DEF simple, Accesses
  <2> QED BY <1>1, <1>4, <2>1, <2>2, Traps
<1>6. CASE Code[a].op \in Accesses
  <2>1. simple(s, e) = memory_access(s, e)
    BY <1>2, <1>6 DEF simple, check_cop1_unusable, Cop1, Accesses
  <2>2. CASE e.data
    <3>1. R(simple(s, e), p, Handler(e.known), a, FALSE, TRUE, <<>>)
      BY <1>1, <1>4, <1>6, <2>1, <2>2, MemoryAtRest
    <3>2. Fit(p, Handler(e.known), a, FALSE, TRUE)
      BY <1>1, <1>3, <1>4, <1>6, HandlerKinds, Handled
    <3>3. Handler(e.known) \in Architecture!Faults(a)
      BY <1>3, <1>6, HandlerKinds DEF Architecture!Faults, Accesses, Architecture!Accesses
    <3>4. Leads(a, ep, b, x, Handler(e.known), a, FALSE, TRUE, <<>>)
      BY <1>4, <1>6, <3>3, Faulted
    <3> QED BY <1>1, <3>1, <3>2, <3>4, Zenon DEF Went
  <2>3. CASE ~e.data
    <3>1. R(simple(s, e), p, a + 1, ep, b, x, <<a>>)
      BY <1>1, <1>4, <1>6, <2>1, <2>3, MemoryAtRest
    <3>2. Fit(p, a + 1, ep, b, x)
      BY <1>1, <1>6, NextAddress DEF Fit
    <3>3. Leads(a, ep, b, x, a + 1, ep, b, x, <<a>>)
      BY <1>6, Ordinary
    <3> QED BY <1>1, <3>1, <3>2, <3>3, Zenon DEF Went
  <2> QED BY <1>3, <2>2, <2>3
<1>7. CASE Code[a].op \in {"op", "fp", "mtc0", "count"} /\ ~check_cop1_unusable(s, e)
  <2>1. R(plain(s), p, a + 1, ep, b, x, <<a>>)
    BY <1>1, PlainRuns DEF R
  <2>2. Fit(p, a + 1, ep, b, x)
    BY <1>1, <1>7, NextAddress DEF Fit
  <2>3. Leads(a, ep, b, x, a + 1, ep, b, x, <<a>>)
    BY <1>7, Ordinary
  <2>4. CASE Code[a].op = "mtc0"
    <3>1. simple(s, e) = interrupt_test(plain(s), e)
      BY <1>2, <1>7, <2>4 DEF simple, mtc0_status, Accesses
    <3> QED BY <1>1, <2>1, <2>2, <2>3, <3>1, AfterTest
  <2>5. CASE Code[a].op # "mtc0"
    <3>1. simple(s, e) = plain(s)
      <4>1. CASE Code[a].op = "count"
        <5>1. simple(s, e) = mtc0_count(s, e)
          BY <1>2, <1>7, <4>1 DEF simple, Accesses
        <5>2. s.exl = x
          BY DEF R, Is
        <5> QED BY <4>1, <5>1, <5>2 DEF mtc0_count, CountHit
      <4>2. CASE Code[a].op # "count"
        BY <1>2, <1>7, <2>5, <4>2 DEF simple, Accesses
      <4> QED BY <4>1, <4>2
    <3> QED BY <1>1, <2>1, <2>2, <2>3, <3>1, Zenon DEF Went
  <2> QED BY <2>4, <2>5
<1>8. CASE Code[a].op = "eret"
  <2> DEFINE t == complete([s EXCEPT !.exl = FALSE], a)
             z == jump_out(t, ep, e)
  <2>1. simple(s, e) = interrupt_test(z, e)
    BY <1>2, <1>8 DEF simple, check_cop1_unusable, Cop1, ERET, Accesses
  <2>2. R(t, p, a, ep, b, FALSE, <<a>>)
    <3>1. R([s EXCEPT !.exl = FALSE], p, a, ep, b, FALSE, <<>>)
      BY Advanced DEF R
    <3> DEFINE y == [s EXCEPT !.exl = FALSE]
    <3>2. R(y, p, a, ep, b, FALSE, <<>>)
      BY <3>1
    <3> HIDE DEF y
    <3>3. R(complete(y, a), p, a, ep, b, FALSE, Append(<<>>, a))
      BY <3>2, Advanced DEF R
    <3> QED BY <1>1, <3>3 DEF y
  <2>3. ep \in DOMAIN Code \ Handlers /\ ep \in Int
    BY <1>1, <1>8, Programs DEF Fit
  <2>4. Fit(p, ep, ep, b, FALSE)
    BY <1>1, <2>3 DEF Fit
  <2>5. Leads(a, ep, b, x, ep, ep, b, FALSE, <<a>>)
    BY <1>8, Returned
  <2> HIDE DEF t
  <2>6. CASE Misses(p, ep, e)
    <3>1. R(z, p, Handler(e.known), ep, FALSE, TRUE, <<a>>)
      BY <1>1, <2>2, <2>3, <2>6, JumpAtRest
    <3>2. Fit(p, Handler(e.known), ep, FALSE, TRUE)
      BY <1>1, <1>3, <2>3, HandlerKinds, Handled
    <3>3. Handler(e.known) \in Architecture!Faults(ep)
      BY <1>3, <2>6, HandlerKinds DEF Architecture!Faults, Misses
    <3>4. Leads(ep, ep, b, FALSE, Handler(e.known), ep, FALSE, TRUE, <<>>)
      BY <3>3, Faulted
    <3>5. interrupt_test(z, e) = z
      BY <3>1, TestHandling
    <3> QED BY <1>1, <2>1, <2>5, <3>1, <3>2, <3>4, <3>5, Zenon DEF Went
  <2>7. CASE ~Misses(p, ep, e)
    <3>1. R(z, p, ep, ep, b, FALSE, <<a>>)
      BY <1>1, <2>2, <2>3, <2>7, JumpAtRest
    <3> HIDE DEF z
    <3> QED BY <1>1, <2>1, <2>4, <2>5, <3>1, AfterTest
  <2> QED BY <2>6, <2>7
<1> QED BY <1>1, <1>5, <1>6, <1>7, <1>8

(* The slot of a branch completes, or its exception is pending.             *)
LEMMA SlotRuns ==
    ASSUME NEW p, NEW a, NEW ep, NEW b, NEW x, Fit(p, a, ep, b, x), NEW e \in Env,
           NEW s, R(s, p, a, ep, b, x, <<>>), Code[a].op \in Control
    PROVE  \/ /\ R(delay_slot_op(s, e), p, a + 2, ep, b, x, <<a + 1>>)
              /\ Code[a + 1].op # "sys"
           \/ /\ x = FALSE
              /\ \E h \in {Vector, Refill} \cap (Architecture!Faults(a + 1) \cup {Vector}) :
                    P(delay_slot_op(s, e), p, h, a, <<>>)
<1> DEFINE t == [s EXCEPT !.addr = @ + 1, !.slot = TRUE]
<1>1. /\ p \in BOOLEAN /\ x \in BOOLEAN /\ a \in DOMAIN Code /\ a \in Int
      /\ a + 1 \in DOMAIN Code /\ a + 1 \in Int /\ (a + 1) + 1 = a + 2 /\ (a + 1) - 1 = a
      /\ Append(<<>>, a + 1) = <<a + 1>>
  <2>1. p \in BOOLEAN /\ x \in BOOLEAN /\ a \in DOMAIN Code
    BY DEF Fit
  <2>2. a \in Nat /\ a + 1 \in DOMAIN Code
    BY <2>1, Programs, Slots
  <2> QED BY <2>1, <2>2
<1>2. s.addr = a
  BY DEF R, Is
<1>3. D(t, p, a + 1, ep, b, x, <<>>) /\ t.addr = a + 1
  BY DEF D, R, Is, MachineFields
<1>4. delay_slot_op(s, e) = [simple(t, e) EXCEPT !.slot = FALSE]
  <2>1. Page(a) # Page(a + 1) => prefetch(t, e) = t
    BY <1>1, <1>3, Slots DEF prefetch
  <2> QED BY <1>2, <2>1 DEF delay_slot_op
<1> HIDE DEF t
<1>5. e.data \in BOOLEAN /\ e.known \in BOOLEAN /\ e.usable \in BOOLEAN
  BY DEF Env
<1>6. Code[a + 1].op \in Accesses \cup {"fp", "sys", "count"} => x = FALSE
  BY <1>1, Slots DEF Fit, Accesses
<1>7. ASSUME NEW z, D(z, p, a + 2, ep, b, x, <<a + 1>>)
      PROVE  R([z EXCEPT !.slot = FALSE], p, a + 2, ep, b, x, <<a + 1>>)
  BY <1>7 DEF D, R, Is, MachineFields
<1>8. D(plain(t), p, a + 2, ep, b, x, <<a + 1>>)
  <2>1. D(plain(t), p, (a + 1) + 1, ep, b, x, Append(<<>>, a + 1))
    BY <1>3, PlainRuns DEF D
  <2> QED BY <1>1, <2>1
<1>9. CASE Code[a + 1].op = "sys" \/ check_cop1_unusable(t, e)
  <2>1. Code[a + 1].op \in {"sys", "fp"}
    BY <1>1, <1>3, <1>9, Slots DEF check_cop1_unusable, Cop1, Accesses
  <2>2. simple(t, e) = exception_general(t)
    BY <1>3, <1>9, <2>1 DEF simple, Accesses
  <2>3. P(delay_slot_op(s, e), p, Vector, a, <<>>)
    <3>1. P([exception_general(t) EXCEPT !.slot = FALSE], p, Vector, (a + 1) - 1, <<>>)
      BY <1>3, GeneralInSlot
    <3> QED BY <1>1, <1>4, <2>2, <3>1
  <2>4. Vector \in Architecture!Faults(a + 1)
    BY <2>1 DEF Architecture!Faults
  <2> QED BY <1>6, <2>1, <2>3, <2>4
<1>10. CASE Code[a + 1].op \in Accesses
  <2>1. simple(t, e) = memory_access(t, e)
    BY <1>3, <1>10 DEF simple, check_cop1_unusable, Cop1, Accesses
  <2>2. D(t, p, a + 1, ep, b, FALSE, <<>>)
    BY <1>3, <1>6, <1>10
  <2>3. CASE e.data
    <3>1. P([memory_access(t, e) EXCEPT !.slot = FALSE], p, Handler(e.known), (a + 1) - 1, <<>>)
      BY <1>1, <2>2, <2>3, MemoryInSlot
    <3>2. Handler(e.known) \in {Vector, Refill} \cap (Architecture!Faults(a + 1) \cup {Vector})
      BY <1>5, <1>10, HandlerKinds DEF Architecture!Faults, Accesses, Architecture!Accesses
    <3> QED BY <1>1, <1>4, <1>6, <1>10, <2>1, <3>1, <3>2
  <2>4. CASE ~e.data
    <3>1. D(memory_access(t, e), p, (a + 1) + 1, ep, b, FALSE, Append(<<>>, a + 1))
      BY <1>1, <2>2, <2>4, MemoryInSlot
    <3>2. D(simple(t, e), p, a + 2, ep, b, x, <<a + 1>>)
      BY <1>1, <1>6, <1>10, <2>1, <3>1
    <3> QED BY <1>4, <1>7, <1>10, <3>2 DEF Accesses
  <2> QED BY <1>5, <2>3, <2>4
<1>11. CASE Code[a + 1].op \in {"op", "fp"} /\ ~check_cop1_unusable(t, e)
  <2>1. simple(t, e) = plain(t)
    BY <1>3, <1>11 DEF simple, Accesses
  <2> QED BY <1>4, <1>7, <1>8, <1>11, <2>1
<1>12. CASE Code[a + 1].op = "count"
  <2>1. simple(t, e) = mtc0_count(t, e)
    BY <1>3, <1>12 DEF simple, check_cop1_unusable, Cop1, Accesses
  <2>2. D(t, p, a + 1, ep, b, FALSE, <<>>) /\ x = FALSE
    BY <1>3, <1>6, <1>12
  <2>3. CASE e.due
    <3>1. P([mtc0_count(t, e) EXCEPT !.slot = FALSE], p, Vector, (a + 1) - 1, <<>>)
      BY <2>2, <2>3, CountInSlot
    <3> QED BY <1>1, <1>4, <2>1, <2>2, <3>1
  <2>4. CASE ~e.due
    <3>1. simple(t, e) = plain(t)
      BY <2>1, <2>4 DEF mtc0_count
    <3> QED BY <1>4, <1>7, <1>8, <1>12, <3>1
  <2> QED BY <2>3, <2>4
<1> QED BY <1>1, <1>9, <1>10, <1>11, <1>12, Slots

LEMMA AppendTwo ==
    ASSUME NEW u, NEW v
    PROVE  Append(<<u>>, v) = <<u, v>>
<1>1. <<u>> \in Seq({u, v}) /\ Len(<<u>>) = 1 /\ <<u>>[1] = u
  OBVIOUS
<1>2. <<u, v>> \in Seq({u, v}) /\ Len(<<u, v>>) = 2 /\ <<u, v>>[1] = u /\ <<u, v>>[2] = v
  OBVIOUS
<1>3. ASSUME NEW s \in Seq({u, v}), Len(s) = 1, s[1] = u
      PROVE  /\ Append(s, v) \in Seq({u, v}) /\ Len(Append(s, v)) = 2
             /\ Append(s, v)[1] = u /\ Append(s, v)[2] = v
  <2> DEFINE w == Append(s, v)
  <2>1. /\ w \in Seq({u, v}) /\ Len(w) = Len(s) + 1
        /\ \A i \in 1 .. Len(s) : w[i] = s[i]
        /\ w[Len(s) + 1] = v
    <3>1. v \in {u, v}
      OBVIOUS
    <3> QED BY <1>3, <3>1, AppendProperties
  <2> HIDE DEF w
  <2>2. Len(w) = 2 /\ w[1] = u /\ w[2] = v
    BY <1>3, <2>1
  <2> QED BY <2>1, <2>2 DEF w
<1>4. ASSUME NEW s \in Seq({u, v}), NEW t \in Seq({u, v}), Len(s) = 2, Len(t) = 2,
             s[1] = t[1], s[2] = t[2]
      PROVE  s = t
  <2>1. \A i \in 1 .. Len(s) : s[i] = t[i]
    BY <1>4
  <2> QED BY <1>4, <2>1, SeqEqual
<1> QED BY <1>1, <1>2, <1>3, <1>4

(* A branch and its slot complete together, or the branch is interrupted.   *)
LEMMA BranchGoes ==
    ASSUME NEW p, NEW a, NEW ep, NEW b, NEW x, Fit(p, a, ep, b, x), NEW e \in Env,
           NEW s, R(s, p, a, ep, b, x, <<>>), Code[a].op \in Control,
           Code[a].op \in Likely => Goes(s, e)
    PROVE  Went(p, a, ep, b, x, branch(s, e))
<1> DEFINE r == delay_slot_op(s, e)
           to == Code[a].target
           c == Completed(s, r)
           moved == IF ~Goes(s, e) THEN c
                    ELSE IF s.pure THEN move_pure(s, c) ELSE move_cached(s, c, e)
<1>1. p \in BOOLEAN /\ x \in BOOLEAN /\ a \in DOMAIN Code
  BY DEF Fit
<1>2. /\ a \in Int /\ to \in DOMAIN Code /\ to \in Int /\ (to \in Handlers <=> a \in Handlers)
      /\ x => to \notin Paged
  <2>1. to \in DOMAIN Code /\ (to \in Handlers <=> a \in Handlers)
    BY <1>1, Destinations
  <2>2. a \in Nat /\ to \in Nat /\ (to \in Handlers => to \notin Paged)
    BY <1>1, <2>1, Programs
  <2>3. x => to \notin Paged
    BY <2>1, <2>2 DEF Fit
  <2> QED BY <2>1, <2>2, <2>3
<1>3. s.addr = a /\ s.pure = p
  BY DEF R, Is
<1>4. branch(s, e) = interrupt_test(moved, e)
  BY DEF branch
<1>5. CASE R(r, p, a + 2, ep, b, x, <<a + 1>>) /\ Code[a + 1].op # "sys"
  <2>1. R(c, p, a + 2, ep, b, x, <<a + 1, a>>) /\ c.skip = None
    <3>1. r.skip = None
      BY <1>5 DEF R, Is
    <3>2. R(complete(r, a), p, a + 2, ep, b, x, Append(<<a + 1>>, a))
      BY <1>5, Advanced DEF R
    <3>3. Append(<<a + 1>>, a) = <<a + 1, a>>
      BY AppendTwo
    <3>4. c = complete(r, a)
      BY <1>3, <3>1 DEF Completed
    <3> QED BY <3>2, <3>3, <3>4 DEF R, Is
  <2>2. <<a + 1, a>> \in Seq(Int)
    BY <1>2
  <2> HIDE DEF c, r
  <2>3. CASE ~Goes(s, e)
    <3>1. Code[a].op \notin Jumps \cup Likely
      BY <1>3, <2>3 DEF Goes
    <3>2. Fit(p, a + 2, ep, b, x)
      BY <1>1, <1>2, <3>1, Destinations DEF Fit
    <3>3. Leads(a, ep, b, x, a + 2, ep, b, x, <<a + 1, a>>)
      BY <1>5, <3>1, Branched
    <3> QED BY <1>4, <2>1, <2>2, <2>3, <3>2, <3>3, AfterTest
  <2>4. CASE Goes(s, e)
    <3>1. Fit(p, to, ep, b, x)
      BY <1>1, <1>2 DEF Fit
    <3>2. Leads(a, ep, b, x, to, ep, b, x, <<a + 1, a>>)
      BY <1>5, Branched
    <3>3. CASE p
      <4>1. moved = move_pure(s, c)
        BY <1>3, <2>4, <3>3
      <4>2. R(move_pure(s, c), p, to, ep, b, x, <<a + 1, a>>)
        <5>1. (a + 2) + to - (a + 2) = to
          BY <1>2
        <5>2. R([c EXCEPT !.addr = to], p, to, ep, b, x, <<a + 1, a>>)
          BY <2>1, Jumped DEF R
        <5>3. [c EXCEPT !.addr = @ + to - (a + 2)] = [c EXCEPT !.addr = to]
          BY <2>1, <5>1 DEF R, Is
        <5> QED BY <1>3, <2>1, <5>2, <5>3 DEF move_pure
      <4> QED BY <1>4, <2>2, <3>1, <3>2, <4>1, <4>2, AfterTest
    <3>4. CASE ~p
      <4> DEFINE z == jump_out(c, to, e)
      <4>1. moved = z
        BY <1>3, <2>1, <2>4, <3>4 DEF move_cached
      <4>2. CASE Misses(p, to, e)
        <5>1. R(z, p, Handler(e.known), to, FALSE, TRUE, <<a + 1, a>>)
          BY <1>1, <1>2, <2>1, <4>2, JumpAtRest
        <5>2. e.known \in BOOLEAN
          BY DEF Env
        <5>3. x = FALSE /\ to \in DOMAIN Code \ Handlers
          BY <1>1, <1>2, <4>2 DEF Misses, Fit
        <5>4. Fit(p, Handler(e.known), to, FALSE, TRUE)
          BY <1>1, <5>2, <5>3, HandlerKinds, Handled
        <5>5. Handler(e.known) \in Architecture!Faults(to)
          BY <4>2, <5>2, HandlerKinds DEF Architecture!Faults, Misses
        <5>6. Leads(to, ep, b, x, Handler(e.known), to, FALSE, TRUE, <<>>)
          BY <5>3, <5>5, Faulted
        <5>7. interrupt_test(z, e) = z
          BY <5>1, TestHandling
        <5> QED BY <1>4, <2>2, <3>2, <4>1, <5>1, <5>4, <5>6, <5>7, Zenon DEF Went
      <4>3. CASE ~Misses(p, to, e)
        <5>1. R(z, p, to, ep, b, x, <<a + 1, a>>)
          BY <1>1, <1>2, <2>1, <4>3, JumpAtRest
        <5> QED BY <1>4, <2>2, <3>1, <3>2, <4>1, <5>1, AfterTest
      <4> QED BY <4>2, <4>3
    <3> QED BY <1>1, <3>3, <3>4
  <2> QED BY <2>3, <2>4
<1>6. CASE x = FALSE /\ \E h \in {Vector, Refill} \cap (Architecture!Faults(a + 1) \cup {Vector}) :
                           P(r, p, h, a, <<>>)
  <2>1. PICK h \in {Vector, Refill} \cap (Architecture!Faults(a + 1) \cup {Vector}) : P(r, p, h, a, <<>>)
    BY <1>6
  <2>2. h # None /\ h \in Int
    BY Addresses
  <2>3. r.skip = h /\ c = r
    BY <2>1, <2>2 DEF P, Is, Completed
  <2> HIDE DEF r
  <2>4. P(moved, p, h, a, <<>>)
    <3>1. CASE ~Goes(s, e)
      BY <2>1, <2>3, <3>1
    <3>2. CASE Goes(s, e) /\ p
      <4>1. moved = move_pure(s, r)
        BY <1>3, <2>3, <3>2
      <4>2. ASSUME NEW v \in Int PROVE P([r EXCEPT !.addr = v], p, h, a, <<>>)
        BY <2>1, <4>2 DEF P, Is, MachineFields
      <4>3. [r EXCEPT !.addr = @ + to - (a + 2)] = [r EXCEPT !.addr = r.addr + to - (a + 2)]
            /\ r.addr + to - (a + 2) \in Int
        BY <1>2, <2>1 DEF P, Is
      <4> HIDE DEF moved, to
      <4>4. P([r EXCEPT !.addr = @ + to - (a + 2)], p, h, a, <<>>)
        BY <4>2, <4>3
      <4>5. P([r EXCEPT !.addr = to], p, h, a, <<>>)
        BY <1>2, <4>2
      <4> QED BY <1>3, <2>1, <4>1, <4>4, <4>5 DEF move_pure, to
    <3>3. CASE Goes(s, e) /\ ~p
      BY <1>3, <2>1, <2>2, <2>3, <3>3 DEF move_cached
    <3> QED BY <1>1, <3>1, <3>2, <3>3
  <2>5. R(branch(s, e), p, h, a, TRUE, TRUE, <<>>)
    BY <1>4, <2>2, <2>4, TestPending
  <2>6. Fit(p, h, a, TRUE, TRUE)
    BY <1>1, <1>6, Handled DEF Fit
  <2>7. Leads(a, ep, b, x, h, a, TRUE, TRUE, <<>>)
    BY <1>6, SlotFaulted
  <2>8. <<>> \in Seq(Int)
    OBVIOUS
  <2> QED BY <2>5, <2>6, <2>7, <2>8, Zenon DEF Went
<1>7. \/ R(r, p, a + 2, ep, b, x, <<a + 1>>) /\ Code[a + 1].op # "sys"
      \/ x = FALSE /\ \E h \in {Vector, Refill} \cap (Architecture!Faults(a + 1) \cup {Vector}) :
                         P(r, p, h, a, <<>>)
  BY SlotRuns, Zenon
<1> QED BY <1>5, <1>6, <1>7

(* One instruction, or a branch with its slot.                              *)
LEMMA InstructionGoes ==
    ASSUME NEW p, NEW a, NEW ep, NEW b, NEW x, Fit(p, a, ep, b, x), NEW e \in Env,
           NEW s, R(s, p, a, ep, b, x, <<>>), ~CountHit(a, x, e)
    PROVE  Went(p, a, ep, b, x, interp_op(s, e))
<1>1. p \in BOOLEAN /\ x \in BOOLEAN /\ a \in DOMAIN Code
  BY DEF Fit
<1>2. s.addr = a
  BY DEF R, Is
<1>3. CASE check_cop1_unusable(s, e)
  <2>1. x = FALSE /\ a \in DOMAIN Code \ Handlers
    <3>1. Code[a].op \in Cop1
      BY <1>2, <1>3 DEF check_cop1_unusable
    <3> QED BY <1>1, <3>1, Programs DEF Fit, Cop1
  <2> QED BY <1>1, <1>3, <2>1, Traps DEF interp_op
<1>4. CASE ~check_cop1_unusable(s, e) /\ Code[a].op \notin Control
  <2>1. interp_op(s, e) = simple(s, e)
    BY <1>2, <1>4 DEF interp_op, Control
  <2> QED BY <1>4, <2>1, SimpleGoes
<1>5. CASE /\ ~check_cop1_unusable(s, e) /\ Code[a].op \in Control
           /\ Code[a].op \in Likely => Goes(s, e)
  <2>1. interp_op(s, e) = branch(s, e)
    BY <1>2, <1>5 DEF interp_op, branch_likely
  <2> QED BY <1>5, <2>1, BranchGoes
<1>6. CASE ~check_cop1_unusable(s, e) /\ Code[a].op \in Likely /\ ~Goes(s, e)
  <2> DEFINE z == complete([s EXCEPT !.addr = @ + 2], a)
  <2>1. interp_op(s, e) = interrupt_test(z, e)
    BY <1>2, <1>6 DEF interp_op, branch_likely
  <2>2. Code[a].op \in Control /\ Code[a].op \notin Jumps
    BY <1>6 DEF Control, Likely, Jumps
  <2>3. a \in Nat /\ <<a>> \in Seq(Int) /\ Append(<<>>, a) = <<a>>
    BY <1>1, Programs
  <2>4. R(z, p, a + 2, ep, b, x, <<a>>)
    <3> DEFINE y == [s EXCEPT !.addr = @ + 2]
    <3>1. R(y, p, a + 2, ep, b, x, <<>>)
      BY Advanced DEF R
    <3> HIDE DEF y
    <3>2. R(complete(y, a), p, a + 2, ep, b, x, Append(<<>>, a))
      BY <3>1, Advanced DEF R
    <3> QED BY <2>3, <3>2 DEF y
  <2>5. Fit(p, a + 2, ep, b, x)
    BY <1>1, <2>2, Destinations DEF Fit
  <2>6. Leads(a, ep, b, x, a + 2, ep, b, x, <<a>>)
    BY <1>6, SlotSkipped
  <2> HIDE DEF z
  <2> QED BY <2>1, <2>3, <2>4, <2>5, <2>6, AfterTest
<1>7. Likely \subseteq Control
  BY DEF Control
<1> QED BY <1>3, <1>4, <1>5, <1>6, <1>7
-----------------------------------------------------------------------------
(* 4. Every round is up to three steps of the architecture.                 *)

LEMMA FetchMisses ==
    ASSUME NEW p, NEW a, NEW ep, NEW b, NEW x, Fit(p, a, ep, b, x), NEW e \in Env,
           NEW s, R(s, p, a, ep, b, x, <<>>)
    PROVE  \/ prefetch(s, e) = s
           \/ \E h : /\ R(prefetch(s, e), p, h, a, FALSE, TRUE, <<>>)
                     /\ Fit(p, h, a, FALSE, TRUE)
                     /\ Leads(a, ep, b, x, h, a, FALSE, TRUE, <<>>)
<1>1. p \in BOOLEAN /\ x \in BOOLEAN /\ a \in DOMAIN Code
  BY DEF Fit
<1>2. s.addr = a
  BY DEF R, Is
<1> SUFFICES ASSUME prefetch(s, e) # s
             PROVE  \E h : /\ R(prefetch(s, e), p, h, a, FALSE, TRUE, <<>>)
                           /\ Fit(p, h, a, FALSE, TRUE)
                           /\ Leads(a, ep, b, x, h, a, FALSE, TRUE, <<>>)
  OBVIOUS
<1>3. a \in Paged /\ prefetch(s, e) = TLB_refill_exception(s, FALSE, e.known)
  BY <1>2 DEF prefetch
<1>4. x = FALSE /\ a \in DOMAIN Code \ Handlers /\ a \in Int
  BY <1>1, <1>3, Programs DEF Fit
<1>5. e.known \in BOOLEAN
  BY DEF Env
<1>6. R(prefetch(s, e), p, Handler(e.known), a, FALSE, TRUE, <<>>)
  <2>1. R(TLB_refill_exception(s, FALSE, e.known), p, Handler(e.known),
          IF FALSE THEN a - 1 ELSE a, FALSE, TRUE, <<>>)
    BY <1>4, <1>5, MissAtRest
  <2> QED BY <1>3, <2>1
<1>7. Fit(p, Handler(e.known), a, FALSE, TRUE)
  BY <1>1, <1>4, <1>5, HandlerKinds, Handled
<1>8. Handler(e.known) \in Architecture!Faults(a)
  BY <1>3, <1>5, HandlerKinds DEF Architecture!Faults
<1>9. Leads(a, ep, b, x, Handler(e.known), a, FALSE, TRUE, <<>>)
  BY <1>4, <1>8, Faulted
<1> QED BY <1>6, <1>7, <1>9, Zenon

(* Two steps of the architecture in a row.                                  *)
LEMMA Continued ==
    ASSUME NEW Y, NEW u, NEW d1, NEW t, NEW d2, [s |-> u, done |-> d1] \in Y,
           [s |-> t, done |-> d2] \in Architecture!Step(u)
    PROVE  [s |-> t, done |-> d1 \o d2] \in UNION {Architecture!Then(y) : y \in Y}
<1> DEFINE y == [s |-> u, done |-> d1]
           z == [s |-> t, done |-> d2]
<1>1. y.s = u /\ y.done = d1 /\ z.s = t /\ z.done = d2
  OBVIOUS
<1>2. y \in Y /\ z \in Architecture!Step(u)
  OBVIOUS
<1> HIDE DEF y, z
<1>3. [s |-> z.s, done |-> y.done \o z.done] \in Architecture!Then(y)
  BY <1>1, <1>2 DEF Architecture!Then
<1> QED BY <1>1, <1>2, <1>3

LEMMA NothingDone ==
    ASSUME NEW d \in Seq(Int)
    PROVE  <<>> \o d = d /\ d \o <<>> = d
BY ConcatEmptySeq

(* No operator leaves a trace of other instructions than the excused ones.  *)
Tracked(z, p) ==
    /\ {"scar", "pure"} \subseteq DOMAIN z
    /\ z.pure = p
    /\ \A a \in z.scar : Code[a].op \in {"sc", "count"} \/ (p /\ Code[a].op = "load")

LEMMA ScarsTracked ==
    ASSUME NEW p, NEW s, Tracked(s, p), NEW e
    PROVE  Tracked(interp_op(prefetch(s, e), e), p)
<1>1. ASSUME NEW z, Tracked(z, p), NEW v
      PROVE  /\ Tracked([z EXCEPT !.addr = v], p) /\ Tracked([z EXCEPT !.skip = v], p)
             /\ Tracked([z EXCEPT !.exl = v], p) /\ Tracked([z EXCEPT !.slot = v], p)
             /\ Tracked([z EXCEPT !.epc = v], p) /\ Tracked([z EXCEPT !.bd = v], p)
             /\ Tracked(complete(z, v), p) /\ Tracked(set_pc(z, v), p)
             /\ Tracked(leave_to_branch(z, v), p)
  BY <1>1 DEF Tracked, complete, set_pc, leave_to_branch
<1>2. ASSUME NEW z, Tracked(z, p), NEW u, NEW v, NEW w
      PROVE  Tracked([z EXCEPT !.exl = u, !.epc = v, !.bd = w], p)
  BY <1>2 DEF Tracked
<1>3. ASSUME NEW z, Tracked(z, p)
      PROVE  Tracked(exception_general(z), p)
  BY <1>1, <1>2, <1>3 DEF exception_general
<1>4. ASSUME NEW z, Tracked(z, p), NEW data, NEW known
      PROVE  Tracked(TLB_refill_exception(z, data, known), p)
  BY <1>1, <1>2, <1>4 DEF TLB_refill_exception
<1>5. ASSUME NEW z, Tracked(z, p)
      PROVE  Tracked(interrupt_test(z, e), p)
  <2>1. Tracked([z EXCEPT !.addr = z.skip, !.skip = None], p)
    BY <1>5 DEF Tracked
  <2> QED BY <1>3, <1>5, <2>1 DEF interrupt_test, gen_interrupt
<1>6. ASSUME NEW z, Tracked(z, p)
      PROVE  Tracked([z EXCEPT !.addr = @ + 1], p) /\ Tracked([z EXCEPT !.addr = @ + 2], p)
  BY <1>6 DEF Tracked
<1>7. ASSUME NEW z, Tracked(z, p), NEW a,
             Code[a].op \in {"sc", "count"} \/ (p /\ Code[a].op = "load")
      PROVE  Tracked(scarred(z, a), p)
  BY <1>7 DEF Tracked, scarred
<1>8. ASSUME NEW z, Tracked(z, p)
      PROVE  Tracked(plain(z), p) /\ Tracked(memory_access(z, e), p)
  <2>1. Tracked(plain(z), p)
    BY <1>1, <1>6, <1>8 DEF plain
  <2> DEFINE next == [z EXCEPT !.addr = @ + 1]
             missed == TLB_refill_exception(next, TRUE, e.known)
  <2>2. Tracked(next, p) /\ Tracked(missed, p) /\ Tracked(complete(next, z.addr), p)
    BY <1>1, <1>4, <1>6, <1>8
  <2>3. z.pure = p
    BY <1>8 DEF Tracked
  <2>4. memory_access(z, e) =
          IF ~e.data THEN complete(next, z.addr)
          ELSE IF Code[z.addr].op = "sc" \/ (Code[z.addr].op = "load" /\ z.pure)
               THEN scarred(missed, z.addr) ELSE missed
    BY DEF memory_access
  <2> HIDE DEF next, missed
  <2> QED BY <1>7, <2>1, <2>2, <2>3, <2>4
<1>9. ASSUME NEW z, Tracked(z, p), Code[z.addr].op = "count"
      PROVE  Tracked(mtc0_count(z, e), p)
  <2> DEFINE u == scarred(interrupt_test(z, e), z.addr)
  <2>1. Tracked(u, p)
    BY <1>5, <1>7, <1>9
  <2> HIDE DEF u
  <2>2. Tracked([u EXCEPT !.addr = @ + 1], p) /\ Tracked(plain(z), p)
    BY <1>6, <1>8, <1>9, <2>1
  <2> QED BY <2>2 DEF mtc0_count, u
<1>10. ASSUME NEW z, Tracked(z, p), NEW v
       PROVE  Tracked(jump_out(z, v, e), p)
  BY <1>1, <1>4, <1>10 DEF jump_out
<1>11. ASSUME NEW z, Tracked(z, p)
       PROVE  Tracked(simple(z, e), p)
  <2>1. Tracked(ERET(z, e), p)
    BY <1>1, <1>5, <1>10, <1>11 DEF ERET
  <2>2. Tracked(mtc0_status(z, e), p)
    BY <1>5, <1>8, <1>11 DEF mtc0_status
  <2> DEFINE op == Code[z.addr].op
  <2>3. \/ simple(z, e) \in {exception_general(z), memory_access(z, e), mtc0_status(z, e),
                            ERET(z, e), plain(z)}
        \/ op = "count" /\ simple(z, e) = mtc0_count(z, e)
    BY DEF simple, Accesses
  <2> QED BY <1>3, <1>8, <1>9, <1>11, <2>1, <2>2, <2>3
<1>12. ASSUME NEW z, Tracked(z, p)
       PROVE  Tracked(prefetch(z, e), p)
  BY <1>4, <1>12 DEF prefetch
<1>13. ASSUME NEW z, Tracked(z, p)
       PROVE  Tracked(delay_slot_op(z, e), p)
  <2> DEFINE u == [z EXCEPT !.addr = @ + 1, !.slot = TRUE]
             v == IF Page(z.addr) = Page(z.addr + 1) THEN u ELSE prefetch(u, e)
  <2>1. Tracked(u, p)
    BY <1>13 DEF Tracked
  <2>2. Tracked(v, p)
    BY <1>12, <2>1
  <2>3. delay_slot_op(z, e) = [simple(v, e) EXCEPT !.slot = FALSE]
    BY DEF delay_slot_op
  <2> HIDE DEF u, v
  <2>4. Tracked(simple(v, e), p)
    BY <1>11, <2>2
  <2> DEFINE w == simple(v, e)
  <2> HIDE DEF w
  <2>5. Tracked([w EXCEPT !.slot = FALSE], p)
    BY <2>4 DEF Tracked, w
  <2> QED BY <2>3, <2>5 DEF w
<1>14. ASSUME NEW z, NEW r, Tracked(z, p), Tracked(r, p)
       PROVE  /\ Tracked(Completed(z, r), p) /\ Tracked(move_pure(z, r), p)
              /\ Tracked(move_cached(z, r, e), p)
  <2>1. Tracked(Completed(z, r), p) /\ Tracked(move_cached(z, r, e), p)
    BY <1>1, <1>10, <1>14 DEF Completed, move_cached
  <2> DEFINE to == Code[z.addr].target
  <2>2. Tracked([r EXCEPT !.addr = to], p) /\ Tracked([r EXCEPT !.addr = @ + to - (z.addr + 2)], p)
    BY <1>14 DEF Tracked
  <2> QED BY <1>14, <2>1, <2>2 DEF move_pure
<1>15. ASSUME NEW z, Tracked(z, p)
       PROVE  Tracked(branch(z, e), p)
  <2> DEFINE r == delay_slot_op(z, e)
             c == Completed(z, r)
             moved == IF ~Goes(z, e) THEN c
                      ELSE IF z.pure THEN move_pure(z, c) ELSE move_cached(z, c, e)
  <2>1. Tracked(c, p)
    BY <1>13, <1>14, <1>15
  <2> HIDE DEF c
  <2>2. Tracked(moved, p)
    BY <1>14, <1>15, <2>1
  <2>3. branch(z, e) = interrupt_test(moved, e)
    BY DEF branch, c
  <2> HIDE DEF moved
  <2> QED BY <1>5, <2>2, <2>3
<1>16. ASSUME NEW z, Tracked(z, p)
       PROVE  Tracked(branch_likely(z, e), p)
  BY <1>1, <1>5, <1>6, <1>15, <1>16 DEF branch_likely
<1>17. ASSUME NEW z, Tracked(z, p)
       PROVE  Tracked(interp_op(z, e), p)
  BY <1>3, <1>11, <1>15, <1>16, <1>17 DEF interp_op
<1> QED BY <1>12, <1>17

(* A round keeps the machine at rest and is up to three steps, or the       *)
(* interrupt of a write to Count.                                           *)
LEMMA RoundRuns ==
    ASSUME Rest, NEW e \in Env, Round(e)
    PROVE  /\ Rest'
           /\ (Architecture!Run /\ \A c \in scars' : Excused(c)) \/ CountInterrupted
<1> DEFINE p == m.pure
           a == m.addr
           ep == m.epc
           b == m.bd
           x == m.exl
           f == prefetch(m, e)
           r == interp_op(f, e)
           St == Architecture!State
           one == Architecture!Step(St)
           two == UNION {Architecture!Then(y) : y \in one}
           three == UNION {Architecture!Then(y) : y \in two}
<1>1. R(m, p, a, ep, b, x, <<>>) /\ Fit(p, a, ep, b, x)
  BY DEF Rest
<1>2. m' = [r EXCEPT !.out = <<>>, !.scar = {}] /\ done' = r.out /\ scars' = r.scar
  BY DEF Round
<1>3. A(St, a, ep, b, x)
  BY DEF A, Architecture!State
<1>4. A(St', a', ep', b', x')
  BY DEF A, Architecture!State
<1>5. ASSUME NEW a2, NEW ep2, NEW b2, NEW x2, NEW d, R(r, p, a2, ep2, b2, x2, d),
             Fit(p, a2, ep2, b2, x2)
      PROVE  Rest' /\ A(St', a2, ep2, b2, x2) /\ done' = d
  <2> DEFINE z == [r EXCEPT !.out = <<>>, !.scar = {}]
  <2>1. R(z, p, a2, ep2, b2, x2, <<>>) /\ z.scar = {} /\ r.out = d
    BY <1>5 DEF R, Is, MachineFields
  <2>2. R(m', p, a2, ep2, b2, x2, <<>>) /\ m'.scar = {} /\ done' = d
    BY <1>2, <2>1
  <2>3. p' = p /\ a' = a2 /\ ep' = ep2 /\ b' = b2 /\ x' = x2
    BY <2>2 DEF R, Is
  <2> QED BY <1>4, <1>5, <2>2, <2>3 DEF Rest
<1>6. ASSUME NEW d, [s |-> St', done |-> d] \in one \cup two \cup three, done' = d
      PROVE  Architecture!Run
  <2>1. [s |-> St', done |-> d].s = St' /\ [s |-> St', done |-> d].done = d
    OBVIOUS
  <2> QED BY <1>6, <2>1 DEF Architecture!Run
<1>7. \A c \in scars' : Excused(c)
  <2>1. Tracked(m, p)
    BY <1>1 DEF Rest, R, Is, MachineFields, Tracked
  <2>2. Tracked(r, p)
    BY <2>1, ScarsTracked
  <2> QED BY <1>2, <2>2 DEF Tracked, Excused
<1>8. CASE f = m /\ ~CountHit(a, x, e)
  <2>1. Went(p, a, ep, b, x, r)
    BY <1>1, <1>8, InstructionGoes
  <2> HIDE DEF p, a, ep, b, x, f, r, St
  <2>2. PICK a2, ep2, b2, x2, d :
          /\ R(r, p, a2, ep2, b2, x2, d)
          /\ Fit(p, a2, ep2, b2, x2)
          /\ d \in Seq(Int)
          /\ \/ Leads(a, ep, b, x, a2, ep2, b2, x2, d)
             \/ \E a1, ep1, b1, x1 :
                  /\ Leads(a, ep, b, x, a1, ep1, b1, x1, d)
                  /\ Leads(a1, ep1, b1, x1, a2, ep2, b2, x2, <<>>)
    BY <2>1 DEF Went
  <2>3. Rest' /\ A(St', a2, ep2, b2, x2) /\ done' = d
    BY <1>5, <2>2
  <2>4. CASE Leads(a, ep, b, x, a2, ep2, b2, x2, d)
    <3>1. [s |-> St', done |-> d] \in one
      BY <1>3, <2>3, <2>4 DEF Leads
    <3> QED BY <1>6, <1>7, <2>3, <3>1
  <2>5. CASE \E a1, ep1, b1, x1 :
                /\ Leads(a, ep, b, x, a1, ep1, b1, x1, d)
                /\ Leads(a1, ep1, b1, x1, a2, ep2, b2, x2, <<>>)
    <3>1. PICK a1, ep1, b1, x1 :
                /\ Leads(a, ep, b, x, a1, ep1, b1, x1, d)
                /\ Leads(a1, ep1, b1, x1, a2, ep2, b2, x2, <<>>)
      BY <2>5
    <3>2. PICK u : A(u, a1, ep1, b1, x1)
      BY OneState
    <3>3. [s |-> u, done |-> d] \in one
      BY <1>3, <3>1, <3>2 DEF Leads
    <3>4. [s |-> St', done |-> <<>>] \in Architecture!Step(u)
      BY <2>3, <3>1, <3>2 DEF Leads
    <3>5. [s |-> St', done |-> d \o <<>>] \in two
      BY <3>3, <3>4, Continued
    <3> QED BY <1>6, <1>7, <2>2, <2>3, <3>5, NothingDone
  <2> QED BY <2>2, <2>4, <2>5
<1>9. CASE f # m
  <2>1. PICK h : /\ R(f, p, h, a, FALSE, TRUE, <<>>)
                 /\ Fit(p, h, a, FALSE, TRUE)
                 /\ Leads(a, ep, b, x, h, a, FALSE, TRUE, <<>>)
    BY <1>1, <1>9, FetchMisses
  <2>2. Went(p, h, a, FALSE, TRUE, r)
    BY <2>1, InstructionGoes DEF CountHit
  <2> HIDE DEF p, a, ep, b, x, f, r, St
  <2>3. PICK a2, ep2, b2, x2, d :
          /\ R(r, p, a2, ep2, b2, x2, d)
          /\ Fit(p, a2, ep2, b2, x2)
          /\ d \in Seq(Int)
          /\ \/ Leads(h, a, FALSE, TRUE, a2, ep2, b2, x2, d)
             \/ \E a1, ep1, b1, x1 :
                  /\ Leads(h, a, FALSE, TRUE, a1, ep1, b1, x1, d)
                  /\ Leads(a1, ep1, b1, x1, a2, ep2, b2, x2, <<>>)
    BY <2>2 DEF Went
  <2>4. Rest' /\ A(St', a2, ep2, b2, x2) /\ done' = d
    BY <1>5, <2>3
  <2>5. PICK w : A(w, h, a, FALSE, TRUE)
    BY OneState
  <2>6. [s |-> w, done |-> <<>>] \in one
    BY <1>3, <2>1, <2>5 DEF Leads
  <2>7. CASE Leads(h, a, FALSE, TRUE, a2, ep2, b2, x2, d)
    <3>1. [s |-> St', done |-> d] \in Architecture!Step(w)
      BY <2>4, <2>5, <2>7 DEF Leads
    <3>2. [s |-> St', done |-> <<>> \o d] \in two
      BY <2>6, <3>1, Continued
    <3> QED BY <1>6, <1>7, <2>3, <2>4, <3>2, NothingDone
  <2>8. CASE \E a1, ep1, b1, x1 :
                /\ Leads(h, a, FALSE, TRUE, a1, ep1, b1, x1, d)
                /\ Leads(a1, ep1, b1, x1, a2, ep2, b2, x2, <<>>)
    <3>1. PICK a1, ep1, b1, x1 :
                /\ Leads(h, a, FALSE, TRUE, a1, ep1, b1, x1, d)
                /\ Leads(a1, ep1, b1, x1, a2, ep2, b2, x2, <<>>)
      BY <2>8
    <3>2. PICK u : A(u, a1, ep1, b1, x1)
      BY OneState
    <3>3. [s |-> u, done |-> d] \in Architecture!Step(w)
      BY <2>5, <3>1, <3>2 DEF Leads
    <3>4. [s |-> St', done |-> <<>>] \in Architecture!Step(u)
      BY <2>4, <3>1, <3>2 DEF Leads
    <3>5. [s |-> u, done |-> <<>> \o d] \in two
      BY <2>6, <3>3, Continued
    <3>6. [s |-> u, done |-> d] \in two
      BY <2>3, <3>5, NothingDone
    <3> HIDE DEF two
    <3>7. [s |-> St', done |-> d \o <<>>] \in three
      BY <3>4, <3>6, Continued
    <3> QED BY <1>6, <1>7, <2>3, <2>4, <3>7, NothingDone
  <2> QED BY <2>3, <2>7, <2>8
<1>10. CASE f = m /\ CountHit(a, x, e)
  <2>1. R(m, p, a, ep, b, FALSE, <<>>) /\ x = FALSE /\ a \in DOMAIN Code \ Handlers
    BY <1>1, <1>10 DEF CountHit, Fit
  <2>2. r = mtc0_count(m, e)
    <3>1. Code[m.addr].op = "count"
      BY <1>10 DEF CountHit
    <3> QED BY <1>10, <3>1
         DEF interp_op, simple, check_cop1_unusable, Cop1, Likely, Control, Jumps, Accesses
  <2>3. R(r, p, Vector + 1, a, FALSE, TRUE, <<>>) /\ r.scar = {a}
    <3>1. e.due /\ m.scar = {}
      BY <1>10 DEF CountHit, Rest
    <3>2. /\ R(mtc0_count(m, e), p, Vector + 1, a, FALSE, TRUE, <<>>)
          /\ Traces(mtc0_count(m, e), {a})
      BY <1>1, <2>1, <3>1, CountAtRest
    <3> HIDE DEF r
    <3> QED BY <2>2, <3>2 DEF Traces
  <2>4. Fit(p, Vector + 1, a, FALSE, TRUE)
    <3>1. Vector + 1 \in Handlers /\ Handlers \subseteq DOMAIN Code
      BY ProgramAssumption
    <3> QED BY <1>1, <2>1, <3>1, Programs DEF Fit
  <2>5. Rest' /\ done' = <<>>
    BY <1>5, <2>3, <2>4
  <2>6. m' = [m EXCEPT !.addr = Vector + 1, !.epc = m.addr, !.bd = FALSE, !.exl = TRUE]
    <3>1. [r EXCEPT !.out = <<>>, !.scar = {}]
            = [m EXCEPT !.addr = Vector + 1, !.epc = m.addr, !.bd = FALSE, !.exl = TRUE]
      <4>1. m.scar = {}
        BY DEF Rest
      <4> HIDE DEF r
      <4> QED BY <2>1, <2>3, <4>1 DEF R, Is, MachineFields
    <3> QED BY <1>2, <3>1
  <2>7. CountInterrupted
    BY <1>2, <1>10, <2>3, <2>5, <2>6 DEF CountInterrupted, CountHit
  <2> QED BY <2>5, <2>7
<1> QED BY <1>8, <1>9, <1>10
-----------------------------------------------------------------------------
(* 5. The theorems.                                                         *)

LEMMA Starts ==
    ASSUME NEW isPure \in BOOLEAN
    PROVE  /\ R(Machine(isPure, None), isPure, Start, None, FALSE, FALSE, <<>>)
           /\ Fit(isPure, Start, None, FALSE, FALSE)
           /\ Machine(isPure, None).scar = {}
<1>1. R(Machine(isPure, None), isPure, Start, None, FALSE, FALSE, <<>>)
      /\ Machine(isPure, None).scar = {}
  BY DEF R, Is, Machine, MachineFields
<1>2. Fit(isPure, Start, None, FALSE, FALSE)
  BY Addresses, ProgramAssumption DEF Fit, None
<1> QED BY <1>1, <1>2

LEMMA PoweredOn ==
    ASSUME NEW s, NEW isPure, R(s, isPure, Start, None, FALSE, FALSE, <<>>)
    PROVE  [pc |-> s.addr, epc |-> s.epc, bd |-> s.bd, exl |-> s.exl] = Architecture!PowerOn
BY DEF R, Is, Architecture!PowerOn, None

LEMMA StepRuns ==
    ASSUME SwitchBack = FALSE, Rest, [Next]_vars
    PROVE  /\ Rest'
           /\ [(Architecture!Next /\ \A a \in scars' : Excused(a)) \/ CountInterrupted]_vars
<1>1. ASSUME NEW e \in Env, Round(e)
      PROVE  /\ Rest'
             /\ (Architecture!Next /\ \A a \in scars' : Excused(a)) \/ CountInterrupted
  BY <1>1, RoundRuns DEF Architecture!Next
<1>2. ASSUME NEW isPure \in BOOLEAN, core_start(isPure)
      PROVE  Rest' /\ Architecture!Next /\ scars' = {}
  <2>1. m' = Machine(isPure, None) /\ done' = <<>> /\ scars' = {}
    <3>1. m.pure \in BOOLEAN /\ m.stale = None /\ m.addr # None
      BY Addresses DEF Rest, R, Is, Fit
    <3> QED BY <1>2, <3>1 DEF core_start
  <2>2. /\ R(m', isPure, Start, None, FALSE, FALSE, <<>>)
        /\ Fit(isPure, Start, None, FALSE, FALSE)
        /\ m'.scar = {}
    BY <2>1, Starts
  <2>3. Rest'
    BY <2>2 DEF Rest, R, Is
  <2>4. Architecture!Reset
    BY <2>1, <2>2, PoweredOn DEF Architecture!Reset, Architecture!State
  <2> QED BY <2>1, <2>3, <2>4 DEF Architecture!Next
<1>3. CASE UNCHANGED vars
  BY <1>3 DEF vars, Rest
<1> QED BY <1>1, <1>2, <1>3 DEF Next

LEMMA InitRuns == Init => Rest /\ Architecture!Init
<1> SUFFICES ASSUME Init PROVE Rest /\ Architecture!Init
  OBVIOUS
<1>1. PICK isPure \in BOOLEAN : m = Machine(isPure, None)
  BY DEF Init
<1>2. /\ R(m, isPure, Start, None, FALSE, FALSE, <<>>)
      /\ Fit(isPure, Start, None, FALSE, FALSE)
      /\ m.scar = {}
  BY <1>1, Starts
<1>3. Rest
  BY <1>2 DEF Rest, R, Is
<1>4. Architecture!Init
  BY <1>2, PoweredOn DEF Architecture!Init, Architecture!State, Init
<1> QED BY <1>3, <1>4

(* Between two rounds no delay slot and no jump is pending (delay_slot,     *)
(* skip_jump), and the machine is at exception level exactly in a handler.  *)
THEOREM RestsBetweenRounds == SwitchBack = FALSE => (Spec => []Rest)
<1> SUFFICES ASSUME SwitchBack = FALSE PROVE Spec => []Rest
  OBVIOUS
<1> QED BY InitRuns, StepRuns, PTL DEF Spec

(* Whenever Cause says that the exception was taken in a delay slot, EPC is *)
(* the address of a branch, for every program that keeps to                 *)
(* ProgramAssumption (exception_general, TLB_refill_exception).             *)
THEOREM CauseNamesBranch == SwitchBack = FALSE => (Spec => []BdMeansBranch)
<1>1. Rest => BdMeansBranch
  BY DEF Rest, Fit, BdMeansBranch
<1> QED BY <1>1, RestsBetweenRounds, PTL

(* Both interpreters implement the architecture for every such program: each*)
(* round completes instructions once and in order, and every exception, in  *)
(* a delay slot or not, is precise (delay_slot_op, skip_jump and            *)
(* gen_interrupt).  The exceptions are stated in it: SC, a load of the pure *)
(* interpreter and a write to Count may leave a trace when interrupted, and *)
(* the interrupt of a write to Count skips the handler's first instruction. *)
THEOREM InterpretersArePrecise == SwitchBack = FALSE => (Spec => PreciseExceptions)
<1> SUFFICES ASSUME SwitchBack = FALSE PROVE Spec => PreciseExceptions
  OBVIOUS
<1>1. Rest /\ [Next]_vars =>
         [(Architecture!Next /\ \A a \in scars' : Excused(a)) \/ CountInterrupted]_vars
  BY StepRuns
<1>2. Spec => []Rest
  BY RestsBetweenRounds
<1> QED BY <1>1, <1>2, InitRuns, PTL DEF Spec, PreciseExceptions
=============================================================================
