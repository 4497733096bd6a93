--------------------------- MODULE Devices_proofs ---------------------------
(***************************************************************************)
(* Proofs about the event queue and the devices, for a counter of any      *)
(* width, any delays, any scene and any sequence of accesses.              *)
(***************************************************************************)
EXTENDS Devices, FiniteSetTheorems, SequenceTheorems, WellFoundedInduction, TLAPS

-----------------------------------------------------------------------------
(* The counter                                                             *)

LEMMA Limits ==
    /\ CountLimit \in Nat /\ Half \in Nat /\ Recent \in Nat
    /\ 0 < Recent /\ Recent < Half /\ Half < CountLimit
  BY CountAssumption DEF Half

LEMMA Wraps ==
    /\ \A n \in Nat : Wrap(n) \in Counts
    /\ \A n \in Counts : Wrap(n) = n
    /\ \A n \in Nat : CountLimit <= n /\ n < 2 * CountLimit => Wrap(n) = n - CountLimit
    /\ Counts \subseteq Nat
<1>1. \A n \in Nat : Wrap(n) \in Counts
  BY Limits DEF Wrap, Counts
<1>2. \A n \in Counts : Wrap(n) = n
  BY Limits DEF Wrap, Counts
<1>3. \A n \in Nat : CountLimit <= n /\ n < 2 * CountLimit => Wrap(n) = n - CountLimit
  BY Limits DEF Wrap
<1> QED BY <1>1, <1>2, <1>3, Limits DEF Counts

LEMMA Differences ==
    ASSUME NEW a \in Counts, NEW b \in Counts
    PROVE  Minus(a, b) = IF a >= b THEN a - b ELSE CountLimit + a - b
<1>1. a \in Nat /\ b \in Nat /\ a < CountLimit /\ b < CountLimit /\ CountLimit \in Nat
  BY Limits DEF Counts
<1>2. CASE a >= b
  <2>1. CountLimit + a - b \in Nat /\ CountLimit <= CountLimit + a - b
        /\ CountLimit + a - b < 2 * CountLimit
    BY <1>1, <1>2
  <2> QED BY <1>1, <1>2, <2>1, Wraps DEF Minus
<1>3. CASE ~(a >= b)
  <2>1. CountLimit + a - b \in Counts
    BY <1>1, <1>3 DEF Counts
  <2> QED BY <1>3, <2>1, Wraps DEF Minus
<1> QED BY <1>2, <1>3

\* A set of natural numbers that is not empty has a least element.
LEMMA NatMin ==
    ASSUME NEW T \in SUBSET Nat, T # {}
    PROVE  \E x \in T : \A y \in T : x <= y
<1> DEFINE Less == {ss \in Nat \X Nat : ss[1] < ss[2]}
<1>1. IsWellFoundedOn(Less, Nat)
  BY NatLessThanWellFounded DEF OpToRel
<1>2. \A a, b \in Nat : <<a, b>> \in Less <=> a < b
  OBVIOUS
<1> HIDE DEF Less
<1>3. \E x \in T : \A y \in T : <<y, x>> \notin Less
  BY <1>1, WFMin
<1>4. PICK x \in T : \A y \in T : <<y, x>> \notin Less
  BY <1>3
<1>5. ASSUME NEW y \in T PROVE x <= y
  <2>1. x \in Nat /\ y \in Nat
    OBVIOUS
  <2>2. ~(y < x)
    BY <1>2, <1>4, <2>1
  <2> QED BY <2>1, <2>2
<1> QED BY <1>5

-----------------------------------------------------------------------------
(* Queues                                                                  *)

EventType == [type : EventTypes, count : Counts]
QueueType == Seq(EventType)

\* No event of a type, exactly one, and exactly one at a time.
Absent(q, t) == \A i \in 1 .. Len(q) : q[i].type # t

One(q, t) ==
    \E i \in 1 .. Len(q) :
        q[i].type = t /\ \A j \in 1 .. Len(q) : q[j].type = t => j = i

OneAt(q, t, c) == One(q, t) /\ \A i \in 1 .. Len(q) : q[i].type = t => q[i].count = c

Present(q, t) == \E i \in 1 .. Len(q) : q[i].type = t

\* r is q with e inserted at p, or without what is at p.
Inserted(q, r, p, e) ==
    /\ p \in 1 .. Len(q) + 1
    /\ Len(r) = Len(q) + 1
    /\ r[p] = e
    /\ \A i \in 1 .. Len(q) : r[IF i < p THEN i ELSE i + 1] = q[i]

Removed(q, r, p) ==
    /\ p \in 1 .. Len(q)
    /\ Len(r) = Len(q) - 1
    /\ \A i \in 1 .. Len(r) : r[i] = q[IF i < p THEN i ELSE i + 1]

LEMMA InsertAtInserts ==
    ASSUME NEW q \in QueueType, NEW p \in 1 .. Len(q) + 1, NEW e \in EventType
    PROVE  InsertAt(q, p, e) \in QueueType /\ Inserted(q, InsertAt(q, p, e), p, e)
<1> DEFINE a == SubSeq(q, 1, p - 1)
           b == SubSeq(q, p, Len(q))
<1>0. Len(q) \in Nat /\ p \in Nat /\ p >= 1 /\ p <= Len(q) + 1
  BY DEF QueueType
<1>1. a \in QueueType /\ Len(a) = p - 1 /\ \A i \in 1 .. p - 1 : a[i] = q[i]
  BY <1>0 DEF QueueType
<1>2. b \in QueueType /\ Len(b) = Len(q) - p + 1 /\ \A i \in 1 .. Len(q) - p + 1 : b[i] = q[p + i - 1]
  BY <1>0 DEF QueueType
<1>3. <<e>> \in QueueType /\ Len(<<e>>) = 1 /\ <<e>>[1] = e
  BY DEF QueueType
<1> DEFINE ae == a \o <<e>>
<1> HIDE DEF a, b
<1>4. ae \in QueueType /\ Len(ae) = p /\ ae[p] = e /\ \A i \in 1 .. p - 1 : ae[i] = q[i]
  BY <1>0, <1>1, <1>3 DEF QueueType
<1> HIDE DEF ae
<1> DEFINE r == ae \o b
<1>5. r \in QueueType /\ Len(r) = Len(q) + 1
  BY <1>0, <1>2, <1>4 DEF QueueType
<1>6. \A i \in 1 .. p : r[i] = ae[i]
  BY <1>0, <1>2, <1>4 DEF QueueType
<1>7. \A i \in 1 .. Len(b) : r[p + i] = b[i]
  BY <1>0, <1>2, <1>4 DEF QueueType
<1>9. r = InsertAt(q, p, e)
  BY DEF r, ae, a, b, InsertAt
<1> HIDE DEF r
<1>8. ASSUME NEW i \in 1 .. Len(q) PROVE r[IF i < p THEN i ELSE i + 1] = q[i]
  <2>1. CASE i < p
    BY <1>0, <1>4, <1>6, <2>1
  <2>2. CASE ~(i < p)
    <3>1. i - p + 1 \in 1 .. Len(b) /\ p + (i - p + 1) = i + 1
      BY <1>0, <1>2, <2>2
    <3>2. r[i + 1] = b[i - p + 1]
      BY <1>7, <3>1
    <3>3. b[i - p + 1] = q[i]
      <4>1. p + (i - p + 1) - 1 = i /\ i - p + 1 \in 1 .. Len(q) - p + 1
        BY <1>0, <1>2, <3>1
      <4> QED BY <1>2, <4>1
    <3> QED BY <2>2, <3>2, <3>3
  <2> QED BY <2>1, <2>2
<1>10. r[p] = e
  BY <1>0, <1>4, <1>6
<1> QED BY <1>0, <1>5, <1>8, <1>9, <1>10 DEF Inserted

LEMMA RemoveAtRemoves ==
    ASSUME NEW q \in QueueType, NEW p \in 1 .. Len(q)
    PROVE  RemoveAt(q, p) \in QueueType /\ Removed(q, RemoveAt(q, p), p)
<1> DEFINE a == SubSeq(q, 1, p - 1)
           b == SubSeq(q, p + 1, Len(q))
           r == a \o b
<1>0. Len(q) \in Nat /\ p \in Nat /\ p >= 1 /\ p <= Len(q)
  BY DEF QueueType
<1>1. a \in QueueType /\ Len(a) = p - 1 /\ \A i \in 1 .. p - 1 : a[i] = q[i]
  BY <1>0 DEF QueueType
<1>2. b \in QueueType /\ Len(b) = Len(q) - p /\ \A i \in 1 .. Len(q) - p : b[i] = q[p + i]
  BY <1>0 DEF QueueType
<1>9. r = RemoveAt(q, p)
  BY DEF RemoveAt
<1> HIDE DEF a, b
<1>4. a \in Seq(EventType) /\ b \in Seq(EventType)
  BY <1>1, <1>2 DEF QueueType
<1>5. r \in QueueType /\ Len(r) = Len(q) - 1
  <2>1. r \in Seq(EventType) /\ Len(r) = Len(a) + Len(b)
    BY <1>4
  <2> QED BY <2>1, <1>0, <1>1, <1>2 DEF QueueType
<1>6. \A i \in 1 .. p - 1 : r[i] = a[i]
  BY <1>0, <1>1, <1>4
<1>7. \A i \in 1 .. Len(b) : r[p - 1 + i] = b[i]
  BY <1>0, <1>1, <1>4
<1> HIDE DEF r
<1>8. ASSUME NEW i \in 1 .. Len(r) PROVE r[i] = q[IF i < p THEN i ELSE i + 1]
  <2>0. i \in Nat /\ i >= 1 /\ i <= Len(q) - 1
    BY <1>0, <1>5
  <2>1. CASE i < p
    BY <1>0, <1>1, <1>6, <2>0, <2>1
  <2>2. CASE ~(i < p)
    <3>1. i - p + 1 \in 1 .. Len(b) /\ p - 1 + (i - p + 1) = i
      BY <1>0, <1>2, <2>0, <2>2
    <3>2. r[i] = b[i - p + 1]
      BY <1>7, <3>1
    <3>3. b[i - p + 1] = q[i + 1]
      <4>1. p + (i - p + 1) = i + 1 /\ i - p + 1 \in 1 .. Len(q) - p
        BY <1>0, <1>2, <3>1, <2>0
      <4> QED BY <1>2, <4>1
    <3> QED BY <2>2, <3>2, <3>3
  <2> QED BY <2>1, <2>2
<1> QED BY <1>0, <1>5, <1>8, <1>9 DEF Removed

LEMMA TailRemoves ==
    ASSUME NEW q \in QueueType, q # << >>
    PROVE  Tail(q) \in QueueType /\ Removed(q, Tail(q), 1) /\ Head(q) = q[1] /\ Len(q) >= 1
<1>1. Tail(q) \in QueueType /\ Len(Tail(q)) = Len(q) - 1 /\ Head(q) = q[1] /\ Len(q) \in Nat /\ Len(q) >= 1
  BY DEF QueueType
<1>2. \A i \in 1 .. Len(q) - 1 : Tail(q)[i] = q[i + 1]
  BY DEF QueueType
<1> HIDE DEF QueueType
<1> QED BY <1>1, <1>2 DEF Removed

\* Where the elements of the old queue are in the new one.
LEMMA InsertedPlaces ==
    ASSUME NEW q \in QueueType, NEW r \in QueueType, NEW p, NEW e, Inserted(q, r, p, e)
    PROVE  /\ \A i \in 1 .. Len(q) : \E j \in 1 .. Len(r) : j # p /\ r[j] = q[i]
                                                        /\ j = IF i < p THEN i ELSE i + 1
           /\ \A j \in 1 .. Len(r) : j # p =>
                \E i \in 1 .. Len(q) : r[j] = q[i] /\ j = IF i < p THEN i ELSE i + 1
<1>0. /\ p \in 1 .. Len(q) + 1 /\ Len(r) = Len(q) + 1
      /\ \A i \in 1 .. Len(q) : r[IF i < p THEN i ELSE i + 1] = q[i]
  BY DEF Inserted
<1>n. Len(q) \in Nat
  BY DEF QueueType
<1>1. ASSUME NEW i \in 1 .. Len(q)
      PROVE  \E j \in 1 .. Len(r) : j # p /\ r[j] = q[i] /\ j = IF i < p THEN i ELSE i + 1
  <2> DEFINE j == IF i < p THEN i ELSE i + 1
  <2>1. j \in 1 .. Len(r) /\ j # p
    BY <1>0, <1>n
  <2>2. r[j] = q[i]
    BY <1>0
  <2> QED BY <2>1, <2>2
<1>2. ASSUME NEW j \in 1 .. Len(r), j # p
      PROVE  \E i \in 1 .. Len(q) : r[j] = q[i] /\ j = IF i < p THEN i ELSE i + 1
  <2> DEFINE i == IF j < p THEN j ELSE j - 1
  <2>1. i \in 1 .. Len(q) /\ j = IF i < p THEN i ELSE i + 1
    BY <1>0, <1>n, <1>2
  <2> HIDE DEF i
  <2>2. r[IF i < p THEN i ELSE i + 1] = q[i]
    BY <1>0, <2>1
  <2> QED BY <2>1, <2>2
<1> QED BY <1>1, <1>2

LEMMA InsertKeeps ==
    ASSUME NEW q \in QueueType, NEW r \in QueueType, NEW p, NEW e \in EventType,
           Inserted(q, r, p, e), NEW t
    PROVE  /\ e.type # t => /\ Absent(q, t) => Absent(r, t)
                            /\ One(q, t) => One(r, t)
                            /\ \A c : OneAt(q, t, c) => OneAt(r, t, c)
           /\ e.type = t /\ Absent(q, t) => OneAt(r, t, e.count)
           /\ e.type = t \/ Present(q, t) => Present(r, t)
<1>0. p \in 1 .. Len(r) /\ r[p] = e /\ Len(r) = Len(q) + 1 /\ Len(q) \in Nat /\ p \in Nat
  <2>1. Len(q) \in Nat
    BY DEF QueueType
  <2> QED BY <2>1 DEF Inserted
<1>1. /\ \A i \in 1 .. Len(q) : \E j \in 1 .. Len(r) : j # p /\ r[j] = q[i]
                                                       /\ j = IF i < p THEN i ELSE i + 1
      /\ \A j \in 1 .. Len(r) : j # p =>
           \E i \in 1 .. Len(q) : r[j] = q[i] /\ j = IF i < p THEN i ELSE i + 1
  BY InsertedPlaces
<1>2. ASSUME e.type # t, Absent(q, t) PROVE Absent(r, t)
  BY <1>0, <1>1, <1>2 DEF Absent
<1>3. ASSUME e.type # t, One(q, t) PROVE One(r, t)
  <2>1. PICK i \in 1 .. Len(q) : q[i].type = t /\ \A j \in 1 .. Len(q) : q[j].type = t => j = i
    BY <1>3 DEF One
  <2>2. PICK k \in 1 .. Len(r) : r[k] = q[i] /\ k = IF i < p THEN i ELSE i + 1
    BY <1>1
  <2>3. ASSUME NEW j \in 1 .. Len(r), r[j].type = t PROVE j = k
    <3>1. j # p
      BY <1>0, <1>3, <2>3
    <3>2. PICK h \in 1 .. Len(q) : r[j] = q[h] /\ j = IF h < p THEN h ELSE h + 1
      BY <1>1, <3>1
    <3>3. h = i
      BY <2>1, <2>3, <3>2
    <3> QED BY <2>2, <3>2, <3>3
  <2> QED BY <2>1, <2>2, <2>3 DEF One
<1>4. ASSUME e.type # t, NEW c, OneAt(q, t, c) PROVE OneAt(r, t, c)
  <2>1. One(r, t)
    BY <1>3, <1>4 DEF OneAt
  <2>2. ASSUME NEW j \in 1 .. Len(r), r[j].type = t PROVE r[j].count = c
    <3>1. PICK h \in 1 .. Len(q) : r[j] = q[h]
      BY <1>0, <1>1, <1>4, <2>2
    <3> QED BY <1>4, <2>2, <3>1 DEF OneAt
  <2> QED BY <2>1, <2>2 DEF OneAt
<1>5. ASSUME e.type = t, Absent(q, t) PROVE OneAt(r, t, e.count)
  <2>1. ASSUME NEW j \in 1 .. Len(r), r[j].type = t PROVE j = p
    BY <1>1, <1>5, <2>1 DEF Absent
  <2> QED BY <1>0, <1>5, <2>1 DEF OneAt, One
<1>6. ASSUME e.type = t \/ Present(q, t) PROVE Present(r, t)
  BY <1>0, <1>1, <1>6 DEF Present
<1> QED BY <1>2, <1>3, <1>4, <1>5, <1>6

LEMMA RemoveKeeps ==
    ASSUME NEW q \in QueueType, NEW r \in QueueType, NEW p, Removed(q, r, p), NEW t
    PROVE  /\ Absent(q, t) => Absent(r, t)
           /\ q[p].type # t => /\ One(q, t) => One(r, t)
                               /\ \A c : OneAt(q, t, c) => OneAt(r, t, c)
                               /\ Present(q, t) => Present(r, t)
           /\ q[p].type = t /\ One(q, t) => Absent(r, t)
<1>0. p \in 1 .. Len(q) /\ Len(r) = Len(q) - 1 /\ Len(q) \in Nat
  BY DEF Removed, QueueType
<1>1. ASSUME NEW j \in 1 .. Len(r)
      PROVE  \E i \in 1 .. Len(q) : i # p /\ r[j] = q[i] /\ i = IF j < p THEN j ELSE j + 1
  <2> DEFINE i == IF j < p THEN j ELSE j + 1
  <2>1. i \in 1 .. Len(q) /\ i # p
    BY <1>0
  <2>2. r[j] = q[i]
    BY DEF Removed
  <2> QED BY <2>1, <2>2
<1>2. ASSUME NEW i \in 1 .. Len(q), i # p
      PROVE  \E j \in 1 .. Len(r) : r[j] = q[i] /\ i = IF j < p THEN j ELSE j + 1
  <2> DEFINE j == IF i < p THEN i ELSE i - 1
  <2>1. j \in 1 .. Len(r) /\ i = IF j < p THEN j ELSE j + 1
    BY <1>0, <1>2
  <2> HIDE DEF j
  <2>2. r[j] = q[IF j < p THEN j ELSE j + 1]
    BY <2>1 DEF Removed
  <2> QED BY <2>1, <2>2
<1>3. ASSUME Absent(q, t) PROVE Absent(r, t)
  BY <1>1, <1>3 DEF Absent
<1>4. ASSUME q[p].type # t, One(q, t) PROVE One(r, t)
  <2>1. PICK i \in 1 .. Len(q) : q[i].type = t /\ \A j \in 1 .. Len(q) : q[j].type = t => j = i
    BY <1>4 DEF One
  <2>2. PICK k \in 1 .. Len(r) : r[k] = q[i] /\ i = IF k < p THEN k ELSE k + 1
    BY <1>2, <1>4, <2>1
  <2>3. ASSUME NEW j \in 1 .. Len(r), r[j].type = t PROVE j = k
    <3>1. PICK h \in 1 .. Len(q) : r[j] = q[h] /\ h = IF j < p THEN j ELSE j + 1
      BY <1>1
    <3>2. h = i
      BY <2>1, <2>3, <3>1
    <3> QED BY <1>0, <2>2, <3>1, <3>2
  <2> QED BY <2>1, <2>2, <2>3 DEF One
<1>5. ASSUME q[p].type # t, NEW c, OneAt(q, t, c) PROVE OneAt(r, t, c)
  <2>1. One(r, t)
    BY <1>4, <1>5 DEF OneAt
  <2>2. ASSUME NEW j \in 1 .. Len(r), r[j].type = t PROVE r[j].count = c
    BY <1>1, <1>5, <2>2 DEF OneAt
  <2> QED BY <2>1, <2>2 DEF OneAt
<1>6. ASSUME q[p].type # t, Present(q, t) PROVE Present(r, t)
  BY <1>2, <1>6 DEF Present
<1>7. ASSUME q[p].type = t, One(q, t) PROVE Absent(r, t)
  <2>1. PICK i \in 1 .. Len(q) : q[i].type = t /\ \A j \in 1 .. Len(q) : q[j].type = t => j = i
    BY <1>7 DEF One
  <2>2. i = p
    BY <1>0, <1>7, <2>1
  <2> QED BY <1>1, <2>1, <2>2 DEF Absent
<1> QED BY <1>3, <1>4, <1>5, <1>6, <1>7

-----------------------------------------------------------------------------
(* Machines                                                                *)

MachineType ==
    [Count : Counts, Compare : Counts, q : QueueType, next_interrupt : Counts,
     SPECIAL_done : BOOLEAN, next_vi : Counts, v_sync : BOOLEAN,
     mi_intr_reg : SUBSET Sources, mi_intr_mask_reg : SUBSET Sources,
     Cause : SUBSET {RCP, TIMER}, IM : SUBSET {RCP, TIMER}, IE : BOOLEAN, EXL : BOOLEAN,
     skip_jump : BOOLEAN, delay_slot : BOOLEAN,
     pi_busy : BOOLEAN, si_status : BOOLEAN,
     ai_busy : BOOLEAN, ai_full : BOOLEAN, ai_delay : Nat, ai_next : Nat,
     sp_halt : BOOLEAN, sp_broke : BOOLEAN, sp_intr_break : BOOLEAN]

\* What the functions of the queue leave alone, and the part of it that matters here.
SameDevices(k, l) ==
    /\ l.ai_busy = k.ai_busy /\ l.ai_full = k.ai_full /\ l.pi_busy = k.pi_busy
    /\ l.ai_next = k.ai_next /\ l.next_vi = k.next_vi /\ l.v_sync = k.v_sync
    /\ l.sp_intr_break = k.sp_intr_break /\ l.Compare = k.Compare

SameProcessor(k, l) ==
    /\ l.mi_intr_reg = k.mi_intr_reg /\ l.mi_intr_mask_reg = k.mi_intr_mask_reg
    /\ l.IM = k.IM /\ l.IE = k.IE /\ l.EXL = k.EXL /\ l.Cause = k.Cause
    /\ l.skip_jump = k.skip_jump /\ l.delay_slot = k.delay_slot

Same(k, l) == SameDevices(k, l) /\ SameProcessor(k, l)

\* The place where an event is inserted.
LEMMA PlaceType ==
    ASSUME NEW k \in MachineType, NEW t \in EventTypes, NEW c \in Counts
    PROVE  /\ place(k, t, c) \in 1 .. Len(k.q) + 1
           /\ place(k, t, c) = 1 =>
                \/ Len(k.q) = 0
                \/ t # "SPECIAL_INT" /\ before_event(k, c, k.q[1])
<1>1. k.q \in QueueType /\ Len(k.q) \in Nat /\ DOMAIN k.q = 1 .. Len(k.q)
  BY DEF MachineType, QueueType
<1>2. CASE t = "SPECIAL_INT" \/ \A i \in DOMAIN k.q : ~before_event(k, c, k.q[i])
  BY <1>1, <1>2 DEF place
<1>3. CASE ~(t = "SPECIAL_INT" \/ \A i \in DOMAIN k.q : ~before_event(k, c, k.q[i]))
  <2> DEFINE B == {i \in 1 .. Len(k.q) : before_event(k, c, k.q[i])}
             P(i) == before_event(k, c, k.q[i]) /\ \A j \in 1 .. i - 1 : ~before_event(k, c, k.q[j])
  <2>1. B # {} /\ B \subseteq Nat
    BY <1>1, <1>3
  <2>2. PICK i \in B : \A j \in B : i <= j
    BY <2>1, NatMin
  <2>3. i \in DOMAIN k.q /\ P(i)
    BY <1>1, <2>2
  <2> HIDE DEF P
  <2>4. (CHOOSE x \in DOMAIN k.q : P(x)) \in DOMAIN k.q /\ P(CHOOSE x \in DOMAIN k.q : P(x))
    BY <2>3
  <2>5. place(k, t, c) = CHOOSE x \in DOMAIN k.q : P(x)
    BY <1>3 DEF place, P
  <2>6. place(k, t, c) \in DOMAIN k.q /\ P(place(k, t, c))
    BY <2>4, <2>5
  <2> QED BY <1>1, <1>3, <2>6 DEF P
<1> QED BY <1>2, <1>3

LEMMA AddEffect ==
    ASSUME NEW k \in MachineType, NEW t \in EventTypes, NEW c \in Counts
    PROVE  LET r == add_interrupt_event_count(k, t, c)
           IN  /\ r \in MachineType /\ r.Count = k.Count /\ Same(k, r)
               /\ \E p \in 1 .. Len(k.q) + 1 :
                    /\ Inserted(k.q, r.q, p, Event(t, c))
                    /\ p # 1 => r.next_interrupt = k.next_interrupt
                    /\ p = 1 => \/ Len(k.q) = 0
                                \/ t # "SPECIAL_INT" /\ before_event(r, c, k.q[1])
<1> DEFINE l == [k EXCEPT !.SPECIAL_done = @ /\ k.Count <= Half]
           p == place(l, t, c)
           r == [l EXCEPT !.q = InsertAt(@, p, Event(t, c)),
                          !.next_interrupt = IF p = 1 THEN c ELSE @]
<1>1. l \in MachineType /\ l.q = k.q /\ l.Count = k.Count /\ l.next_interrupt = k.next_interrupt
      /\ Same(k, l)
  BY DEF MachineType, Same, SameDevices, SameProcessor
<1> HIDE DEF l
<1>2. /\ p \in 1 .. Len(k.q) + 1
      /\ p = 1 => Len(k.q) = 0 \/ (t # "SPECIAL_INT" /\ before_event(l, c, k.q[1]))
  BY <1>1, PlaceType
<1> HIDE DEF p
<1>3. Event(t, c) \in EventType /\ l.q \in QueueType /\ c \in Counts
  BY <1>1 DEF Event, EventType, MachineType
<1>4. InsertAt(l.q, p, Event(t, c)) \in QueueType
      /\ Inserted(k.q, InsertAt(l.q, p, Event(t, c)), p, Event(t, c))
  BY <1>1, <1>2, <1>3, InsertAtInserts
<1>5. /\ r \in MachineType /\ r.q = InsertAt(l.q, p, Event(t, c))
      /\ r.next_interrupt = (IF p = 1 THEN c ELSE l.next_interrupt)
      /\ r.Count = l.Count /\ Same(l, r) /\ r.SPECIAL_done = l.SPECIAL_done
  BY <1>1, <1>3, <1>4 DEF MachineType, Same, SameDevices, SameProcessor
<1>6. r = add_interrupt_event_count(k, t, c)
  BY DEF r, l, p, add_interrupt_event_count
<1> HIDE DEF r
<1>7. Same(k, r)
  BY <1>1, <1>5 DEF Same, SameDevices, SameProcessor
<1>8. before_event(l, c, k.q[1]) => before_event(r, c, k.q[1])
  BY <1>5 DEF before_event
<1>9. \E x \in 1 .. Len(k.q) + 1 :
         /\ Inserted(k.q, r.q, x, Event(t, c))
         /\ x # 1 => r.next_interrupt = k.next_interrupt
         /\ x = 1 => \/ Len(k.q) = 0
                     \/ t # "SPECIAL_INT" /\ before_event(r, c, k.q[1])
  <2>1. Inserted(k.q, r.q, p, Event(t, c))
    BY <1>4, <1>5
  <2>2. p # 1 => r.next_interrupt = k.next_interrupt
    BY <1>1, <1>5
  <2>3. p = 1 => Len(k.q) = 0 \/ (t # "SPECIAL_INT" /\ before_event(r, c, k.q[1]))
    BY <1>2, <1>8
  <2>4. p \in 1 .. Len(k.q) + 1
    BY <1>2
  <2> WITNESS p \in 1 .. Len(k.q) + 1
  <2> QED BY <2>1, <2>2, <2>3
<1>10. r \in MachineType /\ r.Count = k.Count
  BY <1>1, <1>5
<1> QED BY <1>6, <1>7, <1>9, <1>10

LEMMA DueType ==
    ASSUME NEW k \in MachineType, NEW e \in EventType
    PROVE  due_of(k, e) \in Counts
  BY Limits DEF due_of, EventType, Counts

LEMMA RemoveEffect ==
    ASSUME NEW k \in MachineType, k.q # << >>
    PROVE  LET r == remove_interrupt_event(k)
           IN  /\ r \in MachineType /\ r.Count = k.Count /\ Same(k, r)
               /\ Removed(k.q, r.q, 1)
<1> DEFINE d == k.SPECIAL_done \/ Head(k.q).type = "SPECIAL_INT"
           n == IF Len(k.q) > 1 THEN due_of(k, k.q[2]) ELSE 0
           r == [k EXCEPT !.q = Tail(k.q), !.SPECIAL_done = d, !.next_interrupt = n]
<1>1. k.q \in QueueType
  BY DEF MachineType
<1>2. Tail(k.q) \in QueueType /\ Removed(k.q, Tail(k.q), 1)
  BY <1>1, TailRemoves
<1>3. n \in Counts
  <2>1. Len(k.q) > 1 => k.q[2] \in EventType
    BY <1>1 DEF QueueType
  <2> QED BY <2>1, DueType, Limits DEF Counts
<1>4. d \in BOOLEAN
  OBVIOUS
<1>5. remove_interrupt_event(k) = r
  BY DEF remove_interrupt_event, MachineType
<1> HIDE DEF d, n
<1>6. r \in MachineType /\ r.q = Tail(k.q) /\ r.Count = k.Count /\ Same(k, r)
  BY <1>2, <1>3, <1>4 DEF MachineType, Same, SameDevices, SameProcessor
<1> HIDE DEF r
<1> QED BY <1>2, <1>5, <1>6

\* Queued tells whether there is an event of a type.
LEMMA QueuedMeans ==
    ASSUME NEW k \in MachineType, NEW t
    PROVE  /\ Queued(k, t) <=> Present(k.q, t)
           /\ ~Queued(k, t) <=> Absent(k.q, t)
           /\ Queued(k, t) => first(k, t) \in 1 .. Len(k.q) /\ k.q[first(k, t)].type = t
<1>1. k.q \in QueueType /\ DOMAIN k.q = 1 .. Len(k.q) /\ Len(k.q) \in Nat
  BY DEF MachineType, QueueType
<1>2. places(k, t) = {i \in 1 .. Len(k.q) : k.q[i].type = t}
  BY <1>1 DEF places
<1>3. ASSUME Queued(k, t) PROVE first(k, t) \in places(k, t)
  <2>1. places(k, t) \in SUBSET Nat /\ places(k, t) # {}
    BY <1>1, <1>2, <1>3 DEF Queued
  <2>2. \E i \in places(k, t) : \A j \in places(k, t) : i <= j
    BY <2>1, NatMin
  <2> QED BY <2>2 DEF first
<1> QED BY <1>2, <1>3 DEF Queued, Present, Absent

LEMMA GetEventMeans ==
    ASSUME NEW k \in MachineType, NEW t
    PROVE  /\ get_event(k, t) \in Counts
           /\ \A c : OneAt(k.q, t, c) => get_event(k, t) = c
           /\ Absent(k.q, t) => get_event(k, t) = 0
<1>1. k.q \in QueueType /\ Len(k.q) \in Nat /\ 0 \in Counts
  BY Limits DEF MachineType, QueueType, Counts
<1>2. Queued(k, t) => k.q[first(k, t)].count \in Counts
  <2>1. \A i \in 1 .. Len(k.q) : k.q[i] \in EventType
    BY <1>1 DEF QueueType
  <2> QED BY <2>1, QueuedMeans DEF EventType
<1>3. ASSUME NEW c, OneAt(k.q, t, c) PROVE get_event(k, t) = c
  <2>1. Present(k.q, t)
    BY <1>3 DEF OneAt, One, Present
  <2> QED BY <1>3, <2>1, QueuedMeans DEF OneAt, get_event
<1> QED BY <1>1, <1>2, <1>3, QueuedMeans DEF get_event

LEMMA RemoveEventEffect ==
    ASSUME NEW k \in MachineType, NEW t
    PROVE  LET r == remove_event(k, t)
           IN  /\ r \in MachineType /\ r.Count = k.Count /\ Same(k, r)
               /\ r.next_interrupt = k.next_interrupt
               /\ \/ Absent(k.q, t) /\ r.q = k.q
                  \/ \E p \in 1 .. Len(k.q) : k.q[p].type = t /\ Removed(k.q, r.q, p)
<1>1. CASE ~Queued(k, t)
  BY <1>1, QueuedMeans DEF remove_event, Same, SameDevices, SameProcessor
<1>2. CASE Queued(k, t)
  <2> DEFINE p == first(k, t)
             x == RemoveAt(k.q, p)
             r == [k EXCEPT !.q = x]
  <2>1. p \in 1 .. Len(k.q) /\ k.q[p].type = t /\ k.q \in QueueType
    BY <1>2, QueuedMeans DEF MachineType
  <2>2. x \in QueueType /\ Removed(k.q, x, p)
    BY <2>1, RemoveAtRemoves
  <2>3. remove_event(k, t) = r
    BY <1>2 DEF remove_event
  <2> HIDE DEF p, x
  <2>4. /\ r \in MachineType /\ r.q = x /\ r.Count = k.Count /\ Same(k, r)
        /\ r.next_interrupt = k.next_interrupt
    BY <2>2 DEF MachineType, Same, SameDevices, SameProcessor
  <2> HIDE DEF r
  <2> QED BY <2>1, <2>2, <2>3, <2>4
<1> QED BY <1>1, <1>2

\* check_interrupt queues a CHECK_INT in front when an interrupt is to be taken.
Pending(k) == Enabled(k) /\ RCP \in k.IM /\ rcp_pending(k)

SameButCause(k, l) ==
    /\ l.mi_intr_reg = k.mi_intr_reg /\ l.mi_intr_mask_reg = k.mi_intr_mask_reg
    /\ l.IM = k.IM /\ l.IE = k.IE /\ l.EXL = k.EXL
    /\ l.skip_jump = k.skip_jump /\ l.delay_slot = k.delay_slot

LEMMA CheckEffect ==
    ASSUME NEW k \in MachineType
    PROVE  LET r == check_interrupt(k)
           IN  /\ r \in MachineType /\ r.Count = k.Count /\ SameDevices(k, r)
               /\ SameButCause(k, r)
               /\ \/ r.q = k.q /\ r.next_interrupt = k.next_interrupt /\ ~Pending(k)
                  \/ /\ Inserted(k.q, r.q, 1, Event("CHECK_INT", k.Count))
                     /\ r.next_interrupt = k.Count
<1> DEFINE x == IF rcp_pending(k) THEN k.Cause \cup {RCP} ELSE k.Cause \ {RCP}
           c == [k EXCEPT !.Cause = x]
<1>1. x \in SUBSET {RCP, TIMER} /\ (rcp_pending(k) => RCP \in x)
  BY DEF MachineType
<1>2. check_interrupt(k) = IF Enabled(c) /\ c.Cause \cap c.IM # {} THEN push_check(c) ELSE c
  BY DEF check_interrupt, MachineType
<1> HIDE DEF x
<1>3. /\ c \in MachineType /\ c.Count = k.Count /\ c.q = k.q /\ c.Cause = x
      /\ c.next_interrupt = k.next_interrupt
      /\ SameDevices(k, c) /\ SameButCause(k, c)
  BY <1>1 DEF MachineType, SameDevices, SameButCause
<1> HIDE DEF c
<1>4. CASE ~(Enabled(c) /\ c.Cause \cap c.IM # {})
  <2>1. check_interrupt(k) = c
    BY <1>2, <1>4
  <2>2. ~Pending(k)
    BY <1>1, <1>3, <1>4 DEF Pending, Enabled, SameButCause
  <2> QED BY <1>3, <2>1, <2>2
<1>5. CASE Enabled(c) /\ c.Cause \cap c.IM # {}
  <2> DEFINE e == Event("CHECK_INT", c.Count)
             y == <<e>> \o c.q
             r == [c EXCEPT !.q = y, !.next_interrupt = c.Count]
  <2>1. e \in EventType /\ c.q \in QueueType /\ c.Count \in Counts
    BY <1>3 DEF Event, EventType, EventTypes, MachineType
  <2>2. check_interrupt(k) = r
    BY <1>2, <1>5 DEF push_check
  <2> HIDE DEF e
  <2>3. y \in QueueType /\ Len(y) = Len(c.q) + 1 /\ y[1] = e /\ Len(c.q) \in Nat
    BY <2>1 DEF QueueType
  <2>4. \A i \in 1 .. Len(c.q) : y[i + 1] = c.q[i]
    BY <2>1 DEF QueueType
  <2> HIDE DEF y
  <2>5. Inserted(c.q, y, 1, e)
    BY <2>3, <2>4 DEF Inserted
  <2>6. /\ r \in MachineType /\ r.q = y /\ r.Count = c.Count /\ r.next_interrupt = c.Count
        /\ SameDevices(c, r) /\ SameButCause(c, r)
    BY <1>3, <2>1, <2>3 DEF MachineType, SameDevices, SameButCause
  <2> HIDE DEF r
  <2>7. SameDevices(k, r) /\ SameButCause(k, r)
    BY <1>3, <2>6 DEF SameDevices, SameButCause
  <2>8. Inserted(k.q, r.q, 1, Event("CHECK_INT", k.Count))
    BY <1>3, <2>5, <2>6 DEF e
  <2> QED BY <1>3, <2>2, <2>6, <2>7, <2>8
<1> QED BY <1>4, <1>5

-----------------------------------------------------------------------------
(* What each type of event is counted by                                   *)

\* r has the events of q, but perhaps for those of type t.
KeepsBut(q, r, t) ==
    \A u \in EventTypes \ {t} :
        /\ Absent(q, u) => Absent(r, u)
        /\ One(q, u) => One(r, u)
        /\ \A c : OneAt(q, u, c) => OneAt(r, u, c)
        /\ Present(q, u) => Present(r, u)

LEMMA AddKeeps ==
    ASSUME NEW k \in MachineType, NEW t \in EventTypes, NEW c \in Counts
    PROVE  LET r == add_interrupt_event_count(k, t, c)
           IN  /\ r \in MachineType /\ r.Count = k.Count /\ Same(k, r)
               /\ KeepsBut(k.q, r.q, t)
               /\ Absent(k.q, t) => OneAt(r.q, t, c)
               /\ Present(r.q, t)
<1> DEFINE r == add_interrupt_event_count(k, t, c)
           e == Event(t, c)
<1>1. r \in MachineType /\ r.Count = k.Count /\ Same(k, r)
  BY AddEffect
<1>2. PICK p : Inserted(k.q, r.q, p, e)
  BY AddEffect
<1>3. e \in EventType /\ e.type = t /\ e.count = c
  BY DEF Event, EventType
<1> HIDE DEF r, e
<1>4. k.q \in QueueType /\ r.q \in QueueType
  BY <1>1 DEF MachineType
<1>5. KeepsBut(k.q, r.q, t)
  BY <1>2, <1>3, <1>4, InsertKeeps DEF KeepsBut
<1>6. Absent(k.q, t) => OneAt(r.q, t, c)
  BY <1>2, <1>3, <1>4, InsertKeeps
<1>7. Present(r.q, t)
  BY <1>2, <1>3, <1>4, InsertKeeps
<1> QED BY <1>1, <1>5, <1>6, <1>7 DEF r

LEMMA RemovalKeeps ==
    ASSUME NEW k \in MachineType, k.q # << >>
    PROVE  LET r == remove_interrupt_event(k)
               t == Head(k.q).type
           IN  /\ r \in MachineType /\ r.Count = k.Count /\ Same(k, r)
               /\ t \in EventTypes /\ t = k.q[1].type
               /\ KeepsBut(k.q, r.q, t)
               /\ One(k.q, t) => Absent(r.q, t)
<1> DEFINE r == remove_interrupt_event(k)
           t == Head(k.q).type
<1>1. r \in MachineType /\ r.Count = k.Count /\ Same(k, r) /\ Removed(k.q, r.q, 1)
  BY RemoveEffect
<1> HIDE DEF r
<1>2. k.q \in QueueType /\ r.q \in QueueType /\ Head(k.q) = k.q[1]
  BY <1>1, TailRemoves DEF MachineType
<1>3. t \in EventTypes
  <2>1. Len(k.q) >= 1
    BY <1>2, TailRemoves
  <2>2. k.q[1] \in EventType
    BY <1>2, <2>1 DEF QueueType
  <2> QED BY <1>2, <2>2 DEF EventType
<1>4. KeepsBut(k.q, r.q, t) /\ (One(k.q, t) => Absent(r.q, t))
  BY <1>1, <1>2, RemoveKeeps DEF KeepsBut
<1> QED BY <1>1, <1>2, <1>3, <1>4 DEF r

LEMMA RemoveEventKeeps ==
    ASSUME NEW k \in MachineType, NEW t
    PROVE  LET r == remove_event(k, t)
           IN  /\ r \in MachineType /\ r.Count = k.Count /\ Same(k, r)
               /\ r.next_interrupt = k.next_interrupt
               /\ KeepsBut(k.q, r.q, t)
               /\ One(k.q, t) => Absent(r.q, t)
<1> DEFINE r == remove_event(k, t)
<1>1. /\ r \in MachineType /\ r.Count = k.Count /\ Same(k, r)
      /\ r.next_interrupt = k.next_interrupt
      /\ \/ Absent(k.q, t) /\ r.q = k.q
         \/ \E p \in 1 .. Len(k.q) : k.q[p].type = t /\ Removed(k.q, r.q, p)
  BY RemoveEventEffect
<1> HIDE DEF r
<1>2. k.q \in QueueType /\ r.q \in QueueType
  BY <1>1 DEF MachineType
<1>3. KeepsBut(k.q, r.q, t) /\ (One(k.q, t) => Absent(r.q, t))
  <2>1. CASE Absent(k.q, t) /\ r.q = k.q
    BY <2>1 DEF KeepsBut
  <2>2. CASE \E p \in 1 .. Len(k.q) : k.q[p].type = t /\ Removed(k.q, r.q, p)
    BY <1>2, <2>2, RemoveKeeps DEF KeepsBut
  <2> QED BY <1>1, <2>1, <2>2
<1> QED BY <1>1, <1>3 DEF r

\* The events that the devices count on.
QueueOK(k, s) ==
    /\ One(k.q, "SPECIAL_INT")
    /\ One(k.q, "VI_INT") /\ ("Count" \in s \/ OneAt(k.q, "VI_INT", k.next_vi))
    /\ IF k.ai_busy THEN One(k.q, "AI_INT") ELSE Absent(k.q, "AI_INT") /\ ~k.ai_full
    /\ IF k.pi_busy THEN One(k.q, "PI_INT") ELSE Absent(k.q, "PI_INT")
    /\ Absent(k.q, "SI_INT") \/ One(k.q, "SI_INT")

\* A change of the queue that keeps to other types, or only to a type that no
\* register counts, and no change of the devices.
Uncounted == {"COMPARE_INT", "CHECK_INT", "SP_INT", "DP_INT"}

LEMMA UncountedKept ==
    ASSUME NEW k, NEW r, NEW s, NEW t \in Uncounted, QueueOK(k, s), SameDevices(k, r),
           KeepsBut(k.q, r.q, t)
    PROVE  QueueOK(r, s)
<1>1. \A u \in {"SPECIAL_INT", "VI_INT", "AI_INT", "PI_INT", "SI_INT"} : u \in EventTypes \ {t}
  BY DEF Uncounted, EventTypes
<1> QED BY <1>1 DEF QueueOK, SameDevices, KeepsBut

LEMMA SameQueueKept ==
    ASSUME NEW k, NEW r, NEW s, QueueOK(k, s), SameDevices(k, r), r.q = k.q
    PROVE  QueueOK(r, s)
  BY DEF QueueOK, SameDevices

LEMMA NotEmpty ==
    ASSUME NEW k \in MachineType, NEW s, QueueOK(k, s)
    PROVE  k.q # << >> /\ Len(k.q) >= 1 /\ Head(k.q) = k.q[1] /\ k.q[1] \in EventType
<1>1. k.q \in QueueType
  BY DEF MachineType
<1>2. PICK i \in 1 .. Len(k.q) : TRUE
  BY DEF QueueOK, One
<1>3. Len(k.q) >= 1 /\ k.q # << >>
  BY <1>1, <1>2 DEF QueueType
<1> QED BY <1>1, <1>3, TailRemoves DEF QueueType

-----------------------------------------------------------------------------
(* Events                                                                  *)

\* r is k after an event: the queue is in order, and what decides whether an
\* interrupt is taken is as it was, but for the interrupts raised.
Handled(k, r, s) ==
    /\ r \in MachineType /\ QueueOK(r, s) /\ r.Count = k.Count
    /\ r.mi_intr_mask_reg = k.mi_intr_mask_reg
    /\ r.IM = k.IM /\ r.IE = k.IE /\ r.EXL = k.EXL
    /\ r.skip_jump = k.skip_jump /\ r.delay_slot = k.delay_slot
    /\ Present(k.q, "CHECK_INT") => Present(r.q, "CHECK_INT")

LEMMA Raises ==
    ASSUME NEW k \in MachineType, NEW source \in Sources
    PROVE  LET r == raise(k, source)
           IN  /\ r \in MachineType /\ SameDevices(k, r) /\ r.q = k.q /\ r.Count = k.Count
               /\ r.mi_intr_mask_reg = k.mi_intr_mask_reg /\ r.Cause = k.Cause
               /\ r.IM = k.IM /\ r.IE = k.IE /\ r.EXL = k.EXL
               /\ r.skip_jump = k.skip_jump /\ r.delay_slot = k.delay_slot
               /\ r.next_interrupt = k.next_interrupt
<1> DEFINE x == k.mi_intr_reg \cup {source}
<1>1. x \in SUBSET Sources
  BY DEF MachineType
<1>2. raise(k, source) = [k EXCEPT !.mi_intr_reg = x]
  BY DEF raise
<1> HIDE DEF x
<1> QED BY <1>1, <1>2 DEF MachineType, SameDevices

LEMMA HandledRaises ==
    ASSUME NEW k, NEW r, NEW s, Handled(k, r, s), NEW source \in Sources
    PROVE  Handled(k, raise(r, source), s)
<1> DEFINE x == raise(r, source)
<1>1. /\ x \in MachineType /\ SameDevices(r, x) /\ x.q = r.q /\ x.Count = r.Count
      /\ x.mi_intr_mask_reg = r.mi_intr_mask_reg
      /\ x.IM = r.IM /\ x.IE = r.IE /\ x.EXL = r.EXL
      /\ x.skip_jump = r.skip_jump /\ x.delay_slot = r.delay_slot
  BY Raises DEF Handled
<1> HIDE DEF x
<1>2. QueueOK(x, s)
  BY <1>1, SameQueueKept DEF Handled
<1>3. Handled(k, x, s)
  BY <1>1, <1>2 DEF Handled
<1> QED BY <1>3 DEF x

\* VI_INT is queued again, at the new next_vi.
LEMMA ViEvent ==
    ASSUME NEW k \in MachineType, NEW s, QueueOK(k, s), k.q[1].type = "VI_INT"
    PROVE  Handled(k, vi_event(k), s)
<1> DEFINE n == Wrap(k.next_vi + vi_delay(k))
           l == [k EXCEPT !.next_vi = n]
           r == remove_interrupt_event(l)
           x == add_interrupt_event_count(r, "VI_INT", n)
<1>1. n \in Counts
  <2>1. vi_delay(k) \in Nat
    BY DelayAssumption, Limits DEF vi_delay
  <2>2. k.next_vi \in Nat
    BY Wraps DEF MachineType
  <2> QED BY <2>1, <2>2, Wraps
<1>0. vi_event(k) = raise(x, "VI")
  BY DEF vi_event
<1> HIDE DEF n
<1>2. /\ l \in MachineType /\ l.q = k.q /\ l.Count = k.Count /\ l.next_vi = n
      /\ l.ai_busy = k.ai_busy /\ l.ai_full = k.ai_full /\ l.pi_busy = k.pi_busy
      /\ SameProcessor(k, l)
  BY <1>1 DEF MachineType, SameProcessor
<1> HIDE DEF l
<1>3. l.q # << >> /\ Head(l.q).type = "VI_INT" /\ "VI_INT" \in EventTypes
  BY <1>2, NotEmpty DEF EventTypes
<1>4. /\ r \in MachineType /\ r.Count = l.Count /\ Same(l, r)
      /\ KeepsBut(l.q, r.q, "VI_INT")
      /\ One(l.q, "VI_INT") => Absent(r.q, "VI_INT")
  BY <1>2, <1>3, RemovalKeeps
<1> HIDE DEF r
<1>5. /\ x \in MachineType /\ x.Count = r.Count /\ Same(r, x)
      /\ KeepsBut(r.q, x.q, "VI_INT")
      /\ Absent(r.q, "VI_INT") => OneAt(x.q, "VI_INT", n)
  BY <1>1, <1>3, <1>4, AddKeeps
<1> HIDE DEF x
<1>6. OneAt(x.q, "VI_INT", n)
  BY <1>2, <1>4, <1>5 DEF QueueOK
<1>7. \A u \in {"SPECIAL_INT", "AI_INT", "PI_INT", "SI_INT", "CHECK_INT"} : u \in EventTypes \ {"VI_INT"}
  BY DEF EventTypes
<1>8. /\ x.ai_busy = k.ai_busy /\ x.ai_full = k.ai_full /\ x.pi_busy = k.pi_busy /\ x.next_vi = n
      /\ SameProcessor(k, x)
  BY <1>2, <1>4, <1>5 DEF Same, SameDevices, SameProcessor
<1>9. QueueOK(x, s)
  BY <1>2, <1>4, <1>5, <1>6, <1>7, <1>8 DEF QueueOK, KeepsBut, OneAt
<1>10. Present(k.q, "CHECK_INT") => Present(x.q, "CHECK_INT")
  BY <1>2, <1>4, <1>5, <1>7 DEF KeepsBut
<1>11. Handled(k, x, s)
  BY <1>2, <1>4, <1>5, <1>8, <1>9, <1>10 DEF Handled, SameProcessor
<1> QED BY <1>0, <1>11, HandledRaises DEF Sources

\* COMPARE_INT is queued again.
LEMMA CompareEvent ==
    ASSUME NEW k \in MachineType, NEW s, QueueOK(k, s), k.q[1].type = "COMPARE_INT"
    PROVE  Handled(k, compare_event(k), s)
<1> DEFINE r == remove_interrupt_event(k)
           l == [r EXCEPT !.Count = Wrap(r.Count + 2)]
           x == add_interrupt_event_count(l, "COMPARE_INT", k.Compare)
           c == x.Cause \cup {TIMER}
           y == [x EXCEPT !.Count = k.Count, !.Cause = c]
<1>0. compare_event(k) = y
  BY DEF compare_event
<1>3. k.q # << >> /\ Head(k.q).type = "COMPARE_INT" /\ "COMPARE_INT" \in EventTypes
  BY NotEmpty DEF EventTypes
<1>4. /\ r \in MachineType /\ r.Count = k.Count /\ Same(k, r)
      /\ KeepsBut(k.q, r.q, "COMPARE_INT")
  BY <1>3, RemovalKeeps
<1> HIDE DEF r
<1>1. Wrap(r.Count + 2) \in Counts
  <2>1. r.Count \in Nat
    BY <1>4, Wraps DEF MachineType
  <2> QED BY <2>1, Wraps
<1>5. l \in MachineType /\ l.q = r.q /\ Same(r, l)
  BY <1>1, <1>4 DEF MachineType, Same, SameDevices, SameProcessor
<1> HIDE DEF l
<1>c. k.Compare \in Counts /\ k.Count \in Counts
  BY DEF MachineType
<1>6. /\ x \in MachineType /\ Same(l, x)
      /\ KeepsBut(l.q, x.q, "COMPARE_INT")
  BY <1>c, <1>3, <1>5, AddKeeps
<1> HIDE DEF x
<1>d. c \in SUBSET {RCP, TIMER}
  BY <1>6 DEF MachineType
<1> HIDE DEF c
<1>7. /\ y \in MachineType /\ y.q = x.q /\ y.Count = k.Count /\ SameDevices(x, y)
      /\ SameButCause(x, y)
  BY <1>6, <1>c, <1>d DEF MachineType, SameDevices, SameButCause
<1> HIDE DEF y
<1>8. SameDevices(k, y) /\ SameButCause(k, y)
  BY <1>4, <1>5, <1>6, <1>7 DEF Same, SameDevices, SameProcessor, SameButCause
<1>9. KeepsBut(k.q, y.q, "COMPARE_INT")
  BY <1>4, <1>5, <1>6, <1>7 DEF KeepsBut
<1>10. QueueOK(y, s)
  BY <1>8, <1>9, UncountedKept DEF Uncounted
<1>11. Present(k.q, "CHECK_INT") => Present(y.q, "CHECK_INT")
  BY <1>9 DEF KeepsBut, EventTypes
<1> QED BY <1>0, <1>7, <1>8, <1>10, <1>11 DEF Handled, SameButCause

\* The events that only leave the queue.
LEMMA SiEvent ==
    ASSUME NEW k \in MachineType, NEW s, QueueOK(k, s), k.q[1].type = "SI_INT"
    PROVE  Handled(k, si_event(k), s)
<1> DEFINE r == remove_interrupt_event(k)
           x == [r EXCEPT !.si_status = TRUE]
<1>0. si_event(k) = raise(x, "SI")
  BY DEF si_event
<1>1. k.q # << >> /\ Head(k.q).type = "SI_INT"
  BY NotEmpty
<1>2. /\ r \in MachineType /\ r.Count = k.Count /\ Same(k, r)
      /\ KeepsBut(k.q, r.q, "SI_INT") /\ (One(k.q, "SI_INT") => Absent(r.q, "SI_INT"))
  BY <1>1, RemovalKeeps
<1> HIDE DEF r
<1>3. x \in MachineType /\ x.q = r.q /\ x.Count = r.Count /\ Same(r, x)
  BY <1>2 DEF MachineType, Same, SameDevices, SameProcessor
<1> HIDE DEF x
<1>4. \A u \in {"SPECIAL_INT", "VI_INT", "AI_INT", "PI_INT", "CHECK_INT"} : u \in EventTypes \ {"SI_INT"}
  BY DEF EventTypes
<1>5. One(k.q, "SI_INT")
  BY NotEmpty DEF QueueOK, Absent
<1>6. SameDevices(k, x) /\ SameProcessor(k, x)
  BY <1>2, <1>3 DEF Same, SameDevices, SameProcessor
<1>7. QueueOK(x, s)
  BY <1>2, <1>3, <1>4, <1>5, <1>6 DEF QueueOK, KeepsBut, SameDevices
<1>8. Present(k.q, "CHECK_INT") => Present(x.q, "CHECK_INT")
  BY <1>2, <1>3, <1>4 DEF KeepsBut
<1>9. Handled(k, x, s)
  BY <1>2, <1>3, <1>6, <1>7, <1>8 DEF Handled, SameProcessor
<1> QED BY <1>0, <1>9, HandledRaises DEF Sources

LEMMA PiEvent ==
    ASSUME NEW k \in MachineType, NEW s, QueueOK(k, s), k.q[1].type = "PI_INT"
    PROVE  Handled(k, pi_event(k), s)
<1> DEFINE r == remove_interrupt_event(k)
           x == [r EXCEPT !.pi_busy = FALSE]
<1>0. pi_event(k) = raise(x, "PI")
  BY DEF pi_event
<1>1. k.q # << >> /\ Head(k.q).type = "PI_INT"
  BY NotEmpty
<1>2. /\ r \in MachineType /\ r.Count = k.Count /\ Same(k, r)
      /\ KeepsBut(k.q, r.q, "PI_INT") /\ (One(k.q, "PI_INT") => Absent(r.q, "PI_INT"))
  BY <1>1, RemovalKeeps
<1> HIDE DEF r
<1>3. /\ x \in MachineType /\ x.q = r.q /\ x.Count = r.Count /\ SameProcessor(r, x)
      /\ x.ai_busy = r.ai_busy /\ x.ai_full = r.ai_full /\ x.next_vi = r.next_vi
  BY <1>2 DEF MachineType, SameProcessor
<1>b. x.pi_busy = FALSE
  BY <1>2 DEF MachineType
<1> HIDE DEF x
<1>4. \A u \in {"SPECIAL_INT", "VI_INT", "AI_INT", "SI_INT", "CHECK_INT"} : u \in EventTypes \ {"PI_INT"}
  BY DEF EventTypes
<1>5. One(k.q, "PI_INT")
  BY NotEmpty DEF QueueOK, Absent
<1>6. /\ SameProcessor(k, x) /\ x.ai_busy = k.ai_busy /\ x.ai_full = k.ai_full
      /\ x.next_vi = k.next_vi
  BY <1>2, <1>3 DEF Same, SameDevices, SameProcessor
<1>7. QueueOK(x, s)
  BY <1>2, <1>3, <1>b, <1>4, <1>5, <1>6 DEF QueueOK, KeepsBut
<1>8. Present(k.q, "CHECK_INT") => Present(x.q, "CHECK_INT")
  BY <1>2, <1>3, <1>4 DEF KeepsBut
<1>9. Handled(k, x, s)
  BY <1>2, <1>3, <1>6, <1>7, <1>8 DEF Handled, SameProcessor
<1> QED BY <1>0, <1>9, HandledRaises DEF Sources

LEMMA SpEvent ==
    ASSUME NEW k \in MachineType, NEW s, QueueOK(k, s), k.q[1].type = "SP_INT"
    PROVE  /\ Handled(k, sp_event(k), s)
           /\ ~k.sp_intr_break => sp_event(k).mi_intr_reg = k.mi_intr_reg
<1> DEFINE r == remove_interrupt_event(k)
           x == [r EXCEPT !.sp_halt = TRUE, !.sp_broke = TRUE]
<1>0. sp_event(k) = IF k.sp_intr_break THEN raise(x, "SP") ELSE x
  BY DEF sp_event
<1>1. k.q # << >> /\ Head(k.q).type = "SP_INT"
  BY NotEmpty
<1>2. r \in MachineType /\ r.Count = k.Count /\ Same(k, r) /\ KeepsBut(k.q, r.q, "SP_INT")
  BY <1>1, RemovalKeeps
<1> HIDE DEF r
<1>3. x \in MachineType /\ x.q = r.q /\ x.Count = r.Count /\ Same(r, x)
  BY <1>2 DEF MachineType, Same, SameDevices, SameProcessor
<1> HIDE DEF x
<1>4. SameDevices(k, x) /\ SameProcessor(k, x)
  BY <1>2, <1>3 DEF Same, SameDevices, SameProcessor
<1>5. QueueOK(x, s)
  BY <1>2, <1>3, <1>4, UncountedKept DEF Uncounted
<1>6. Present(k.q, "CHECK_INT") => Present(x.q, "CHECK_INT")
  BY <1>2, <1>3 DEF KeepsBut, EventTypes
<1>7. Handled(k, x, s)
  BY <1>2, <1>3, <1>4, <1>5, <1>6 DEF Handled, SameProcessor
<1> QED BY <1>0, <1>4, <1>7, HandledRaises DEF Sources, SameProcessor

LEMMA DpEvent ==
    ASSUME NEW k \in MachineType, NEW s, QueueOK(k, s), k.q[1].type = "DP_INT"
    PROVE  Handled(k, dp_event(k), s)
<1> DEFINE r == remove_interrupt_event(k)
<1>1. k.q # << >> /\ Head(k.q).type = "DP_INT"
  BY NotEmpty
<1>2. r \in MachineType /\ r.Count = k.Count /\ Same(k, r) /\ KeepsBut(k.q, r.q, "DP_INT")
  BY <1>1, RemovalKeeps
<1>0. dp_event(k) = raise(r, "DP")
  BY DEF dp_event
<1> HIDE DEF r
<1>3. QueueOK(r, s)
  BY <1>2, UncountedKept DEF Uncounted, Same
<1>4. Present(k.q, "CHECK_INT") => Present(r.q, "CHECK_INT")
  BY <1>2 DEF KeepsBut, EventTypes
<1>5. Handled(k, r, s)
  BY <1>2, <1>3, <1>4 DEF Handled, Same, SameProcessor
<1> QED BY <1>0, <1>5, HandledRaises DEF Sources

\* A full AI begins its second buffer.
LEMMA AiEvent ==
    ASSUME NEW k \in MachineType, NEW s, QueueOK(k, s), k.q[1].type = "AI_INT"
    PROVE  Handled(k, ai_event(k), s)
<1> DEFINE n == Wrap(get_event(k, "AI_INT") + k.ai_next)
           r == remove_interrupt_event(k)
           f == [r EXCEPT !.ai_full = FALSE, !.ai_delay = k.ai_next]
           a == add_interrupt_event_count(f, "AI_INT", n)
           b == [r EXCEPT !.ai_busy = FALSE]
<1>0. ai_event(k) = raise(IF k.ai_full THEN a ELSE b, "AI")
  BY DEF ai_event
<1>n. n \in Counts /\ k.ai_next \in Nat
  <2>1. get_event(k, "AI_INT") \in Nat /\ k.ai_next \in Nat
    BY GetEventMeans, Wraps DEF MachineType
  <2> QED BY <2>1, Wraps
<1> HIDE DEF n
<1>1. k.q # << >> /\ Head(k.q).type = "AI_INT" /\ "AI_INT" \in EventTypes
  BY NotEmpty DEF EventTypes
<1>2. /\ r \in MachineType /\ r.Count = k.Count /\ Same(k, r)
      /\ KeepsBut(k.q, r.q, "AI_INT") /\ (One(k.q, "AI_INT") => Absent(r.q, "AI_INT"))
  BY <1>1, RemovalKeeps
<1> HIDE DEF r
<1>3. \A u \in {"SPECIAL_INT", "VI_INT", "PI_INT", "SI_INT", "CHECK_INT"} : u \in EventTypes \ {"AI_INT"}
  BY DEF EventTypes
<1>4. One(k.q, "AI_INT") /\ k.ai_busy
  BY NotEmpty DEF QueueOK, Absent
<1>5. Absent(r.q, "AI_INT")
  BY <1>2, <1>4
<1>6. CASE k.ai_full
  <2>1. /\ f \in MachineType /\ f.q = r.q /\ f.Count = r.Count /\ SameProcessor(r, f)
        /\ f.ai_busy = r.ai_busy /\ f.pi_busy = r.pi_busy /\ f.next_vi = r.next_vi
    BY <1>2, <1>n DEF MachineType, SameProcessor
  <2> HIDE DEF f
  <2>2. /\ a \in MachineType /\ a.Count = f.Count /\ Same(f, a)
        /\ KeepsBut(f.q, a.q, "AI_INT")
        /\ OneAt(a.q, "AI_INT", n)
    BY <2>1, <1>1, <1>n, <1>5, AddKeeps
  <2> HIDE DEF a
  <2>3. /\ SameProcessor(k, a) /\ a.ai_busy = k.ai_busy /\ a.pi_busy = k.pi_busy
        /\ a.next_vi = k.next_vi
    BY <1>2, <2>1, <2>2 DEF Same, SameDevices, SameProcessor
  <2>4. QueueOK(a, s)
    <3>1. One(a.q, "AI_INT") /\ a.ai_busy
      BY <1>4, <2>2, <2>3 DEF OneAt
    <3> QED BY <1>2, <1>3, <2>1, <2>2, <2>3, <3>1 DEF QueueOK, KeepsBut
  <2>5. Present(k.q, "CHECK_INT") => Present(a.q, "CHECK_INT")
    BY <1>2, <1>3, <2>1, <2>2 DEF KeepsBut
  <2>6. Handled(k, a, s)
    BY <1>2, <2>1, <2>2, <2>3, <2>4, <2>5 DEF Handled, SameProcessor
  <2> QED BY <1>0, <1>6, <2>6, HandledRaises DEF Sources
<1>7. CASE ~k.ai_full
  <2>1. /\ b \in MachineType /\ b.q = r.q /\ b.Count = r.Count /\ SameProcessor(r, b)
        /\ b.ai_full = r.ai_full /\ b.pi_busy = r.pi_busy /\ b.next_vi = r.next_vi
    BY <1>2 DEF MachineType, SameProcessor
  <2>2. b.ai_busy = FALSE
    BY <1>2 DEF MachineType
  <2> HIDE DEF b
  <2>3. /\ SameProcessor(k, b) /\ b.ai_full = k.ai_full /\ b.pi_busy = k.pi_busy
        /\ b.next_vi = k.next_vi
    BY <1>2, <2>1 DEF Same, SameDevices, SameProcessor
  <2>4. QueueOK(b, s)
    BY <1>2, <1>3, <1>5, <1>7, <2>1, <2>2, <2>3 DEF QueueOK, KeepsBut
  <2>5. Present(k.q, "CHECK_INT") => Present(b.q, "CHECK_INT")
    BY <1>2, <1>3, <2>1 DEF KeepsBut
  <2>6. Handled(k, b, s)
    BY <1>2, <2>1, <2>3, <2>4, <2>5 DEF Handled, SameProcessor
  <2> QED BY <1>0, <1>7, <2>6, HandledRaises DEF Sources
<1> QED BY <1>6, <1>7

\* SPECIAL_INT is queued again.
LEMMA SpecialEvent ==
    ASSUME NEW k \in MachineType, NEW s, QueueOK(k, s), k.q[1].type = "SPECIAL_INT"
    PROVE  /\ Handled(k, special_event(k), s)
           /\ special_event(k).mi_intr_reg = k.mi_intr_reg
<1>1. CASE k.Count > Recent
  BY <1>1 DEF special_event, Handled
<1>2. CASE ~(k.Count > Recent)
  <2> DEFINE r == remove_interrupt_event(k)
             x == add_interrupt_event_count(r, "SPECIAL_INT", 0)
  <2>0. special_event(k) = x
    BY <1>2 DEF special_event
  <2>1. k.q # << >> /\ Head(k.q).type = "SPECIAL_INT" /\ "SPECIAL_INT" \in EventTypes /\ 0 \in Counts
    BY NotEmpty, Limits DEF EventTypes, Counts
  <2>2. /\ r \in MachineType /\ r.Count = k.Count /\ Same(k, r)
        /\ KeepsBut(k.q, r.q, "SPECIAL_INT")
        /\ One(k.q, "SPECIAL_INT") => Absent(r.q, "SPECIAL_INT")
    BY <2>1, RemovalKeeps
  <2> HIDE DEF r
  <2>3. /\ x \in MachineType /\ x.Count = r.Count /\ Same(r, x)
        /\ KeepsBut(r.q, x.q, "SPECIAL_INT")
        /\ Absent(r.q, "SPECIAL_INT") => OneAt(x.q, "SPECIAL_INT", 0)
    BY <2>1, <2>2, AddKeeps
  <2> HIDE DEF x
  <2>4. \A u \in {"VI_INT", "AI_INT", "PI_INT", "SI_INT", "CHECK_INT"} :
            u \in EventTypes \ {"SPECIAL_INT"}
    BY DEF EventTypes
  <2>5. SameDevices(k, x) /\ SameProcessor(k, x)
    BY <2>2, <2>3 DEF Same, SameDevices, SameProcessor
  <2>6. One(x.q, "SPECIAL_INT")
    BY <2>2, <2>3 DEF QueueOK, OneAt
  <2>7. QueueOK(x, s)
    BY <2>2, <2>3, <2>4, <2>5, <2>6 DEF QueueOK, KeepsBut, SameDevices
  <2>8. Present(k.q, "CHECK_INT") => Present(x.q, "CHECK_INT")
    BY <2>2, <2>3, <2>4 DEF KeepsBut
  <2> QED BY <2>0, <2>2, <2>3, <2>5, <2>7, <2>8 DEF Handled, SameProcessor
<1> QED BY <1>1, <1>2

-----------------------------------------------------------------------------
(* Looking at the queue                                                    *)

LEMMA GeneralEffect ==
    ASSUME NEW k \in MachineType
    PROVE  LET r == exception_general(k)
           IN  /\ r \in MachineType /\ SameDevices(k, r) /\ r.q = k.q /\ r.Count = k.Count
               /\ r.EXL /\ ~Pending(r) /\ r.delay_slot = k.delay_slot
               /\ r.skip_jump = (k.skip_jump \/ k.delay_slot)
               /\ k.delay_slot => r.next_interrupt = 0
<1> DEFINE x == k.skip_jump \/ k.delay_slot
           n == IF k.delay_slot THEN 0 ELSE k.next_interrupt
           r == [k EXCEPT !.EXL = TRUE, !.skip_jump = x, !.next_interrupt = n]
<1>1. x \in BOOLEAN /\ n \in Counts
  BY Limits DEF MachineType, Counts
<1>2. exception_general(k) = r
  BY DEF exception_general
<1>n. k.delay_slot => n = 0
  OBVIOUS
<1> HIDE DEF x, n
<1>3. /\ r \in MachineType /\ SameDevices(k, r) /\ r.q = k.q /\ r.Count = k.Count
      /\ r.delay_slot = k.delay_slot /\ r.skip_jump = x /\ r.next_interrupt = n
  BY <1>1 DEF MachineType, SameDevices
<1>4. r.EXL = TRUE
  BY DEF MachineType
<1> HIDE DEF r
<1>5. ~Pending(r)
  BY <1>4 DEF Pending, Enabled
<1> QED BY <1>2, <1>3, <1>4, <1>5, <1>n DEF x

\* After a device event no interrupt of the RCP is pending: it was taken.
LEMMA DeliverEffect ==
    ASSUME NEW k \in MachineType, NEW s, QueueOK(k, s)
    PROVE  LET r == deliver(k)
           IN  /\ r \in MachineType /\ QueueOK(r, s) /\ r.Count = k.Count /\ ~Pending(r)
               /\ r.delay_slot = k.delay_slot
               /\ \/ r.skip_jump = k.skip_jump
                  \/ r.skip_jump = (k.skip_jump \/ k.delay_slot) /\ (k.delay_slot => r.next_interrupt = 0)
<1>1. CASE ~rcp_pending(k)
  BY <1>1 DEF deliver, Pending
<1>2. CASE rcp_pending(k)
  <2> DEFINE x == k.Cause \cup {RCP}
             c == [k EXCEPT !.Cause = x]
  <2>1. x \in SUBSET {RCP, TIMER} /\ RCP \in x
    BY DEF MachineType
  <2>2. deliver(k) = IF Enabled(c) /\ c.Cause \cap c.IM # {} THEN exception_general(c) ELSE c
    BY <1>2 DEF deliver
  <2> HIDE DEF x
  <2>3. /\ c \in MachineType /\ SameDevices(k, c) /\ c.q = k.q /\ c.Count = k.Count /\ c.Cause = x
        /\ c.delay_slot = k.delay_slot /\ c.skip_jump = k.skip_jump
    BY <2>1 DEF MachineType, SameDevices
  <2> HIDE DEF c
  <2>4. QueueOK(c, s)
    BY <2>3, SameQueueKept
  <2>5. CASE Enabled(c) /\ c.Cause \cap c.IM # {}
    <3> DEFINE r == exception_general(c)
    <3>1. /\ r \in MachineType /\ SameDevices(c, r) /\ r.q = c.q /\ r.Count = c.Count
          /\ ~Pending(r) /\ r.delay_slot = c.delay_slot
          /\ r.skip_jump = (c.skip_jump \/ c.delay_slot)
          /\ c.delay_slot => r.next_interrupt = 0
      BY <2>3, GeneralEffect
    <3>2. deliver(k) = r
      BY <2>2, <2>5
    <3> HIDE DEF r
    <3>3. QueueOK(r, s)
      BY <2>4, <3>1, SameQueueKept
    <3> QED BY <2>3, <3>1, <3>2, <3>3
  <2>6. CASE ~(Enabled(c) /\ c.Cause \cap c.IM # {})
    <3>1. ~Pending(c)
      BY <2>1, <2>3, <2>6 DEF Pending
    <3>2. deliver(k) = c
      BY <2>2, <2>6
    <3> QED BY <2>3, <2>4, <3>1, <3>2
  <2> QED BY <2>5, <2>6
<1> QED BY <1>1, <1>2

LEMMA DeviceEvents ==
    ASSUME NEW k \in MachineType, NEW s, QueueOK(k, s),
           k.q[1].type \notin {"SPECIAL_INT", "CHECK_INT"}
    PROVE  Handled(k, device_event(k, k.q[1].type), s)
<1>1. k.q[1].type \in EventTypes
  BY NotEmpty DEF EventType
<1> DEFINE t == k.q[1].type
<1>2. CASE t = "VI_INT"
  BY <1>2, ViEvent DEF device_event
<1>3. CASE t = "COMPARE_INT"
  BY <1>3, CompareEvent DEF device_event
<1>4. CASE t = "SI_INT"
  BY <1>4, SiEvent DEF device_event
<1>5. CASE t = "PI_INT"
  BY <1>5, PiEvent DEF device_event
<1>6. CASE t = "AI_INT"
  BY <1>6, AiEvent DEF device_event
<1>7. CASE t = "SP_INT"
  BY <1>7, SpEvent DEF device_event
<1>8. CASE t = "DP_INT"
  BY <1>8, DpEvent DEF device_event
<1> QED BY <1>1, <1>2, <1>3, <1>4, <1>5, <1>6, <1>7, <1>8 DEF EventTypes

\* A machine between two instructions.
AtRest(k) == ~k.skip_jump /\ ~k.delay_slot

\* gen_interrupt keeps the queue. An interrupt that is still to be taken was so
\* before, and the first event was no CHECK_INT.
LEMMA GenEffect ==
    ASSUME NEW k \in MachineType, NEW s, QueueOK(k, s)
    PROVE  LET r == gen_interrupt(k)
           IN  /\ r \in MachineType /\ QueueOK(r, s) /\ r.Count = k.Count
               /\ r.delay_slot = k.delay_slot
               /\ k.skip_jump => /\ ~r.skip_jump /\ r.q = k.q
                                 /\ SameProcessor([k EXCEPT !.skip_jump = FALSE], r)
               /\ ~k.skip_jump =>
                    /\ r.skip_jump => k.delay_slot /\ r.next_interrupt = 0
                    /\ Pending(r) => /\ Pending(k) /\ k.q[1].type # "CHECK_INT"
                                     /\ Present(k.q, "CHECK_INT") => Present(r.q, "CHECK_INT")
<1>0. Head(k.q) = k.q[1] /\ k.q[1] \in EventType /\ k.q # << >>
  BY NotEmpty
<1>1. CASE k.skip_jump
  <2> DEFINE n == due_of(k, Head(k.q))
             l == [k EXCEPT !.skip_jump = FALSE]
             r == [k EXCEPT !.skip_jump = FALSE, !.next_interrupt = n]
  <2>1. n \in Counts
    BY <1>0, DueType
  <2>2. gen_interrupt(k) = r
    BY <1>1 DEF gen_interrupt
  <2> HIDE DEF n
  <2>3. /\ r \in MachineType /\ SameDevices(k, r) /\ r.q = k.q /\ r.Count = k.Count
        /\ r.delay_slot = k.delay_slot /\ SameProcessor(l, r)
    BY <2>1 DEF MachineType, SameDevices, SameProcessor
  <2>4. r.skip_jump = FALSE
    BY DEF MachineType
  <2> HIDE DEF r
  <2>5. QueueOK(r, s)
    BY <2>3, SameQueueKept
  <2> QED BY <1>1, <2>2, <2>3, <2>4, <2>5
<1>2. CASE ~k.skip_jump /\ k.q[1].type = "SPECIAL_INT"
  <2> DEFINE r == special_event(k)
  <2>1. gen_interrupt(k) = r
    BY <1>0, <1>2 DEF gen_interrupt
  <2>2. Handled(k, r, s) /\ r.mi_intr_reg = k.mi_intr_reg
    BY <1>2, SpecialEvent
  <2> HIDE DEF r
  <2>3. Pending(r) => Pending(k)
    BY <2>2 DEF Handled, Pending, Enabled, rcp_pending
  <2> QED BY <1>2, <2>1, <2>2, <2>3 DEF Handled
<1>3. CASE ~k.skip_jump /\ k.q[1].type = "CHECK_INT"
  <2> DEFINE x == remove_interrupt_event(k)
             r == exception_general(x)
  <2>1. gen_interrupt(k) = r
    BY <1>0, <1>3 DEF gen_interrupt
  <2>2. x \in MachineType /\ x.Count = k.Count /\ Same(k, x) /\ KeepsBut(k.q, x.q, "CHECK_INT")
    BY <1>0, <1>3, RemovalKeeps
  <2>3. QueueOK(x, s)
    BY <2>2, UncountedKept DEF Uncounted, Same
  <2> HIDE DEF x
  <2>4. /\ r \in MachineType /\ SameDevices(x, r) /\ r.q = x.q /\ r.Count = x.Count
        /\ ~Pending(r) /\ r.delay_slot = x.delay_slot
        /\ r.skip_jump = (x.skip_jump \/ x.delay_slot)
        /\ x.delay_slot => r.next_interrupt = 0
    BY <2>2, GeneralEffect
  <2> HIDE DEF r
  <2>5. QueueOK(r, s)
    BY <2>3, <2>4, SameQueueKept
  <2>6. x.skip_jump = k.skip_jump /\ x.delay_slot = k.delay_slot
    BY <2>2 DEF Same, SameProcessor
  <2> QED BY <1>3, <2>1, <2>2, <2>4, <2>5, <2>6
<1>4. CASE ~k.skip_jump /\ k.q[1].type = "SP_INT" /\ ~k.sp_intr_break
  <2> DEFINE r == sp_event(k)
  <2>1. gen_interrupt(k) = r
    BY <1>0, <1>4 DEF gen_interrupt
  <2>2. Handled(k, r, s) /\ r.mi_intr_reg = k.mi_intr_reg
    BY <1>4, SpEvent
  <2> HIDE DEF r
  <2>3. Pending(r) => Pending(k)
    BY <2>2 DEF Handled, Pending, Enabled, rcp_pending
  <2> QED BY <1>4, <2>1, <2>2, <2>3 DEF Handled
<1>5. CASE /\ ~k.skip_jump /\ k.q[1].type \notin {"SPECIAL_INT", "CHECK_INT"}
           /\ ~(k.q[1].type = "SP_INT" /\ ~k.sp_intr_break)
  <2> DEFINE x == device_event(k, k.q[1].type)
             r == deliver(x)
  <2>1. gen_interrupt(k) = r
    BY <1>0, <1>5 DEF gen_interrupt
  <2>2. Handled(k, x, s)
    BY <1>5, DeviceEvents
  <2> HIDE DEF x
  <2>3. /\ r \in MachineType /\ QueueOK(r, s) /\ r.Count = x.Count /\ ~Pending(r)
        /\ r.delay_slot = x.delay_slot
        /\ \/ r.skip_jump = x.skip_jump
           \/ r.skip_jump = (x.skip_jump \/ x.delay_slot) /\ (x.delay_slot => r.next_interrupt = 0)
    BY <2>2, DeliverEffect DEF Handled
  <2> HIDE DEF r
  <2> QED BY <1>5, <2>1, <2>2, <2>3 DEF Handled
<1> QED BY <1>1, <1>2, <1>3, <1>4, <1>5

LEMMA LookEffect ==
    ASSUME NEW k \in MachineType, NEW s, QueueOK(k, s), ~k.skip_jump
    PROVE  LET r == look(k)
           IN  /\ r \in MachineType /\ QueueOK(r, s) /\ r.Count = k.Count
               /\ r.delay_slot = k.delay_slot
               /\ r.skip_jump => k.delay_slot /\ r.next_interrupt = 0
               /\ Pending(r) => /\ Pending(k)
                                /\ Present(k.q, "CHECK_INT") => Present(r.q, "CHECK_INT")
                                /\ k.q[1].type = "CHECK_INT" => ~Noticed(k) /\ r = k
<1>1. CASE Noticed(k)
  BY <1>1, GenEffect DEF look
<1>2. CASE ~Noticed(k)
  BY <1>2 DEF look
<1> QED BY <1>1, <1>2

-----------------------------------------------------------------------------
(* Instructions                                                            *)

\* The CHECK_INT of an interrupt that is to be taken is the first event, and
\* due: no time passes before the next look at the queue.
CheckFirst(k) ==
    k.q[1].type = "CHECK_INT" /\ k.q[1].count = k.Count /\ k.next_interrupt = k.Count

MachineInv(k, s) ==
    /\ k \in MachineType
    /\ QueueOK(k, s)
    /\ AtRest(k)
    /\ Pending(k) => Present(k.q, "CHECK_INT")

FirstInv(k) == Pending(k) => CheckFirst(k)

\* l is k with other values in registers that the queue does not depend on.
Registers(k, l) ==
    /\ l \in MachineType
    /\ l.q = k.q /\ l.Count = k.Count /\ l.next_interrupt = k.next_interrupt
    /\ l.ai_busy = k.ai_busy /\ l.ai_full = k.ai_full /\ l.pi_busy = k.pi_busy
    /\ l.next_vi = k.next_vi
    /\ l.skip_jump = k.skip_jump /\ l.delay_slot = k.delay_slot

LEMMA RegistersKeep ==
    ASSUME NEW k, NEW l, NEW s, MachineInv(k, s), Registers(k, l)
    PROVE  /\ l \in MachineType /\ QueueOK(l, s) /\ AtRest(l)
           /\ (Pending(l) => Pending(k)) => MachineInv(l, s) /\ (FirstInv(k) => FirstInv(l))
<1>1. QueueOK(l, s)
  BY DEF MachineInv, Registers, QueueOK
<1>2. l \in MachineType /\ AtRest(l) /\ l.q = k.q
  BY DEF MachineInv, Registers, AtRest
<1>3. ASSUME Pending(l) => Pending(k) PROVE MachineInv(l, s)
  BY <1>1, <1>2, <1>3 DEF MachineInv
<1>4. ASSUME Pending(l) => Pending(k), FirstInv(k) PROVE FirstInv(l)
  BY <1>4 DEF FirstInv, CheckFirst, Registers
<1> QED BY <1>1, <1>2, <1>3, <1>4

\* check_interrupt restores both, whatever the registers have become.
LEMMA CheckRestores ==
    ASSUME NEW k \in MachineType, NEW s, QueueOK(k, s), AtRest(k)
    PROVE  LET r == check_interrupt(k) IN MachineInv(r, s) /\ FirstInv(r)
<1> DEFINE r == check_interrupt(k)
           e == Event("CHECK_INT", k.Count)
<1>1. /\ r \in MachineType /\ r.Count = k.Count /\ SameDevices(k, r) /\ SameButCause(k, r)
      /\ \/ r.q = k.q /\ r.next_interrupt = k.next_interrupt /\ ~Pending(k)
         \/ Inserted(k.q, r.q, 1, e) /\ r.next_interrupt = k.Count
  BY CheckEffect
<1> HIDE DEF r
<1>2. AtRest(r) /\ (Pending(r) <=> Pending(k))
  BY <1>1 DEF AtRest, SameButCause, Pending, Enabled, rcp_pending
<1>3. CASE r.q = k.q /\ ~Pending(k)
  <2>1. QueueOK(r, s)
    BY <1>1, <1>3, SameQueueKept
  <2> QED BY <1>1, <1>2, <1>3, <2>1 DEF MachineInv, FirstInv, r
<1>4. CASE Inserted(k.q, r.q, 1, e) /\ r.next_interrupt = k.Count
  <2>1. e \in EventType /\ e.type = "CHECK_INT" /\ e.count = k.Count
    BY DEF Event, EventType, EventTypes, MachineType
  <2> HIDE DEF e
  <2>2. k.q \in QueueType /\ r.q \in QueueType
    BY <1>1 DEF MachineType
  <2>3. KeepsBut(k.q, r.q, "CHECK_INT") /\ Present(r.q, "CHECK_INT")
    BY <1>4, <2>1, <2>2, InsertKeeps DEF KeepsBut
  <2>4. QueueOK(r, s)
    BY <1>1, <2>3, UncountedKept DEF Uncounted
  <2>5. CheckFirst(r)
    BY <1>1, <1>4, <2>1 DEF CheckFirst, Inserted
  <2> QED BY <1>1, <1>2, <2>3, <2>4, <2>5 DEF MachineInv, FirstInv, r
<1> QED BY <1>1, <1>3, <1>4

\* A look at the queue after check_interrupt takes the interrupt.
LEMMA LookTakes ==
    ASSUME NEW k, NEW s, MachineInv(k, s), FirstInv(k)
    PROVE  LET r == look(k) IN MachineInv(r, s) /\ ~Pending(r)
<1> DEFINE r == look(k)
<1>1. k \in MachineType /\ QueueOK(k, s) /\ ~k.skip_jump /\ ~k.delay_slot
  BY DEF MachineInv, AtRest
<1>2. /\ r \in MachineType /\ QueueOK(r, s) /\ r.Count = k.Count
      /\ r.delay_slot = k.delay_slot
      /\ r.skip_jump => k.delay_slot /\ r.next_interrupt = 0
      /\ Pending(r) => /\ Pending(k)
                       /\ Present(k.q, "CHECK_INT") => Present(r.q, "CHECK_INT")
                       /\ k.q[1].type = "CHECK_INT" => ~Noticed(k) /\ r = k
  BY <1>1, LookEffect
<1> HIDE DEF r
<1>3. ~Pending(r)
  <2> SUFFICES ASSUME Pending(r) PROVE FALSE
    OBVIOUS
  <2>1. CheckFirst(k) /\ ~Noticed(k)
    BY <1>2 DEF FirstInv, CheckFirst
  <2>2. k.Count \in Nat
    BY <1>1, Wraps DEF MachineType
  <2> QED BY <2>1, <2>2 DEF CheckFirst, Noticed
<1>4. AtRest(r)
  BY <1>1, <1>2 DEF AtRest
<1> QED BY <1>2, <1>3, <1>4 DEF MachineInv, r

\* The same in a delay slot: the exception sets skip_jump, which the branch
\* clears when it looks at the queue in turn.
LEMMA SlotTakes ==
    ASSUME NEW k, NEW s, MachineInv(k, s), FirstInv(k)
    PROVE  LET x == [look([k EXCEPT !.delay_slot = TRUE]) EXCEPT !.delay_slot = FALSE]
               r == look(x)
           IN  MachineInv(r, s) /\ ~Pending(r)
<1> DEFINE d == [k EXCEPT !.delay_slot = TRUE]
           a == look(d)
           x == [a EXCEPT !.delay_slot = FALSE]
           r == look(x)
<1>1. k \in MachineType /\ QueueOK(k, s) /\ ~k.skip_jump /\ ~k.delay_slot
  BY DEF MachineInv, AtRest
<1>2. /\ d \in MachineType /\ SameDevices(k, d) /\ d.q = k.q /\ d.Count = k.Count
      /\ d.next_interrupt = k.next_interrupt /\ d.skip_jump = k.skip_jump
      /\ d.mi_intr_reg = k.mi_intr_reg /\ d.mi_intr_mask_reg = k.mi_intr_mask_reg
      /\ d.IM = k.IM /\ d.IE = k.IE /\ d.EXL = k.EXL
  BY <1>1 DEF MachineType, SameDevices
<1> HIDE DEF d
<1>3. QueueOK(d, s) /\ (Pending(d) <=> Pending(k))
  BY <1>1, <1>2, SameQueueKept DEF Pending, Enabled, rcp_pending
<1>4. /\ a \in MachineType /\ QueueOK(a, s) /\ a.Count = d.Count
      /\ a.skip_jump => a.next_interrupt = 0
      /\ Pending(a) => /\ Pending(d)
                       /\ d.q[1].type = "CHECK_INT" => ~Noticed(d)
  BY <1>1, <1>2, <1>3, LookEffect
<1> HIDE DEF a
<1>5. ~Pending(a)
  <2> SUFFICES ASSUME Pending(a) PROVE FALSE
    OBVIOUS
  <2>1. CheckFirst(k) /\ ~Noticed(d)
    BY <1>2, <1>3, <1>4 DEF FirstInv, CheckFirst
  <2>2. k.Count \in Nat
    BY <1>1, Wraps DEF MachineType
  <2> QED BY <1>2, <2>1, <2>2 DEF CheckFirst, Noticed
<1>6. /\ x \in MachineType /\ SameDevices(a, x) /\ x.q = a.q /\ x.Count = a.Count
      /\ x.next_interrupt = a.next_interrupt /\ x.skip_jump = a.skip_jump
      /\ x.mi_intr_reg = a.mi_intr_reg /\ x.mi_intr_mask_reg = a.mi_intr_mask_reg
      /\ x.IM = a.IM /\ x.IE = a.IE /\ x.EXL = a.EXL
  BY <1>4 DEF MachineType, SameDevices
<1>d. x.delay_slot = FALSE
  BY <1>4 DEF MachineType
<1> HIDE DEF x
<1>7. QueueOK(x, s) /\ ~Pending(x)
  BY <1>4, <1>5, <1>6, SameQueueKept DEF Pending, Enabled, rcp_pending
<1>8. CASE ~x.skip_jump
  <2>1. /\ r \in MachineType /\ QueueOK(r, s)
        /\ r.delay_slot = x.delay_slot
        /\ r.skip_jump => x.delay_slot
        /\ Pending(r) => Pending(x)
    BY <1>6, <1>7, <1>8, LookEffect
  <2> HIDE DEF r
  <2> QED BY <1>d, <1>7, <2>1 DEF MachineInv, AtRest, r, x, a, d
<1>9. CASE x.skip_jump
  <2>1. Noticed(x)
    <3>1. x.Count \in Nat /\ x.next_interrupt = 0
      BY <1>4, <1>6, <1>9, Wraps DEF MachineType
    <3> QED BY <3>1 DEF Noticed
  <2>2. r = gen_interrupt(x)
    BY <2>1 DEF look
  <2> HIDE DEF r
  <2> DEFINE y == [x EXCEPT !.skip_jump = FALSE]
  <2>3. /\ r \in MachineType /\ QueueOK(r, s) /\ r.delay_slot = x.delay_slot
        /\ ~r.skip_jump /\ SameProcessor(y, r)
    BY <1>6, <1>7, <1>9, <2>2, GenEffect
  <2>4. /\ y.mi_intr_reg = x.mi_intr_reg /\ y.mi_intr_mask_reg = x.mi_intr_mask_reg
        /\ y.IM = x.IM /\ y.IE = x.IE /\ y.EXL = x.EXL
    BY <1>6 DEF MachineType
  <2> HIDE DEF y
  <2>5. ~Pending(r)
    BY <1>7, <2>3, <2>4 DEF SameProcessor, Pending, Enabled, rcp_pending
  <2> QED BY <1>d, <2>3, <2>5 DEF MachineInv, AtRest, r, x, a, d
<1> QED BY <1>8, <1>9

\* A new event never comes before the CHECK_INT of an interrupt to be taken.
LEMMA AddRest ==
    ASSUME NEW k \in MachineType, Len(k.q) >= 1, NEW t \in EventTypes, NEW c \in Counts
    PROVE  LET r == add_interrupt_event_count(k, t, c)
           IN  /\ Len(r.q) >= 1
               /\ AtRest(k) => AtRest(r)
               /\ Pending(r) <=> Pending(k)
               /\ Present(k.q, "CHECK_INT") => Present(r.q, "CHECK_INT")
               /\ FirstInv(k) => FirstInv(r)
<1> DEFINE r == add_interrupt_event_count(k, t, c)
<1>1. /\ r \in MachineType /\ r.Count = k.Count /\ Same(k, r)
      /\ KeepsBut(k.q, r.q, t) /\ Present(r.q, t)
  BY AddKeeps
<1>2. PICK p \in 1 .. Len(k.q) + 1 :
        /\ Inserted(k.q, r.q, p, Event(t, c))
        /\ p # 1 => r.next_interrupt = k.next_interrupt
        /\ p = 1 => Len(k.q) = 0 \/ (t # "SPECIAL_INT" /\ before_event(r, c, k.q[1]))
  BY AddEffect
<1> HIDE DEF r
<1>n. k.q \in QueueType /\ Len(k.q) \in Nat
  BY DEF MachineType, QueueType
<1>3. Len(r.q) >= 1
  BY <1>2, <1>n DEF Inserted
<1>4. (AtRest(k) => AtRest(r)) /\ (Pending(r) <=> Pending(k))
  BY <1>1 DEF Same, SameProcessor, AtRest, Pending, Enabled, rcp_pending
<1>5. Present(k.q, "CHECK_INT") => Present(r.q, "CHECK_INT")
  BY <1>1 DEF KeepsBut, EventTypes
<1>6. ASSUME CheckFirst(k) PROVE CheckFirst(r)
  <2>1. Minus(k.Count, r.Count) = 0
    <3>1. k.Count \in Counts /\ k.Count \in Nat
      BY Wraps DEF MachineType
    <3> QED BY <1>1, <3>1, Differences
  <2>2. Minus(c, r.Count) \in Nat
    <3>1. c \in Nat /\ r.Count \in Counts /\ r.Count \in Nat /\ r.Count < CountLimit /\ c >= 0
      BY <1>1, Wraps, Limits DEF MachineType, Counts
    <3> QED BY <3>1, Differences, Limits
  <2>3. ~before_event(r, c, k.q[1])
    <3>1. Minus(k.q[1].count, r.Count) = 0
      BY <1>6, <2>1 DEF CheckFirst
    <3>2. ~(Minus(c, r.Count) < 0) /\ ~(0 >= Half)
      BY <2>2, Limits
    <3> QED BY <3>1, <3>2 DEF before_event
  <2>4. p # 1
    BY <1>2, <2>3
  <2>5. r.q[1] = k.q[1] /\ r.next_interrupt = k.next_interrupt
    <3>1. \A i \in 1 .. Len(k.q) : r.q[IF i < p THEN i ELSE i + 1] = k.q[i]
      BY <1>2 DEF Inserted
    <3>2. 1 \in 1 .. Len(k.q) /\ 1 < p
      BY <1>n, <1>2, <2>4
    <3> QED BY <1>2, <2>4, <3>1, <3>2
  <2> QED BY <1>1, <1>6, <2>5 DEF CheckFirst
<1> QED BY <1>3, <1>4, <1>5, <1>6 DEF FirstInv, r

\* The same for an event that no register counts.
LEMMA AddUncounted ==
    ASSUME NEW k, NEW s, MachineInv(k, s), NEW t \in Uncounted, NEW c \in Counts
    PROVE  LET r == add_interrupt_event_count(k, t, c)
           IN  MachineInv(r, s) /\ (FirstInv(k) => FirstInv(r))
<1> DEFINE r == add_interrupt_event_count(k, t, c)
<1>0. k \in MachineType /\ QueueOK(k, s) /\ t \in EventTypes /\ Len(k.q) >= 1
  BY NotEmpty DEF MachineInv, Uncounted, EventTypes
<1>1. r \in MachineType /\ Same(k, r) /\ KeepsBut(k.q, r.q, t)
  BY <1>0, AddKeeps
<1>2. /\ AtRest(k) => AtRest(r)
      /\ Pending(r) <=> Pending(k)
      /\ Present(k.q, "CHECK_INT") => Present(r.q, "CHECK_INT")
      /\ FirstInv(k) => FirstInv(r)
  BY <1>0, AddRest
<1> HIDE DEF r
<1>3. QueueOK(r, s)
  BY <1>0, <1>1, UncountedKept DEF Same
<1> QED BY <1>1, <1>2, <1>3 DEF MachineInv, r

\* An SI_INT, which no register counts either, must not be there yet.
LEMMA AddSi ==
    ASSUME NEW k, NEW s, MachineInv(k, s), Absent(k.q, "SI_INT"), NEW c \in Counts
    PROVE  LET r == add_interrupt_event_count(k, "SI_INT", c)
           IN  MachineInv(r, s) /\ (FirstInv(k) => FirstInv(r))
<1> DEFINE r == add_interrupt_event_count(k, "SI_INT", c)
<1>0. k \in MachineType /\ QueueOK(k, s) /\ "SI_INT" \in EventTypes /\ Len(k.q) >= 1
  BY NotEmpty DEF MachineInv, EventTypes
<1>1. /\ r \in MachineType /\ Same(k, r) /\ KeepsBut(k.q, r.q, "SI_INT")
      /\ OneAt(r.q, "SI_INT", c)
  BY <1>0, AddKeeps
<1>2. /\ AtRest(k) => AtRest(r)
      /\ Pending(r) <=> Pending(k)
      /\ Present(k.q, "CHECK_INT") => Present(r.q, "CHECK_INT")
      /\ FirstInv(k) => FirstInv(r)
  BY <1>0, AddRest
<1> HIDE DEF r
<1>3. \A u \in {"SPECIAL_INT", "VI_INT", "AI_INT", "PI_INT"} : u \in EventTypes \ {"SI_INT"}
  BY DEF EventTypes
<1>4. One(r.q, "SI_INT")
  BY <1>1 DEF OneAt
<1>5. QueueOK(r, s)
  BY <1>0, <1>1, <1>3, <1>4 DEF QueueOK, KeepsBut, Same, SameDevices
<1> QED BY <1>1, <1>2, <1>5 DEF MachineInv, r

LEMMA DelayedCount ==
    ASSUME NEW k \in MachineType, NEW delay \in Nat
    PROVE  Wrap(k.Count + delay) \in Counts
<1>1. k.Count \in Nat
  BY Wraps DEF MachineType
<1> QED BY <1>1, Wraps

LEMMA DelaysAreNat ==
    /\ ViDelay \in Nat /\ IdleViDelay \in Nat /\ PiDelay \in Nat /\ SiDelay \in Nat /\ SpDelay \in Nat
    /\ AiDelays \subseteq Nat /\ StepCycles \subseteq Nat
  BY DelayAssumption, Limits

-----------------------------------------------------------------------------
(* The invariant                                                           *)

Inv ==
    /\ missed \in BOOLEAN
    /\ MachineInv(m, scene)
    /\ saved = NoState \/ (MachineInv(saved, scene) /\ Absent(saved.q, "SI_INT"))
    /\ "Save" \in scene \/ missed \/ FirstInv(m)

\* What is left to show of an instruction that leaves the machine in state r.
Fine(r) == MachineInv(r, scene) /\ ("Save" \in scene \/ missed \/ FirstInv(r) \/ Overslept(r))

LEMMA InstructionKeeps ==
    ASSUME Inv, NEW r, Fine(r), Instruction(r)
    PROVE  Inv'
<1>1. m' = r /\ missed' = (missed \/ Overslept(r)) /\ scene' = scene /\ saved' = saved
  BY DEF Instruction, becomes, Leaves
<1>2. missed' \in BOOLEAN /\ (missed \/ Overslept(r) => missed')
  BY <1>1
<1>3. MachineInv(m', scene')
  BY <1>1 DEF Fine
<1>4. "Save" \in scene' \/ missed' \/ FirstInv(m')
  BY <1>1, <1>2 DEF Fine
<1> QED BY <1>1, <1>2, <1>3, <1>4 DEF Inv

\* Time passes: the CHECK_INT of an interrupt that was not taken because Count
\* wrapped has been overslept.
LEMMA BranchKeeps ==
    ASSUME Inv, NEW d \in StepCycles, Branch(d)
    PROVE  Inv'
<1> DEFINE n == Wrap(m.Count + d)
           k == [m EXCEPT !.Count = n]
           r == look(k)
<1>1. Instruction(r)
  BY DEF Branch, update_count
<1>2. m \in MachineType /\ QueueOK(m, scene) /\ AtRest(m)
  BY DEF Inv, MachineInv
<1>3. n \in Counts
  BY <1>2, DelayedCount, DelaysAreNat
<1>n. n = Wrap(m.Count + d)
  OBVIOUS
<1> HIDE DEF n
<1>4. /\ k \in MachineType /\ k.Count = n /\ k.q = m.q /\ k.next_interrupt = m.next_interrupt
      /\ Same(m, k)
  BY <1>2, <1>3 DEF MachineType, Same, SameDevices, SameProcessor
<1> HIDE DEF k
<1>5. QueueOK(k, scene) /\ AtRest(k) /\ (Pending(k) <=> Pending(m))
  BY <1>2, <1>4, SameQueueKept DEF Same, SameProcessor, AtRest, Pending, Enabled, rcp_pending
<1>6. /\ r \in MachineType /\ QueueOK(r, scene) /\ r.delay_slot = k.delay_slot
      /\ r.skip_jump => k.delay_slot
      /\ Pending(r) => /\ Pending(k)
                       /\ Present(k.q, "CHECK_INT") => Present(r.q, "CHECK_INT")
                       /\ k.q[1].type = "CHECK_INT" => ~Noticed(k) /\ r = k
  BY <1>4, <1>5, LookEffect DEF AtRest
<1> HIDE DEF r
<1>7. MachineInv(r, scene)
  BY <1>4, <1>5, <1>6 DEF Inv, MachineInv, AtRest
<1>8. ASSUME "Save" \notin scene, ~missed, Pending(r) PROVE Overslept(r)
  <2>1. CheckFirst(m) /\ r = k /\ ~Noticed(k)
    BY <1>4, <1>5, <1>6, <1>8 DEF Inv, FirstInv, CheckFirst
  <2>2. m.Count \in Counts /\ m.Count \in Nat /\ m.Count < CountLimit /\ n \in Nat
    BY <1>2, <1>3, Wraps, Limits DEF MachineType, Counts
  <2>3. ~(m.Count <= n)
    BY <1>4, <2>1 DEF CheckFirst, Noticed
  <2>4. d \in Nat /\ d <= Recent /\ Recent \in Nat /\ Recent < Half /\ Half < CountLimit
        /\ CountLimit \in Nat /\ Half \in Nat
    BY DelayAssumption, Limits
  <2>5. n = m.Count + d - CountLimit
    <3>1. CASE m.Count + d < CountLimit
      <4>1. m.Count + d \in Counts
        BY <2>2, <2>4, <3>1 DEF Counts
      <4>2. n = m.Count + d
        BY <1>n, <4>1, Wraps
      <4> QED BY <2>2, <2>3, <2>4, <4>2
    <3>2. CASE ~(m.Count + d < CountLimit)
      <4> DEFINE z == m.Count + d
      <4>1. z \in Nat /\ CountLimit <= z /\ z < 2 * CountLimit
        BY <2>2, <2>4, <3>2
      <4>2. n = Wrap(z)
        BY <1>n
      <4> HIDE DEF z
      <4>3. n = z - CountLimit
        BY <4>1, <4>2, Wraps
      <4> QED BY <2>2, <2>4, <4>3 DEF z
    <3> QED BY <3>1, <3>2
  <2>6. Minus(n, m.Count) = d
    <3>1. Minus(n, m.Count) = CountLimit + n - m.Count
      BY <1>3, <2>2, <2>3, Differences
    <3> QED BY <2>2, <2>4, <2>5, <3>1
  <2>7. 1 \in DOMAIN r.q
    <3>1. k.q \in QueueType /\ Len(k.q) >= 1
      BY <1>4, <1>5, NotEmpty DEF MachineType
    <3> QED BY <2>1, <3>1 DEF QueueType
  <2>8. r.q[1].count = m.Count /\ r.Count = n
    BY <1>4, <2>1 DEF CheckFirst
  <2>9. Due(r, r.q[1]) /\ r.q[1].count > r.Count
    BY <2>2, <2>3, <2>4, <2>6, <2>8 DEF Due
  <2> QED BY <2>7, <2>9 DEF Overslept
<1>9. Fine(r)
  BY <1>7, <1>8 DEF Fine, FirstInv, Inv
<1> QED BY <1>1, <1>9, InstructionKeeps

LEMMA IdleKeeps ==
    ASSUME Inv, J_IDLE
    PROVE  Inv'
<1> DEFINE skip == Minus(m.next_interrupt, m.Count)
           n == Wrap(m.Count + (skip - (skip % 2)))
           k == [m EXCEPT !.Count = n]
<1>1. Instruction(k) /\ skip > 1
  BY DEF J_IDLE, update_count
<1>2. m \in MachineType /\ QueueOK(m, scene) /\ AtRest(m)
  BY DEF Inv, MachineInv
<1>c. m.Count \in Counts /\ m.next_interrupt \in Counts /\ m.Count \in Nat /\ m.next_interrupt \in Nat
      /\ m.Count < CountLimit /\ CountLimit \in Nat
  BY <1>2, Wraps, Limits DEF MachineType, Counts
<1>d. skip = IF m.next_interrupt >= m.Count THEN m.next_interrupt - m.Count
             ELSE CountLimit + m.next_interrupt - m.Count
  BY <1>c, Differences
<1> HIDE DEF skip
<1>e. skip \in Nat
  BY <1>c, <1>d
<1>f. skip - (skip % 2) \in Nat
  BY <1>e
<1>3. n \in Counts
  BY <1>2, <1>f, DelayedCount
<1> HIDE DEF n
<1>4. /\ k \in MachineType /\ k.q = m.q /\ k.next_interrupt = m.next_interrupt /\ Same(m, k)
  BY <1>2, <1>3 DEF MachineType, Same, SameDevices, SameProcessor
<1> HIDE DEF k
<1>5. QueueOK(k, scene) /\ AtRest(k) /\ (Pending(k) <=> Pending(m))
  BY <1>2, <1>4, SameQueueKept DEF Same, SameProcessor, AtRest, Pending, Enabled, rcp_pending
<1>6. MachineInv(k, scene)
  BY <1>4, <1>5 DEF Inv, MachineInv
<1>7. ASSUME "Save" \notin scene, ~missed PROVE ~Pending(k)
  <2> SUFFICES ASSUME Pending(k) PROVE FALSE
    OBVIOUS
  <2>1. m.next_interrupt = m.Count
    BY <1>5, <1>7 DEF Inv, FirstInv, CheckFirst
  <2> QED BY <1>1, <1>c, <1>d, <2>1
<1> QED BY <1>1, <1>6, <1>7, InstructionKeeps DEF Fine, FirstInv

LEMMA EretKeeps ==
    ASSUME Inv, ERET
    PROVE  Inv'
<1> DEFINE l == [m EXCEPT !.EXL = FALSE]
           k == check_interrupt(l)
           r == look(k)
<1>1. Instruction(r)
  BY DEF ERET
<1>2. m \in MachineType /\ MachineInv(m, scene)
  BY DEF Inv, MachineInv
<1>3. Registers(m, l)
  BY <1>2 DEF Registers, MachineType
<1> HIDE DEF l
<1>4. MachineInv(k, scene) /\ FirstInv(k)
  BY <1>2, <1>3, RegistersKeep, CheckRestores
<1> HIDE DEF k
<1>5. MachineInv(r, scene) /\ ~Pending(r)
  BY <1>4, LookTakes
<1> HIDE DEF r
<1> QED BY <1>1, <1>5, InstructionKeeps DEF Fine, FirstInv

LEMMA LooksKeeps ==
    ASSUME Inv, NEW k, MachineInv(k, scene), FirstInv(k), LooksAtQueue(k)
    PROVE  Inv'
<1>1. CASE Instruction(look(k))
  BY <1>1, LookTakes, InstructionKeeps DEF Fine, FirstInv
<1>2. CASE Instruction(look([look([k EXCEPT !.delay_slot = TRUE]) EXCEPT !.delay_slot = FALSE]))
  BY <1>2, SlotTakes, InstructionKeeps DEF Fine, FirstInv
<1> QED BY <1>1, <1>2 DEF LooksAtQueue

LEMMA StatusKeeps ==
    ASSUME Inv, NEW ie \in BOOLEAN, NEW exl \in BOOLEAN, MTC0_Status(ie, exl)
    PROVE  Inv'
<1> DEFINE l == [m EXCEPT !.IE = ie, !.EXL = exl]
           k == check_interrupt(l)
<1>1. LooksAtQueue(k)
  BY DEF MTC0_Status
<1>2. m \in MachineType /\ MachineInv(m, scene)
  BY DEF Inv, MachineInv
<1>3. Registers(m, l)
  BY <1>2 DEF Registers, MachineType
<1> HIDE DEF l
<1>4. MachineInv(k, scene) /\ FirstInv(k)
  BY <1>2, <1>3, RegistersKeep, CheckRestores
<1> HIDE DEF k
<1> QED BY <1>1, <1>4, LooksKeeps

LEMMA MaskKeeps ==
    ASSUME Inv, NEW mask \in Masks, write_mi_mask(mask)
    PROVE  Inv'
<1> DEFINE l == [m EXCEPT !.mi_intr_mask_reg = mask]
           k == check_interrupt(l)
<1>1. LooksAtQueue(k)
  BY DEF write_mi_mask
<1>2. m \in MachineType /\ MachineInv(m, scene) /\ mask \in SUBSET Sources
  BY MasksAssumption DEF Inv, MachineInv
<1>3. Registers(m, l)
  BY <1>2 DEF Registers, MachineType
<1> HIDE DEF l
<1>4. MachineInv(k, scene) /\ FirstInv(k)
  BY <1>2, <1>3, RegistersKeep, CheckRestores
<1> HIDE DEF k
<1> QED BY <1>1, <1>4, LooksKeeps

LEMMA AcknowledgedKeeps ==
    ASSUME Inv, NEW l, Registers(m, l), Acknowledged(l)
    PROVE  Inv'
<1>1. MachineInv(check_interrupt(l), scene) /\ FirstInv(check_interrupt(l))
  BY RegistersKeep, CheckRestores DEF Inv
<1> QED BY <1>1, InstructionKeeps DEF Acknowledged, Fine

LEMMA TlbKeeps ==
    ASSUME Inv, NEW slot \in BOOLEAN, TLB_refill_exception(slot)
    PROVE  Inv'
<1> DEFINE n == IF slot THEN 0 ELSE m.next_interrupt
           k == [m EXCEPT !.Cause = {}, !.EXL = TRUE, !.skip_jump = slot, !.next_interrupt = n]
           r == IF slot THEN look(k) ELSE k
<1>1. Instruction(r)
  BY DEF TLB_refill_exception
<1>2. m \in MachineType /\ QueueOK(m, scene) /\ AtRest(m)
  BY DEF Inv, MachineInv
<1>3. n \in Counts /\ (slot => n = 0)
  BY <1>2, Limits DEF MachineType, Counts
<1> HIDE DEF n
<1>4. /\ k \in MachineType /\ k.q = m.q /\ SameDevices(m, k) /\ k.skip_jump = slot
      /\ k.delay_slot = m.delay_slot /\ k.next_interrupt = n
  BY <1>2, <1>3 DEF MachineType, SameDevices
<1>5. k.EXL = TRUE
  BY <1>2 DEF MachineType
<1> HIDE DEF k
<1>6. QueueOK(k, scene) /\ ~k.delay_slot
  BY <1>2, <1>4, SameQueueKept DEF AtRest
<1>7. MachineInv(r, scene) /\ ~Pending(r)
  <2>1. CASE ~slot
    BY <1>4, <1>5, <1>6, <2>1 DEF MachineInv, AtRest, Pending, Enabled
  <2>2. CASE slot
    <3>1. Noticed(k)
      <4>1. k.Count \in Nat /\ k.next_interrupt = 0
        BY <1>3, <1>4, <2>2, Wraps DEF MachineType
      <4> QED BY <4>1 DEF Noticed
    <3> DEFINE y == [k EXCEPT !.skip_jump = FALSE]
    <3>2. /\ r \in MachineType /\ QueueOK(r, scene) /\ r.delay_slot = k.delay_slot
          /\ ~r.skip_jump /\ SameProcessor(y, r)
      BY <1>4, <1>6, <2>2, <3>1, GenEffect DEF look
    <3>3. y.EXL = k.EXL
      BY <1>4 DEF MachineType
    <3> HIDE DEF y, r
    <3>4. r.EXL
      BY <1>5, <3>2, <3>3 DEF SameProcessor
    <3> QED BY <1>6, <3>2, <3>4 DEF MachineInv, AtRest, Pending, Enabled
  <2> QED BY <2>1, <2>2
<1> HIDE DEF r
<1> QED BY <1>1, <1>7, InstructionKeeps DEF Fine, FirstInv

\* A register that the queue does not depend on, and no new interrupt.
LEMMA StoredKeeps ==
    ASSUME Inv, NEW l, Registers(m, l), Pending(l) => Pending(m), Instruction(l)
    PROVE  Inv'
<1>1. MachineInv(l, scene) /\ (FirstInv(m) => FirstInv(l))
  BY RegistersKeep DEF Inv
<1>2. Fine(l)
  BY <1>1 DEF Fine, Inv
<1> QED BY <1>2, InstructionKeeps

LEMMA UntimelyKeeps ==
    ASSUME Inv, NEW r, MachineInv(r, scene), NEW when \in BOOLEAN, Untimely(r, when),
           "Save" \in scene \/ missed \/ when \/ FirstInv(r)
    PROVE  Inv'
<1>1. m' = r /\ missed' = (missed \/ when \/ Overslept(r)) /\ scene' = scene /\ saved' = saved
  BY DEF Untimely, Leaves
<1>2. missed' \in BOOLEAN /\ (missed \/ when => missed')
  BY <1>1
<1>3. MachineInv(m', scene')
  BY <1>1
<1>4. "Save" \in scene' \/ missed' \/ FirstInv(m')
  BY <1>1, <1>2
<1> QED BY <1>1, <1>2, <1>3, <1>4 DEF Inv

\* Removing COMPARE_INT from the middle of the queue.
LEMMA RemoveCompare ==
    ASSUME NEW k, NEW s, MachineInv(k, s)
    PROVE  LET r == remove_event(k, "COMPARE_INT")
           IN  MachineInv(r, s) /\ (FirstInv(k) => FirstInv(r))
<1> DEFINE r == remove_event(k, "COMPARE_INT")
<1>0. k \in MachineType /\ QueueOK(k, s)
  BY DEF MachineInv
<1>1. /\ r \in MachineType /\ r.Count = k.Count /\ Same(k, r) /\ KeepsBut(k.q, r.q, "COMPARE_INT")
      /\ r.next_interrupt = k.next_interrupt
  BY <1>0, RemoveEventKeeps
<1>2. \/ r.q = k.q
      \/ \E p \in 1 .. Len(k.q) : k.q[p].type = "COMPARE_INT" /\ Removed(k.q, r.q, p)
  BY <1>0, RemoveEventEffect
<1> HIDE DEF r
<1>3. QueueOK(r, s)
  BY <1>0, <1>1, UncountedKept DEF Uncounted, Same
<1>4. AtRest(r) /\ (Pending(r) <=> Pending(k))
  BY <1>1 DEF MachineInv, Same, SameProcessor, AtRest, Pending, Enabled, rcp_pending
<1>5. Present(k.q, "CHECK_INT") => Present(r.q, "CHECK_INT")
  BY <1>1 DEF KeepsBut, EventTypes
<1>6. ASSUME CheckFirst(k) PROVE CheckFirst(r)
  <2>1. r.q[1] = k.q[1]
    <3>1. CASE r.q = k.q
      BY <3>1
    <3>2. CASE \E p \in 1 .. Len(k.q) : k.q[p].type = "COMPARE_INT" /\ Removed(k.q, r.q, p)
      <4>1. PICK p \in 1 .. Len(k.q) : k.q[p].type = "COMPARE_INT" /\ Removed(k.q, r.q, p)
        BY <3>2
      <4>2. p # 1
        BY <1>6, <4>1 DEF CheckFirst
      <4>3. r.q \in QueueType /\ k.q \in QueueType /\ Len(r.q) >= 1
        BY <1>0, <1>1, <1>3, NotEmpty DEF MachineType
      <4>4. Len(r.q) \in Nat /\ Len(k.q) \in Nat
        BY <4>3 DEF QueueType
      <4>5. 1 \in 1 .. Len(r.q) /\ 1 < p
        BY <4>1, <4>2, <4>3, <4>4
      <4>6. \A i \in 1 .. Len(r.q) : r.q[i] = k.q[IF i < p THEN i ELSE i + 1]
        BY <4>1 DEF Removed
      <4> QED BY <4>5, <4>6
    <3> QED BY <1>2, <3>1, <3>2
  <2> QED BY <1>1, <1>6, <2>1 DEF CheckFirst
<1> QED BY <1>1, <1>3, <1>4, <1>5, <1>6 DEF MachineInv, FirstInv, r

LEMMA CompareKeeps ==
    ASSUME Inv, NEW c \in Compares, MTC0_Compare(c)
    PROVE  Inv'
<1> DEFINE a == remove_event(m, "COMPARE_INT")
           b == add_interrupt_event_count(a, "COMPARE_INT", c)
           x == b.Cause \ {TIMER}
           r == [b EXCEPT !.Compare = c, !.Cause = x]
           when == Head(m.q).type = "COMPARE_INT"
<1>1. Untimely(r, when)
  BY DEF MTC0_Compare
<1>2. MachineInv(m, scene) /\ c \in Counts
  BY DelayAssumption DEF Inv
<1>3. MachineInv(a, scene) /\ (FirstInv(m) => FirstInv(a))
  BY <1>2, RemoveCompare
<1> HIDE DEF a
<1>4. MachineInv(b, scene) /\ (FirstInv(a) => FirstInv(b))
  BY <1>2, <1>3, AddUncounted DEF Uncounted
<1> HIDE DEF b
<1>5. x \in SUBSET {RCP, TIMER} /\ b \in MachineType
  BY <1>4 DEF MachineInv, MachineType
<1> HIDE DEF x
<1>6. Registers(b, r)
  BY <1>2, <1>5 DEF Registers, MachineType
<1>7. /\ r.mi_intr_reg = b.mi_intr_reg /\ r.mi_intr_mask_reg = b.mi_intr_mask_reg
      /\ r.IM = b.IM /\ r.IE = b.IE /\ r.EXL = b.EXL
  BY <1>5 DEF MachineType
<1> HIDE DEF r
<1>8. Pending(r) => Pending(b)
  BY <1>7 DEF Pending, Enabled, rcp_pending
<1>9. MachineInv(r, scene) /\ (FirstInv(b) => FirstInv(r))
  BY <1>4, <1>6, <1>8, RegistersKeep
<1>10. "Save" \in scene \/ missed \/ FirstInv(r)
  BY <1>3, <1>4, <1>9 DEF Inv
<1> QED BY <1>1, <1>9, <1>10, UntimelyKeeps

\* The translated queue has the same types.
LEMMA TypesKept ==
    ASSUME NEW q \in QueueType, NEW r \in QueueType, Len(r) = Len(q),
           \A i \in 1 .. Len(q) : r[i].type = q[i].type, NEW t
    PROVE  /\ Absent(q, t) => Absent(r, t)
           /\ One(q, t) => One(r, t)
           /\ Present(q, t) => Present(r, t)
  BY DEF Absent, One, Present

LEMMA CountKeeps ==
    ASSUME Inv, NEW c \in Compares, MTC0_Count(c)
    PROVE  Inv'
<1> DEFINE k == look(m)
           a == remove_event(k, "COMPARE_INT")
           b == remove_event(a, "SPECIAL_INT")
           y == [i \in DOMAIN b.q |-> Event(b.q[i].type, Wrap(Minus(b.q[i].count, b.Count) + c))]
           d == [b EXCEPT !.q = y]
           e == add_interrupt_event_count(d, "COMPARE_INT", k.Compare)
           f == add_interrupt_event_count(e, "SPECIAL_INT", 0)
           r == [f EXCEPT !.Count = c]
<1>1. Untimely(r, TRUE) /\ "Count" \in scene
  BY DEF MTC0_Count, translate_event_queue
<1>2. m \in MachineType /\ MachineInv(m, scene) /\ c \in Counts /\ c \in Nat
  BY DelayAssumption, Wraps DEF Inv, MachineInv
<1>3. MachineInv(k, scene)
  <2>1. QueueOK(m, scene) /\ ~m.skip_jump /\ ~m.delay_slot
    BY <1>2 DEF MachineInv, AtRest
  <2>2. /\ k \in MachineType /\ QueueOK(k, scene)
        /\ k.delay_slot = m.delay_slot
        /\ k.skip_jump => m.delay_slot
        /\ Pending(k) => /\ Pending(m)
                         /\ Present(m.q, "CHECK_INT") => Present(k.q, "CHECK_INT")
    BY <1>2, <2>1, LookEffect
  <2> HIDE DEF k
  <2> QED BY <1>2, <2>1, <2>2 DEF MachineInv, AtRest
<1> HIDE DEF k
<1>4. MachineInv(a, scene)
  BY <1>3, RemoveCompare
<1> HIDE DEF a
<1>5. a \in MachineType /\ QueueOK(a, scene) /\ AtRest(a) /\ (Pending(a) => Present(a.q, "CHECK_INT"))
  BY <1>4 DEF MachineInv
<1>6. /\ b \in MachineType /\ Same(a, b) /\ KeepsBut(a.q, b.q, "SPECIAL_INT")
      /\ One(a.q, "SPECIAL_INT") => Absent(b.q, "SPECIAL_INT")
  BY <1>5, RemoveEventKeeps
<1> HIDE DEF b
<1>7. b.q \in QueueType /\ b.Count \in Counts /\ DOMAIN b.q = 1 .. Len(b.q) /\ Len(b.q) \in Nat
  BY <1>6 DEF MachineType, QueueType
<1>8. ASSUME NEW i \in 1 .. Len(b.q)
      PROVE  Event(b.q[i].type, Wrap(Minus(b.q[i].count, b.Count) + c)) \in EventType
  <2>0. b.q[i] \in EventType
    BY <1>7 DEF QueueType
  <2>1. b.q[i].type \in EventTypes /\ b.q[i].count \in Counts
    BY <2>0 DEF EventType
  <2>2. Minus(b.q[i].count, b.Count) \in Nat
    <3>1. CountLimit \in Nat /\ b.q[i].count \in Nat /\ b.Count \in Nat /\ b.Count < CountLimit
      BY <1>7, <2>1, Wraps, Limits DEF Counts
    <3> QED BY <1>7, <2>1, <3>1, Differences
  <2>3. Wrap(Minus(b.q[i].count, b.Count) + c) \in Counts
    BY <1>2, <2>2, Wraps
  <2> QED BY <2>1, <2>3 DEF Event, EventType
<1>9. /\ y \in QueueType /\ Len(y) = Len(b.q)
      /\ \A i \in 1 .. Len(b.q) : y[i].type = b.q[i].type
  <2>1. y \in [1 .. Len(b.q) -> EventType]
    BY <1>7, <1>8
  <2>2. \A i \in 1 .. Len(b.q) : y[i].type = b.q[i].type
    BY <1>7 DEF Event
  <2> HIDE DEF y
  <2> QED BY <1>7, <2>1, <2>2 DEF QueueType
<1> HIDE DEF y
<1>10. d \in MachineType /\ d.q = y /\ Same(b, d)
  BY <1>6, <1>9 DEF MachineType, Same, SameDevices, SameProcessor
<1> HIDE DEF d
<1>11. \A t : /\ Absent(b.q, t) => Absent(d.q, t)
              /\ One(b.q, t) => One(d.q, t)
              /\ Present(b.q, t) => Present(d.q, t)
  BY <1>7, <1>9, <1>10, TypesKept
<1>12. "COMPARE_INT" \in EventTypes /\ "SPECIAL_INT" \in EventTypes /\ 0 \in Counts
       /\ k.Compare \in Counts
  BY <1>3, Limits DEF EventTypes, Counts, MachineInv, MachineType
<1>13. e \in MachineType /\ Same(d, e) /\ KeepsBut(d.q, e.q, "COMPARE_INT")
  BY <1>10, <1>12, AddKeeps
<1> HIDE DEF e
<1>14. /\ f \in MachineType /\ Same(e, f) /\ KeepsBut(e.q, f.q, "SPECIAL_INT")
       /\ Absent(e.q, "SPECIAL_INT") => OneAt(f.q, "SPECIAL_INT", 0)
  BY <1>12, <1>13, AddKeeps
<1> HIDE DEF f
<1>15. r \in MachineType /\ r.q = f.q /\ Same(f, r)
  BY <1>2, <1>14 DEF MachineType, Same, SameDevices, SameProcessor
<1> HIDE DEF r
<1>16. Same(a, r)
  BY <1>6, <1>10, <1>13, <1>14, <1>15 DEF Same, SameDevices, SameProcessor
<1>17. One(r.q, "SPECIAL_INT")
  <2>1. Absent(d.q, "SPECIAL_INT")
    BY <1>5, <1>6, <1>11 DEF QueueOK
  <2>2. Absent(e.q, "SPECIAL_INT")
    BY <2>1, <1>13 DEF KeepsBut, EventTypes
  <2> QED BY <2>2, <1>14, <1>15 DEF OneAt
<1>18. \A u \in {"VI_INT", "AI_INT", "PI_INT", "SI_INT", "CHECK_INT"} :
         /\ Absent(a.q, u) => Absent(r.q, u)
         /\ One(a.q, u) => One(r.q, u)
         /\ Present(a.q, u) => Present(r.q, u)
  <2> SUFFICES ASSUME NEW u \in {"VI_INT", "AI_INT", "PI_INT", "SI_INT", "CHECK_INT"}
               PROVE  /\ Absent(a.q, u) => Absent(r.q, u)
                      /\ One(a.q, u) => One(r.q, u)
                      /\ Present(a.q, u) => Present(r.q, u)
    OBVIOUS
  <2>1. u \in EventTypes \ {"SPECIAL_INT"} /\ u \in EventTypes \ {"COMPARE_INT"}
    BY DEF EventTypes
  <2> QED BY <2>1, <1>6, <1>11, <1>13, <1>14, <1>15 DEF KeepsBut
<1>19. QueueOK(r, scene)
  BY <1>1, <1>5, <1>16, <1>17, <1>18 DEF QueueOK, Same, SameDevices
<1>20. AtRest(r) /\ (Pending(r) <=> Pending(a))
  BY <1>5, <1>16 DEF Same, SameProcessor, AtRest, Pending, Enabled, rcp_pending
<1>21. MachineInv(r, scene)
  BY <1>5, <1>15, <1>18, <1>19, <1>20 DEF MachineInv
<1> QED BY <1>1, <1>21, UntimelyKeeps

-----------------------------------------------------------------------------
(* The registers of the devices                                            *)

LEMMA LowersRegisters ==
    ASSUME NEW k \in MachineType, NEW source \in Sources
    PROVE  Registers(k, lower(k, source)) /\ Registers(k, raise(k, source))
<1> DEFINE x == k.mi_intr_reg \ {source}
           y == k.mi_intr_reg \cup {source}
<1>1. x \in SUBSET Sources /\ y \in SUBSET Sources
  BY DEF MachineType
<1>2. /\ lower(k, source) = [k EXCEPT !.mi_intr_reg = x]
      /\ raise(k, source) = [k EXCEPT !.mi_intr_reg = y]
  BY DEF lower, raise
<1> HIDE DEF x, y
<1> QED BY <1>1, <1>2 DEF MachineType, Registers

\* The writes that acknowledge an interrupt, or set one.
LEMMA AcknowledgesKeep ==
    ASSUME Inv,
           \/ write_mi_mode \/ write_vi_current \/ write_ai_status \/ write_si_status
           \/ write_dp_end
           \/ \E clear \in BOOLEAN : write_pi_status(clear)
           \/ \E on \in BOOLEAN : write_sp_interrupt(on)
    PROVE  Inv'
<1>1. m \in MachineType
  BY DEF Inv, MachineInv
<1>2. "VI" \in Sources /\ "AI" \in Sources /\ "SI" \in Sources /\ "DP" \in Sources
      /\ "PI" \in Sources /\ "SP" \in Sources
  BY DEF Sources
<1>3. CASE write_mi_mode
  BY <1>1, <1>2, <1>3, LowersRegisters, AcknowledgedKeeps DEF write_mi_mode
<1>4. CASE write_vi_current
  BY <1>1, <1>2, <1>4, LowersRegisters, AcknowledgedKeeps DEF write_vi_current
<1>5. CASE write_ai_status
  BY <1>1, <1>2, <1>5, LowersRegisters, AcknowledgedKeeps DEF write_ai_status
<1>6. CASE write_si_status
  <2> DEFINE k == lower(m, "SI")
             l == [k EXCEPT !.si_status = FALSE]
  <2>1. Registers(m, k)
    BY <1>1, <1>2, LowersRegisters
  <2>2. Acknowledged(l)
    BY <1>6 DEF write_si_status
  <2> HIDE DEF k
  <2>3. Registers(k, l)
    BY <2>1 DEF Registers, MachineType
  <2> HIDE DEF l
  <2>4. Registers(m, l)
    BY <2>1, <2>3 DEF Registers
  <2> QED BY <2>2, <2>4, AcknowledgedKeeps
<1>7. CASE write_dp_end
  BY <1>1, <1>2, <1>7, LowersRegisters, AcknowledgedKeeps DEF write_dp_end
<1>8. CASE \E clear \in BOOLEAN : write_pi_status(clear)
  <2>1. PICK clear \in BOOLEAN : write_pi_status(clear)
    BY <1>8
  <2>2. Registers(m, m)
    BY <1>1 DEF Registers
  <2>3. Registers(m, IF clear THEN lower(m, "PI") ELSE m)
    BY <1>1, <1>2, <2>2, LowersRegisters
  <2> QED BY <2>1, <2>3, AcknowledgedKeeps DEF write_pi_status
<1>9. CASE \E on \in BOOLEAN : write_sp_interrupt(on)
  <2>1. PICK on \in BOOLEAN : write_sp_interrupt(on)
    BY <1>9
  <2>2. Registers(m, IF on THEN raise(m, "SP") ELSE lower(m, "SP"))
    BY <1>1, <1>2, LowersRegisters
  <2> QED BY <2>1, <2>2, AcknowledgedKeeps DEF write_sp_interrupt
<1> QED BY <1>3, <1>4, <1>5, <1>6, <1>7, <1>8, <1>9

LEMMA VSyncKeeps ==
    ASSUME Inv, write_vi_v_sync
    PROVE  Inv'
<1> DEFINE l == [m EXCEPT !.v_sync = ~m.v_sync]
<1>1. m \in MachineType
  BY DEF Inv, MachineInv
<1>2. Registers(m, l)
  BY <1>1 DEF Registers, MachineType
<1>3. /\ l.mi_intr_reg = m.mi_intr_reg /\ l.mi_intr_mask_reg = m.mi_intr_mask_reg
      /\ l.IM = m.IM /\ l.IE = m.IE /\ l.EXL = m.EXL
  BY <1>1 DEF MachineType
<1>4. Instruction(l)
  BY DEF write_vi_v_sync, Stored
<1> HIDE DEF l
<1> QED BY <1>2, <1>3, <1>4, StoredKeeps DEF Pending, Enabled, rcp_pending

LEMMA IntrBreakKeeps ==
    ASSUME Inv, NEW on \in BOOLEAN, write_sp_intr_break(on)
    PROVE  Inv'
<1> DEFINE l == [m EXCEPT !.sp_intr_break = on]
<1>1. m \in MachineType
  BY DEF Inv, MachineInv
<1>2. Registers(m, l)
  BY <1>1 DEF Registers, MachineType
<1>3. /\ l.mi_intr_reg = m.mi_intr_reg /\ l.mi_intr_mask_reg = m.mi_intr_mask_reg
      /\ l.IM = m.IM /\ l.IE = m.IE /\ l.EXL = m.EXL
  BY <1>1 DEF MachineType
<1>4. Instruction(l)
  BY DEF write_sp_intr_break, Stored
<1> HIDE DEF l
<1> QED BY <1>2, <1>3, <1>4, StoredKeeps DEF Pending, Enabled, rcp_pending

\* dma_pi: the device becomes busy and its event is queued.
LEMMA PiKeeps ==
    ASSUME Inv, dma_pi
    PROVE  Inv'
<1> DEFINE l == [m EXCEPT !.pi_busy = TRUE]
           n == Wrap(l.Count + PiDelay)
           r == add_interrupt_event_count(l, "PI_INT", n)
<1>1. Instruction(r) /\ ~Queued(m, "PI_INT")
  BY DEF dma_pi, Stored, Free, add_interrupt_event
<1>2. m \in MachineType /\ QueueOK(m, scene) /\ AtRest(m)
  BY DEF Inv, MachineInv
<1>3. Absent(m.q, "PI_INT") /\ Len(m.q) >= 1
  BY <1>1, <1>2, QueuedMeans, NotEmpty
<1>4. /\ l \in MachineType /\ l.q = m.q /\ l.Count = m.Count
      /\ l.next_interrupt = m.next_interrupt /\ SameProcessor(m, l)
      /\ l.ai_busy = m.ai_busy /\ l.ai_full = m.ai_full /\ l.next_vi = m.next_vi
  BY <1>2 DEF MachineType, SameProcessor
<1>5. l.pi_busy = TRUE
  BY <1>2 DEF MachineType
<1> HIDE DEF l
<1>6. n \in Counts /\ "PI_INT" \in EventTypes
  BY <1>4, DelayedCount, DelaysAreNat DEF EventTypes
<1> HIDE DEF n
<1>7. /\ r \in MachineType /\ Same(l, r) /\ KeepsBut(l.q, r.q, "PI_INT")
      /\ OneAt(r.q, "PI_INT", n)
  BY <1>3, <1>4, <1>6, AddKeeps
<1>8. /\ AtRest(l) => AtRest(r)
      /\ Pending(r) <=> Pending(l)
      /\ Present(l.q, "CHECK_INT") => Present(r.q, "CHECK_INT")
      /\ FirstInv(l) => FirstInv(r)
  BY <1>3, <1>4, <1>6, AddRest
<1> HIDE DEF r
<1>9. AtRest(l) /\ (Pending(l) <=> Pending(m)) /\ (FirstInv(m) => FirstInv(l))
  BY <1>2, <1>4 DEF SameProcessor, AtRest, Pending, Enabled, rcp_pending, FirstInv, CheckFirst
<1>10. \A u \in {"SPECIAL_INT", "VI_INT", "AI_INT", "SI_INT"} : u \in EventTypes \ {"PI_INT"}
  BY DEF EventTypes
<1>11. One(r.q, "PI_INT") /\ r.pi_busy
  BY <1>5, <1>7 DEF OneAt, Same, SameDevices
<1>12. r.ai_busy = m.ai_busy /\ r.ai_full = m.ai_full /\ r.next_vi = m.next_vi
  BY <1>4, <1>7 DEF Same, SameDevices
<1>13. QueueOK(r, scene)
  BY <1>2, <1>4, <1>7, <1>10, <1>11, <1>12 DEF QueueOK, KeepsBut
<1>14. MachineInv(r, scene)
  BY <1>4, <1>7, <1>8, <1>9, <1>13 DEF Inv, MachineInv
<1>15. Fine(r)
  BY <1>8, <1>9, <1>14 DEF Fine, Inv
<1> QED BY <1>1, <1>15, InstructionKeeps

\* write_ai: a buffer is played, or waits.
LEMMA AiKeeps ==
    ASSUME Inv, NEW delay \in AiDelays, write_ai_len(delay)
    PROVE  Inv'
<1>d. delay \in Nat
  BY DelaysAreNat
<1>2. m \in MachineType /\ QueueOK(m, scene) /\ AtRest(m) /\ MachineInv(m, scene)
  BY DEF Inv, MachineInv
<1>3. CASE m.ai_busy
  <2> DEFINE l == [m EXCEPT !.ai_next = delay, !.ai_full = TRUE]
  <2>1. Instruction(l)
    BY <1>3 DEF write_ai_len, Stored
  <2>2. /\ l \in MachineType /\ l.q = m.q /\ l.Count = m.Count
        /\ l.next_interrupt = m.next_interrupt /\ SameProcessor(m, l)
        /\ l.ai_busy = m.ai_busy /\ l.pi_busy = m.pi_busy /\ l.next_vi = m.next_vi
    BY <1>d, <1>2 DEF MachineType, SameProcessor
  <2> HIDE DEF l
  <2>3. QueueOK(l, scene)
    BY <1>2, <1>3, <2>2 DEF QueueOK
  <2>4. AtRest(l) /\ (Pending(l) <=> Pending(m)) /\ (FirstInv(m) => FirstInv(l))
    BY <1>2, <2>2 DEF SameProcessor, AtRest, Pending, Enabled, rcp_pending, FirstInv, CheckFirst
  <2>5. Fine(l)
    BY <2>2, <2>3, <2>4 DEF Fine, Inv, MachineInv
  <2> QED BY <2>1, <2>5, InstructionKeeps
<1>4. CASE ~m.ai_busy
  <2> DEFINE n == Wrap(m.Count + delay)
             a == add_interrupt_event_count(m, "AI_INT", n)
             r == [a EXCEPT !.ai_delay = delay, !.ai_busy = TRUE]
  <2>1. Instruction(r)
    BY <1>4 DEF write_ai_len, Stored, add_interrupt_event
  <2>2. n \in Counts /\ "AI_INT" \in EventTypes
    BY <1>2, <1>d, DelayedCount DEF EventTypes
  <2> HIDE DEF n
  <2>3. Absent(m.q, "AI_INT") /\ Len(m.q) >= 1 /\ ~m.ai_full
    BY <1>2, <1>4, NotEmpty DEF QueueOK
  <2>4. /\ a \in MachineType /\ Same(m, a) /\ KeepsBut(m.q, a.q, "AI_INT")
        /\ OneAt(a.q, "AI_INT", n)
    BY <1>2, <2>2, <2>3, AddKeeps
  <2>5. /\ AtRest(m) => AtRest(a)
        /\ Pending(a) <=> Pending(m)
        /\ Present(m.q, "CHECK_INT") => Present(a.q, "CHECK_INT")
        /\ FirstInv(m) => FirstInv(a)
    BY <1>2, <2>2, <2>3, AddRest
  <2> HIDE DEF a
  <2>6. /\ r \in MachineType /\ r.q = a.q /\ r.Count = a.Count
        /\ r.next_interrupt = a.next_interrupt /\ SameProcessor(a, r)
        /\ r.ai_full = a.ai_full /\ r.pi_busy = a.pi_busy /\ r.next_vi = a.next_vi
    BY <1>d, <2>4 DEF MachineType, SameProcessor
  <2>7. r.ai_busy = TRUE
    BY <2>4 DEF MachineType
  <2> HIDE DEF r
  <2>8. AtRest(r) /\ (Pending(r) <=> Pending(a)) /\ (FirstInv(a) => FirstInv(r))
    BY <1>2, <2>5, <2>6 DEF SameProcessor, AtRest, Pending, Enabled, rcp_pending, FirstInv, CheckFirst
  <2>9. \A u \in {"SPECIAL_INT", "VI_INT", "PI_INT", "SI_INT"} : u \in EventTypes \ {"AI_INT"}
    BY DEF EventTypes
  <2>10. One(r.q, "AI_INT") /\ r.pi_busy = m.pi_busy /\ r.next_vi = m.next_vi
    BY <2>4, <2>6 DEF OneAt, Same, SameDevices
  <2>11. QueueOK(r, scene)
    BY <1>2, <2>4, <2>6, <2>7, <2>9, <2>10 DEF QueueOK, KeepsBut
  <2>12. MachineInv(r, scene)
    BY <1>2, <2>5, <2>6, <2>8, <2>11 DEF MachineInv
  <2>13. Fine(r)
    BY <2>5, <2>8, <2>12 DEF Fine, Inv
  <2> QED BY <2>1, <2>13, InstructionKeeps
<1> QED BY <1>3, <1>4

LEMMA SiKeeps ==
    ASSUME Inv, dma_si
    PROVE  Inv'
<1> DEFINE n == Wrap(m.Count + SiDelay)
           r == add_interrupt_event_count(m, "SI_INT", n)
<1>1. Instruction(r) /\ ~Queued(m, "SI_INT")
  BY DEF dma_si, Stored, Free, add_interrupt_event
<1>2. m \in MachineType /\ MachineInv(m, scene)
  BY DEF Inv, MachineInv
<1>3. Absent(m.q, "SI_INT") /\ n \in Counts
  BY <1>1, <1>2, QueuedMeans, DelayedCount, DelaysAreNat
<1> HIDE DEF n
<1>4. MachineInv(r, scene) /\ (FirstInv(m) => FirstInv(r))
  BY <1>2, <1>3, AddSi
<1>5. Fine(r)
  BY <1>4 DEF Fine, Inv
<1> QED BY <1>1, <1>5, InstructionKeeps

\* A task of the RSP, of graphics or of another kind.
LEMMA TaskKeeps ==
    ASSUME Inv, NEW graphics \in BOOLEAN, start_task(graphics)
    PROVE  Inv'
<1> DEFINE x == m.mi_intr_reg \ (IF graphics THEN {"SP", "DP"} ELSE {"SP"})
           l == [m EXCEPT !.sp_halt = FALSE, !.sp_broke = FALSE, !.mi_intr_reg = x]
           n == Wrap(l.Count + SpDelay)
           a == add_interrupt_event_count(l, "SP_INT", n)
           o == Wrap(a.Count + SpDelay)
           b == add_interrupt_event_count(a, "DP_INT", o)
           r == IF graphics THEN b ELSE a
<1>1. Instruction(r)
  BY DEF start_task, Stored, add_interrupt_event
<1>2. m \in MachineType /\ MachineInv(m, scene)
  BY DEF Inv, MachineInv
<1>3. x \in SUBSET Sources /\ x \subseteq m.mi_intr_reg
  BY <1>2 DEF MachineType
<1> HIDE DEF x
<1>4. Registers(m, l)
  BY <1>2, <1>3 DEF Registers, MachineType
<1>5. /\ l.mi_intr_reg = x /\ l.mi_intr_mask_reg = m.mi_intr_mask_reg
      /\ l.IM = m.IM /\ l.IE = m.IE /\ l.EXL = m.EXL
  BY <1>2 DEF MachineType
<1> HIDE DEF l
<1>6. Pending(l) => Pending(m)
  BY <1>3, <1>5 DEF Pending, Enabled, rcp_pending
<1>7. MachineInv(l, scene) /\ (FirstInv(m) => FirstInv(l))
  BY <1>2, <1>4, <1>6, RegistersKeep
<1>8. n \in Counts
  BY <1>4, DelayedCount, DelaysAreNat DEF Registers
<1> HIDE DEF n
<1>9. MachineInv(a, scene) /\ (FirstInv(l) => FirstInv(a))
  BY <1>7, <1>8, AddUncounted DEF Uncounted
<1> HIDE DEF a
<1>10. o \in Counts
  BY <1>9, DelayedCount, DelaysAreNat DEF MachineInv
<1> HIDE DEF o
<1>11. MachineInv(b, scene) /\ (FirstInv(a) => FirstInv(b))
  BY <1>9, <1>10, AddUncounted DEF Uncounted
<1> HIDE DEF b
<1>12. Fine(r)
  BY <1>7, <1>9, <1>11 DEF Fine, Inv
<1> QED BY <1>1, <1>12, InstructionKeeps

-----------------------------------------------------------------------------
(* Savestates                                                              *)

\* f inserts the first n saved events one by one.
Loads(f, k, q, n) ==
    /\ f \in [0 .. n -> MachineType]
    /\ f[0] = [k EXCEPT !.q = << >>]
    /\ \A i \in 1 .. n : f[i] = add_interrupt_event_count(f[i - 1], q[i].type, q[i].count)

LEMMA LoadsExist ==
    ASSUME NEW k \in MachineType, NEW q \in QueueType
    PROVE  \E f : Loads(f, k, q, Len(q))
<1> DEFINE N == Len(q)
           P(n) == \E f : Loads(f, k, q, n)
           T == {n \in 0 .. N : ~P(n)}
<1>0. N \in Nat /\ \A i \in 1 .. N : q[i].type \in EventTypes /\ q[i].count \in Counts
  <2>1. N \in Nat /\ \A i \in 1 .. N : q[i] \in EventType
    BY DEF QueueType
  <2> QED BY <2>1 DEF EventType
<1> HIDE DEF N
<1>1. P(0)
  <2> DEFINE a == [k EXCEPT !.q = << >>]
             f == [i \in 0 .. 0 |-> a]
  <2>e. << >> \in QueueType
    BY DEF QueueType
  <2>1. a \in MachineType
    BY <2>e DEF MachineType
  <2> HIDE DEF a
  <2>2. f \in [0 .. 0 -> MachineType] /\ f[0] = a /\ \A i \in 1 .. 0 : FALSE
    BY <2>1
  <2>3. Loads(f, k, q, 0)
    BY <2>2 DEF Loads, a
  <2> QED BY <2>3
<1>2. ASSUME NEW n \in 1 .. N, P(n - 1) PROVE P(n)
  <2>1. PICK f : Loads(f, k, q, n - 1)
    BY <1>2
  <2> DEFINE x == add_interrupt_event_count(f[n - 1], q[n].type, q[n].count)
             g == [i \in 0 .. n |-> IF i < n THEN f[i] ELSE x]
  <2>2. n \in Nat /\ n >= 1 /\ n <= N /\ n - 1 \in 0 .. n - 1
    BY <1>0
  <2>3. f[n - 1] \in MachineType
    BY <2>1, <2>2 DEF Loads
  <2>4. x \in MachineType
    BY <1>0, <2>3, AddKeeps
  <2>5. g \in [0 .. n -> MachineType]
    <3>1. \A i \in 0 .. n : i < n => f[i] \in MachineType
      BY <2>1, <2>2 DEF Loads
    <3> HIDE DEF x
    <3> QED BY <2>4, <3>1
  <2>6. g[0] = [k EXCEPT !.q = << >>]
    BY <2>1, <2>2 DEF Loads
  <2>7. ASSUME NEW i \in 1 .. n
        PROVE  g[i] = add_interrupt_event_count(g[i - 1], q[i].type, q[i].count)
    <3>1. i - 1 \in 0 .. n /\ i \in 0 .. n /\ i - 1 < n
      BY <2>2
    <3>2. g[i - 1] = f[i - 1]
      BY <3>1
    <3>3. CASE i < n
      <4>1. g[i] = f[i] /\ i \in 1 .. n - 1
        BY <2>2, <3>1, <3>3
      <4> HIDE DEF g
      <4> QED BY <2>1, <3>2, <4>1 DEF Loads
    <3>4. CASE ~(i < n)
      <4>1. i = n /\ g[i] = x
        BY <2>2, <3>1, <3>4
      <4> HIDE DEF g
      <4> QED BY <3>2, <4>1
    <3> QED BY <3>3, <3>4
  <2> HIDE DEF g
  <2>8. Loads(g, k, q, n)
    BY <2>5, <2>6, <2>7 DEF Loads
  <2> QED BY <2>8
<1> HIDE DEF P
<1>3. T = {}
  <2> SUFFICES ASSUME T # {} PROVE FALSE
    OBVIOUS
  <2>1. T \in SUBSET Nat
    BY <1>0
  <2>2. PICK x \in T : \A y \in T : x <= y
    BY <2>1, NatMin
  <2>3. x \in 0 .. N /\ x # 0 /\ ~P(x)
    BY <1>1, <2>2
  <2>4. x \in 1 .. N /\ x - 1 \in 0 .. N /\ ~(x <= x - 1)
    BY <1>0, <2>3
  <2>5. P(x - 1)
    BY <2>2, <2>4
  <2> QED BY <1>2, <2>3, <2>4, <2>5
<1>4. P(N)
  BY <1>0, <1>3
<1> QED BY <1>4 DEF P, N

\* The rebuilt queue has the saved events, in whatever order.
LEMMA LoadKeeps ==
    ASSUME NEW k \in MachineType, NEW q \in QueueType
    PROVE  LET r == load_eventqueue_infos(k, q)
           IN  /\ r \in MachineType
               /\ \A u \in EventTypes :
                    /\ Absent(q, u) => Absent(r.q, u)
                    /\ One(q, u) => One(r.q, u)
                    /\ \A c : OneAt(q, u, c) => OneAt(r.q, u, c)
                    /\ Present(q, u) => Present(r.q, u)
<1> DEFINE N == Len(q)
           F(f) == [n \in 0 .. N |->
                      IF n = 0 THEN [k EXCEPT !.q = << >>]
                      ELSE add_interrupt_event_count(f[n - 1], q[n].type, q[n].count)]
           f == CHOOSE g : g = F(g)
<1>0. N \in Nat /\ \A i \in 1 .. N : q[i].type \in EventTypes /\ q[i].count \in Counts
  <2>1. N \in Nat /\ \A i \in 1 .. N : q[i] \in EventType
    BY DEF QueueType
  <2> QED BY <2>1 DEF EventType
<1>1. load_eventqueue_infos(k, q) = f[N]
  BY DEF load_eventqueue_infos
<1> HIDE DEF F
<1>2. \E g : g = F(g)
  <2>1. PICK g : Loads(g, k, q, N)
    BY LoadsExist
  <2>2. ASSUME NEW n \in 0 .. N
        PROVE  g[n] = IF n = 0 THEN [k EXCEPT !.q = << >>]
                      ELSE add_interrupt_event_count(g[n - 1], q[n].type, q[n].count)
    <3>1. n = 0 \/ n \in 1 .. N
      BY <1>0
    <3> QED BY <2>1, <3>1 DEF Loads
  <2>3. g = [n \in 0 .. N |-> g[n]]
    BY <2>1 DEF Loads
  <2>4. g = F(g)
    BY <2>2, <2>3 DEF F
  <2> QED BY <2>4
<1>3. f = F(f)
  BY <1>2
<1> HIDE DEF f
<1>4. /\ f[0] = [k EXCEPT !.q = << >>]
      /\ \A n \in 1 .. N : f[n] = add_interrupt_event_count(f[n - 1], q[n].type, q[n].count)
  <2>1. f = [n \in 0 .. N |->
               IF n = 0 THEN [k EXCEPT !.q = << >>]
               ELSE add_interrupt_event_count(f[n - 1], q[n].type, q[n].count)]
    BY <1>3 DEF F
  <2>2. \A n \in 0 .. N : f[n] = IF n = 0 THEN [k EXCEPT !.q = << >>]
                        ELSE add_interrupt_event_count(f[n - 1], q[n].type, q[n].count)
    BY <2>1
  <2>3. 0 \in 0 .. N /\ \A n \in 1 .. N : n \in 0 .. N /\ n # 0
    BY <1>0
  <2> QED BY <2>2, <2>3
<1> HIDE DEF N
<1> DEFINE Has(n, u) ==
              /\ (\A i \in 1 .. n : q[i].type # u) => Absent(f[n].q, u)
              /\ \A i \in 1 .. n :
                    q[i].type = u /\ (\A j \in 1 .. n : q[j].type = u => j = i)
                      => OneAt(f[n].q, u, q[i].count)
              /\ \A i \in 1 .. n : q[i].type = u => Present(f[n].q, u)
           K(n) == f[n] \in MachineType /\ \A u \in EventTypes : Has(n, u)
           T == {n \in 0 .. N : ~K(n)}
<1>5. K(0)
  <2>1. << >> \in QueueType /\ Len(<< >>) = 0
    BY DEF QueueType
  <2>2. f[0] \in MachineType /\ f[0].q = << >>
    BY <1>4, <2>1 DEF MachineType
  <2>3. ASSUME NEW u \in EventTypes PROVE Has(0, u)
    BY <2>1, <2>2 DEF Absent
  <2> QED BY <2>2, <2>3
<1>6. ASSUME NEW n \in 1 .. N, K(n - 1) PROVE K(n)
  <2> DEFINE a == f[n - 1]
             r == f[n]
             t == q[n].type
             c == q[n].count
  <2>0. n \in Nat /\ n >= 1 /\ n <= N /\ t \in EventTypes /\ c \in Counts /\ n \in 1 .. n
        /\ \A i \in 1 .. n : i = n \/ i \in 1 .. n - 1
    BY <1>0
  <2>i. \A i \in 1 .. n - 1 : i \in 1 .. n /\ i # n
    BY <2>0
  <2>1. a \in MachineType /\ r = add_interrupt_event_count(a, t, c)
    BY <1>4, <1>6
  <2>h. \A u \in EventTypes : Has(n - 1, u)
    BY <1>6
  <2>2. /\ r \in MachineType /\ KeepsBut(a.q, r.q, t)
        /\ Absent(a.q, t) => OneAt(r.q, t, c)
        /\ Present(r.q, t)
    BY <2>0, <2>1, AddKeeps
  <2>3. ASSUME NEW u \in EventTypes PROVE Has(n, u)
    <3>h. /\ (\A i \in 1 .. n - 1 : q[i].type # u) => Absent(a.q, u)
          /\ \A i \in 1 .. n - 1 :
                q[i].type = u /\ (\A j \in 1 .. n - 1 : q[j].type = u => j = i)
                  => OneAt(a.q, u, q[i].count)
          /\ \A i \in 1 .. n - 1 : q[i].type = u => Present(a.q, u)
      BY <2>h
    <3> HIDE DEF Has, a, r, t, c
    <3>1. CASE u # t
      <4>0. /\ Absent(a.q, u) => Absent(r.q, u)
            /\ \A d : OneAt(a.q, u, d) => OneAt(r.q, u, d)
            /\ Present(a.q, u) => Present(r.q, u)
        BY <2>2, <3>1 DEF KeepsBut
      <4>1. ASSUME \A i \in 1 .. n : q[i].type # u PROVE Absent(r.q, u)
        BY <2>i, <3>h, <4>0, <4>1
      <4>2. ASSUME NEW i \in 1 .. n, q[i].type = u, \A j \in 1 .. n : q[j].type = u => j = i
            PROVE  OneAt(r.q, u, q[i].count)
        <5>1. i # n
          BY <3>1, <4>2 DEF t
        <5>2. i \in 1 .. n - 1 /\ \A j \in 1 .. n - 1 : q[j].type = u => j = i
          BY <2>0, <2>i, <4>2, <5>1
        <5> QED BY <3>h, <4>0, <4>2, <5>2
      <4>3. ASSUME NEW i \in 1 .. n, q[i].type = u PROVE Present(r.q, u)
        <5>1. i # n
          BY <3>1, <4>3 DEF t
        <5> QED BY <2>0, <3>h, <4>0, <4>3, <5>1
      <4> QED BY <4>1, <4>2, <4>3 DEF Has, r
    <3>2. CASE u = t
      <4>1. ~(\A i \in 1 .. n : q[i].type # u)
        BY <2>0, <3>2 DEF t
      <4>2. ASSUME NEW i \in 1 .. n, q[i].type = u, \A j \in 1 .. n : q[j].type = u => j = i
            PROVE  OneAt(r.q, u, q[i].count)
        <5>1. i = n
          BY <2>0, <3>2, <4>2 DEF t
        <5>2. \A j \in 1 .. n - 1 : q[j].type # u
          BY <2>i, <4>2, <5>1
        <5> QED BY <2>2, <3>h, <3>2, <5>1, <5>2 DEF c
      <4>3. Present(r.q, u)
        BY <2>2, <3>2
      <4> QED BY <4>1, <4>2, <4>3 DEF Has, r
    <3> QED BY <3>1, <3>2
  <2> QED BY <2>2, <2>3
<1> HIDE DEF K
<1>7. T = {}
  <2> SUFFICES ASSUME T # {} PROVE FALSE
    OBVIOUS
  <2>1. T \in SUBSET Nat
    BY <1>0 DEF N
  <2>2. PICK x \in T : \A y \in T : x <= y
    BY <2>1, NatMin
  <2>3. x \in 0 .. N /\ x # 0 /\ ~K(x) /\ N \in Nat
    BY <1>0, <1>5, <2>2
  <2>4. x \in 1 .. N /\ x - 1 \in 0 .. N /\ ~(x <= x - 1)
    BY <2>3
  <2>5. K(x - 1)
    BY <2>2, <2>4
  <2> QED BY <1>6, <2>3, <2>4, <2>5
<1>8. K(N)
  BY <1>0, <1>7
<1> DEFINE r == f[N]
<1>9. r \in MachineType /\ \A u \in EventTypes : Has(N, u)
  BY <1>8 DEF K
<1>10. ASSUME NEW u \in EventTypes
       PROVE  /\ Absent(q, u) => Absent(r.q, u)
              /\ One(q, u) => One(r.q, u)
              /\ \A c : OneAt(q, u, c) => OneAt(r.q, u, c)
              /\ Present(q, u) => Present(r.q, u)
  <2>1. /\ (\A i \in 1 .. N : q[i].type # u) => Absent(r.q, u)
        /\ \A i \in 1 .. N :
              q[i].type = u /\ (\A j \in 1 .. N : q[j].type = u => j = i)
                => OneAt(r.q, u, q[i].count)
        /\ \A i \in 1 .. N : q[i].type = u => Present(r.q, u)
    BY <1>9
  <2> HIDE DEF r
  <2>2. Absent(q, u) => Absent(r.q, u)
    BY <2>1 DEF Absent, N
  <2>3. One(q, u) => \E i \in 1 .. N : q[i].type = u /\ OneAt(r.q, u, q[i].count)
    BY <2>1 DEF One, N
  <2>4. One(q, u) => One(r.q, u)
    BY <2>3 DEF OneAt
  <2>5. ASSUME NEW c, OneAt(q, u, c) PROVE OneAt(r.q, u, c)
    BY <2>3, <2>5 DEF OneAt, N
  <2>6. Present(q, u) => Present(r.q, u)
    BY <2>1 DEF Present, N
  <2> QED BY <2>2, <2>4, <2>5, <2>6
<1> HIDE DEF r
<1> QED BY <1>1, <1>9, <1>10 DEF r

\* generate_savestate: no SI_INT is in the savestate.
LEMMA SaveKeeps ==
    ASSUME Inv, save
    PROVE  Inv'
<1> DEFINE n == Wrap(m.Count + SiDelay)
           r == add_interrupt_event_count(m, "SI_INT", n)
<1>1. /\ "Save" \in scene /\ ~Queued(m, "SI_INT") /\ saved' = m
      /\ m' = r /\ missed' = (missed \/ Overslept(r)) /\ scene' = scene
  BY DEF save, Free, becomes, add_interrupt_event
<1>2. m \in MachineType /\ MachineInv(m, scene)
  BY DEF Inv, MachineInv
<1>3. Absent(m.q, "SI_INT") /\ n \in Counts
  BY <1>1, <1>2, QueuedMeans, DelayedCount, DelaysAreNat
<1> HIDE DEF n
<1>4. MachineInv(r, scene)
  BY <1>2, <1>3, AddSi
<1> HIDE DEF r
<1>5. missed' \in BOOLEAN
  BY <1>1
<1>6. MachineInv(m', scene')
  BY <1>1, <1>4
<1>7. MachineInv(saved', scene') /\ Absent(saved'.q, "SI_INT") /\ "Save" \in scene'
  BY <1>1, <1>2, <1>3
<1> QED BY <1>5, <1>6, <1>7 DEF Inv

\* savestates_load_immediate_impl: the registers and the rebuilt queue agree,
\* since every saved event is queued again, whatever the order.
LEMMA LoadedStateKeeps ==
    ASSUME Inv, load
    PROVE  Inv'
<1> DEFINE queue == load_eventqueue_infos(m, saved.q)
           k == [saved EXCEPT !.q = queue.q, !.SPECIAL_done = queue.SPECIAL_done,
                              !.skip_jump = m.skip_jump]
           n == Wrap(k.Count + SiDelay)
           r == add_interrupt_event_count(k, "SI_INT", n)
<1>1. m \in MachineType /\ MachineInv(m, scene) /\ AtRest(m)
  BY DEF Inv, MachineInv
<1>2. MachineInv(saved, scene) /\ Absent(saved.q, "SI_INT") /\ saved \in MachineType
      /\ saved.q \in QueueType
  BY DEF Inv, MachineInv, MachineType, load
<1>3. /\ queue \in MachineType
      /\ \A u \in EventTypes :
            /\ Absent(saved.q, u) => Absent(queue.q, u)
            /\ One(saved.q, u) => One(queue.q, u)
            /\ \A c : OneAt(saved.q, u, c) => OneAt(queue.q, u, c)
            /\ Present(saved.q, u) => Present(queue.q, u)
  BY <1>1, <1>2, LoadKeeps
<1>4. /\ "Save" \in scene /\ scene' = scene /\ saved' = saved
      /\ get_event(k, "SI_INT") = 0 => m' = r /\ missed' = (missed \/ Overslept(r))
  BY DEF load, becomes, add_interrupt_event
<1> HIDE DEF queue
<1>5. queue.q \in QueueType /\ queue.SPECIAL_done \in BOOLEAN /\ m.skip_jump \in BOOLEAN
  BY <1>1, <1>3 DEF MachineType
<1>6. /\ k \in MachineType /\ k.q = queue.q /\ SameDevices(saved, k)
      /\ k.skip_jump = m.skip_jump /\ k.delay_slot = saved.delay_slot
      /\ k.mi_intr_reg = saved.mi_intr_reg /\ k.mi_intr_mask_reg = saved.mi_intr_mask_reg
      /\ k.IM = saved.IM /\ k.IE = saved.IE /\ k.EXL = saved.EXL
  BY <1>2, <1>5 DEF MachineType, SameDevices
<1> HIDE DEF k
<1>7. \A u \in {"SPECIAL_INT", "VI_INT", "AI_INT", "PI_INT", "SI_INT", "CHECK_INT"} : u \in EventTypes
  BY DEF EventTypes
<1>8. QueueOK(k, scene)
  BY <1>2, <1>3, <1>6, <1>7 DEF MachineInv, QueueOK, SameDevices
<1>9. AtRest(k)
  BY <1>1, <1>2, <1>6 DEF MachineInv, AtRest
<1>10. Pending(k) => Present(k.q, "CHECK_INT")
  BY <1>2, <1>3, <1>6, <1>7 DEF MachineInv, Pending, Enabled, rcp_pending
<1>11. MachineInv(k, scene) /\ Absent(k.q, "SI_INT")
  BY <1>2, <1>3, <1>6, <1>7, <1>8, <1>9, <1>10 DEF MachineInv
<1>12. get_event(k, "SI_INT") = 0
  BY <1>6, <1>11, QueuedMeans DEF get_event
<1>13. n \in Counts
  BY <1>6, DelayedCount, DelaysAreNat
<1> HIDE DEF n
<1>14. MachineInv(r, scene)
  BY <1>11, <1>13, AddSi
<1> HIDE DEF r
<1>15. m' = r /\ missed' \in BOOLEAN
  BY <1>4, <1>12
<1>16. MachineInv(m', scene') /\ "Save" \in scene'
  BY <1>4, <1>14, <1>15
<1>17. saved' = NoState \/ (MachineInv(saved', scene') /\ Absent(saved'.q, "SI_INT"))
  BY <1>2, <1>4
<1> QED BY <1>15, <1>16, <1>17 DEF Inv

-----------------------------------------------------------------------------
(* The start                                                               *)

\* init_interrupt queues the first vertical interrupt and SPECIAL_INT.
LEMMA InitInv ==
    ASSUME Init
    PROVE  Inv
<1>1. PICK start \in Starts, mask \in Masks :
        m = [Machine(start) EXCEPT !.mi_intr_mask_reg = mask, !.IE = TRUE]
  BY DEF Init
<1> DEFINE v == Wrap(start + ViDelay)
           bare == [Count |-> start, Compare |-> 0, q |-> << >>, next_interrupt |-> 0,
                 SPECIAL_done |-> TRUE, next_vi |-> v, v_sync |-> TRUE,
                 mi_intr_reg |-> {}, mi_intr_mask_reg |-> {}, Cause |-> {},
                 IM |-> {RCP, TIMER}, IE |-> FALSE, EXL |-> FALSE,
                 skip_jump |-> FALSE, delay_slot |-> FALSE,
                 pi_busy |-> FALSE, si_status |-> FALSE,
                 ai_busy |-> FALSE, ai_full |-> FALSE, ai_delay |-> 0, ai_next |-> 0,
                 sp_halt |-> TRUE, sp_broke |-> FALSE, sp_intr_break |-> FALSE]
           a == add_interrupt_event_count(bare, "VI_INT", v)
           b == add_interrupt_event_count(a, "SPECIAL_INT", 0)
           r == [b EXCEPT !.mi_intr_mask_reg = mask, !.IE = TRUE]
<1>2. m = r
  BY <1>1 DEF Machine
<1>3. start \in Counts /\ v \in Counts /\ 0 \in Counts /\ mask \in SUBSET Sources
  <2>1. start \in Counts /\ start \in Nat
    BY DelayAssumption, Wraps
  <2>2. 0 \in Counts
    BY Limits DEF Counts
  <2> QED BY <2>1, <2>2, Wraps, DelaysAreNat, MasksAssumption
<1> HIDE DEF v
<1>4. << >> \in QueueType /\ Len(<< >>) = 0
  BY DEF QueueType
<1>5. bare \in MachineType
  BY <1>3, <1>4 DEF MachineType
<1>6. /\ bare.q = << >> /\ bare.next_vi = v /\ bare.mi_intr_reg = {}
      /\ ~bare.skip_jump /\ ~bare.delay_slot /\ ~bare.ai_busy /\ ~bare.ai_full /\ ~bare.pi_busy
  OBVIOUS
<1> HIDE DEF bare
<1>7. \A u : Absent(bare.q, u)
  BY <1>4, <1>6 DEF Absent
<1>8. \A u \in {"SPECIAL_INT", "VI_INT", "AI_INT", "PI_INT", "SI_INT"} : u \in EventTypes
  BY DEF EventTypes
<1>9. /\ a \in MachineType /\ Same(bare, a) /\ KeepsBut(bare.q, a.q, "VI_INT")
      /\ OneAt(a.q, "VI_INT", v)
  BY <1>3, <1>5, <1>7, <1>8, AddKeeps
<1> HIDE DEF a
<1>10. \A u \in {"SPECIAL_INT", "AI_INT", "PI_INT", "SI_INT"} : Absent(a.q, u)
  BY <1>7, <1>8, <1>9 DEF KeepsBut
<1>11. /\ b \in MachineType /\ Same(a, b) /\ KeepsBut(a.q, b.q, "SPECIAL_INT")
       /\ OneAt(b.q, "SPECIAL_INT", 0)
  BY <1>3, <1>8, <1>9, <1>10, AddKeeps
<1> HIDE DEF b
<1>12. \A u \in {"AI_INT", "PI_INT", "SI_INT"} : Absent(b.q, u)
  BY <1>8, <1>10, <1>11 DEF KeepsBut
<1>13. OneAt(b.q, "VI_INT", v)
  BY <1>8, <1>9, <1>11 DEF KeepsBut
<1>14. /\ r \in MachineType /\ r.q = b.q /\ SameDevices(b, r)
       /\ r.skip_jump = b.skip_jump /\ r.delay_slot = b.delay_slot
       /\ r.mi_intr_reg = b.mi_intr_reg
  BY <1>3, <1>11 DEF MachineType, SameDevices
<1> HIDE DEF r
<1>15. /\ r.next_vi = v /\ r.mi_intr_reg = {} /\ ~r.skip_jump /\ ~r.delay_slot
       /\ ~r.ai_busy /\ ~r.ai_full /\ ~r.pi_busy
  BY <1>6, <1>9, <1>11, <1>14 DEF Same, SameDevices, SameProcessor
<1>16. QueueOK(r, scene)
  BY <1>11, <1>12, <1>13, <1>14, <1>15 DEF QueueOK, OneAt
<1>17. ~Pending(r)
  BY <1>15 DEF Pending, rcp_pending
<1>18. MachineInv(r, scene) /\ FirstInv(r)
  BY <1>14, <1>15, <1>16, <1>17 DEF MachineInv, AtRest, FirstInv
<1> QED BY <1>2, <1>18 DEF Inv, Init

LEMMA NextInv ==
    ASSUME Inv, [Next]_vars
    PROVE  Inv'
<1>1. CASE \E d \in StepCycles : Branch(d)
  BY <1>1, BranchKeeps
<1>2. CASE J_IDLE
  BY <1>2, IdleKeeps
<1>3. CASE ERET
  BY <1>3, EretKeeps
<1>4. CASE \E ie, exl \in BOOLEAN : MTC0_Status(ie, exl)
  BY <1>4, StatusKeeps
<1>5. CASE \E c \in Compares : MTC0_Compare(c)
  BY <1>5, CompareKeeps
<1>6. CASE \E c \in Compares : MTC0_Count(c)
  BY <1>6, CountKeeps
<1>7. CASE \E slot \in BOOLEAN : TLB_refill_exception(slot)
  BY <1>7, TlbKeeps
<1>8. CASE \E mask \in Masks : write_mi_mask(mask)
  BY <1>8, MaskKeeps
<1>9. CASE \/ write_mi_mode \/ write_vi_current \/ write_ai_status \/ write_si_status
           \/ write_dp_end
           \/ \E clear \in BOOLEAN : write_pi_status(clear)
           \/ \E on \in BOOLEAN : write_sp_interrupt(on)
  BY <1>9, AcknowledgesKeep
<1>10. CASE write_vi_v_sync
  BY <1>10, VSyncKeeps
<1>11. CASE \E delay \in AiDelays : write_ai_len(delay)
  BY <1>11, AiKeeps
<1>12. CASE dma_pi
  BY <1>12, PiKeeps
<1>13. CASE dma_si
  BY <1>13, SiKeeps
<1>14. CASE \E on \in BOOLEAN : write_sp_intr_break(on)
  BY <1>14, IntrBreakKeeps
<1>15. CASE \E graphics \in BOOLEAN : start_task(graphics)
  BY <1>15, TaskKeeps
<1>16. CASE save
  BY <1>16, SaveKeeps
<1>17. CASE load
  BY <1>17, LoadedStateKeeps
<1>18. CASE UNCHANGED vars
  BY <1>18 DEF vars, Inv
<1> QED BY <1>1, <1>2, <1>3, <1>4, <1>5, <1>6, <1>7, <1>8, <1>9, <1>10, <1>11, <1>12, <1>13,
            <1>14, <1>15, <1>16, <1>17, <1>18 DEF Next

-----------------------------------------------------------------------------
(* Theorems                                                                *)

\* The registers of the devices and the event queue agree in every state, also
\* after a savestate was loaded: the inductive invariant of the proof.
THEOREM QueueMatchesDevices == Spec => []Inv
<1>1. Init => Inv
  BY InitInv
<1>2. Inv /\ [Next]_vars => Inv'
  BY NextInv
<1> QED BY <1>1, <1>2, PTL DEF Spec

LEMMA Counted ==
    ASSUME NEW k \in MachineType, NEW t
    PROVE  /\ One(k.q, t) => Cardinality(places(k, t)) = 1
           /\ Absent(k.q, t) => Cardinality(places(k, t)) = 0
<1>1. DOMAIN k.q = 1 .. Len(k.q)
  BY DEF MachineType, QueueType
<1>2. places(k, t) = {i \in 1 .. Len(k.q) : k.q[i].type = t}
  BY <1>1 DEF places
<1>3. ASSUME One(k.q, t) PROVE Cardinality(places(k, t)) = 1
  <2>1. PICK i : places(k, t) = {i}
    BY <1>2, <1>3 DEF One
  <2> QED BY <2>1, FS_Singleton
<1>4. ASSUME Absent(k.q, t) PROVE Cardinality(places(k, t)) = 0
  <2>1. places(k, t) = {}
    BY <1>2, <1>4 DEF Absent
  <2> QED BY <2>1, FS_EmptySet
<1> QED BY <1>3, <1>4

\* There is always exactly one next vertical interrupt, at next_vi, and one
\* SPECIAL_INT (gen_interrupt, translate_event_queue, load_eventqueue_infos),
\* for every width of Count, every delay and every number of CHECK_INT.
THEOREM OneVerticalInterrupt == Spec => []OneNextVi
<1>1. Inv => OneNextVi
  <2> SUFFICES ASSUME Inv PROVE OneNextVi
    OBVIOUS
  <2>1. m \in MachineType /\ QueueOK(m, scene)
    BY DEF Inv, MachineInv
  <2>2. /\ One(m.q, "SPECIAL_INT") /\ One(m.q, "VI_INT")
        /\ "Count" \in scene \/ OneAt(m.q, "VI_INT", m.next_vi)
    BY <2>1 DEF QueueOK
  <2> QED BY <2>1, <2>2, Counted, GetEventMeans DEF OneNextVi
<1> QED BY <1>1, QueueMatchesDevices, PTL

\* A device is busy exactly while the event that ends its transfer is queued,
\* and a second audio buffer waits only behind a first (write_ai, dma_pi_read,
\* dma_pi_write, gen_interrupt).
THEOREM DevicesBusyUntilEvent == Spec => []BusyUntilEvent
<1>1. Inv => BusyUntilEvent
  <2> SUFFICES ASSUME Inv PROVE BusyUntilEvent
    OBVIOUS
  <2>1. m \in MachineType /\ QueueOK(m, scene)
    BY DEF Inv, MachineInv
  <2>2. Cardinality(places(m, "AI_INT")) = (IF m.ai_busy THEN 1 ELSE 0)
    BY <2>1, Counted DEF QueueOK
  <2>3. m.ai_full => m.ai_busy
    BY <2>1 DEF QueueOK
  <2>4. Cardinality(places(m, "PI_INT")) = (IF m.pi_busy THEN 1 ELSE 0)
    BY <2>1, Counted DEF QueueOK
  <2>5. Cardinality(places(m, "SI_INT")) = 0 \/ Cardinality(places(m, "SI_INT")) = 1
    BY <2>1, Counted DEF QueueOK
  <2> QED BY <2>2, <2>3, <2>4, <2>5 DEF BusyUntilEvent
<1> QED BY <1>1, QueueMatchesDevices, PTL

\* An interrupt of the RCP that is pending, unmasked and enabled has its
\* CHECK_INT in the queue (check_interrupt, gen_interrupt), in front of every
\* other event unless Count wrapped before it was looked at or a savestate
\* rebuilt the queue.
THEOREM InterruptsNotForgotten ==
    Spec => [](/\ Pending(m) => Queued(m, "CHECK_INT")
               /\ "Save" \notin scene => NoLostInterrupt)
<1>1. Inv => /\ Pending(m) => Queued(m, "CHECK_INT")
             /\ "Save" \notin scene => NoLostInterrupt
  <2> SUFFICES ASSUME Inv
               PROVE  /\ Pending(m) => Queued(m, "CHECK_INT")
                      /\ "Save" \notin scene => NoLostInterrupt
    OBVIOUS
  <2>1. m \in MachineType /\ QueueOK(m, scene) /\ (Pending(m) => Present(m.q, "CHECK_INT"))
    BY DEF Inv, MachineInv
  <2>2. Pending(m) => Queued(m, "CHECK_INT")
    BY <2>1, QueuedMeans
  <2>3. ASSUME "Save" \notin scene, Pending(m)
        PROVE  missed \/ Head(m.q).type = "CHECK_INT"
    BY <2>1, <2>3, NotEmpty DEF Inv, FirstInv, CheckFirst
  <2> QED BY <2>2, <2>3 DEF NoLostInterrupt, Pending
<1> QED BY <1>1, QueueMatchesDevices, PTL

-----------------------------------------------------------------------------
=============================================================================
