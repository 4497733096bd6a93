------------------------- MODULE Recompiler_proofs -------------------------
(***************************************************************************)
(* The register cache stays consistent while a block is compiled: for any  *)
(* number of N64 registers, any sequence of instructions and any length.   *)
(***************************************************************************)
EXTENDS Recompiler, FiniteSetTheorems, SequenceTheorems, WellFoundedInduction, TLAPS

\* A set of natural numbers that is not empty has a least element.
LEMMA NatMin ==
    ASSUME NEW T \in SUBSET Nat, T # {}
    PROVE  \E x \in T : \A y \in T : x <= y
<1> DEFINE Less == {ss \in Nat \X Nat : ss[1] < ss[2]}
<1>1. IsWellFoundedOn(Less, Nat)
  BY NatLessThanWellFounded DEF OpToRel
<1>2. \A a, b \in Nat : <<a, b>> \in Less <=> a < b
  OBVIOUS
<1> HIDE DEF Less
<1>3. \E x \in T : \A y \in T : <<y, x>> \notin Less
  BY <1>1, WFMin
<1>4. PICK x \in T : \A y \in T : <<y, x>> \notin Less
  BY <1>3
<1>5. ASSUME NEW y \in T PROVE x <= y
  <2>1. x \in Nat /\ y \in Nat
    OBVIOUS
  <2>2. ~(y < x)
    BY <1>2, <1>4, <2>1
  <2> QED BY <2>1, <2>2
<1> QED BY <1>5

\* Induction up to a number, in terms of a set.
LEMMA UpTo ==
    ASSUME NEW N \in Nat, NEW K, 0 \in K, \A k \in 1 .. N : k - 1 \in K => k \in K
    PROVE  \A k \in 0 .. N : k \in K
<1> DEFINE T == {k \in 0 .. N : k \notin K}
<1> SUFFICES ASSUME T # {} PROVE FALSE
  OBVIOUS
<1>1. T \in SUBSET Nat
  OBVIOUS
<1>2. PICK x \in T : \A y \in T : x <= y
  BY <1>1, NatMin
<1>3. x \in 1 .. N /\ x - 1 \in 0 .. N /\ ~(x <= x - 1)
  BY <1>2
<1>4. x - 1 \in K
  BY <1>2, <1>3
<1> QED BY <1>3, <1>4

-----------------------------------------------------------------------------
(* The cache                                                               *)

Content == Addr \cup {Null}

\* What the cache has to be between two requests, in terms of the arrays of
\* regcache.cpp and the number of the instruction.  Besides CacheConsistent:
\* the halves of a pair were last used together, and never in the future.
Good(d, la, co, di, r6) ==
    /\ d \in Nat
    /\ la \in [X86 -> Nat] /\ co \in [X86 -> Content]
    /\ di \in [X86 -> BOOLEAN] /\ r6 \in [X86 -> X86 \cup {None}]
    /\ \A x \in X86 : la[x] <= d
    /\ \A x \in X86 : la[x] # 0 => co[x] \in Addr
    /\ \A x \in X86 : la[x] # 0 /\ r6[x] # None =>
            /\ la[r6[x]] = la[x] /\ r6[r6[x]] = x /\ di[r6[x]] = di[x]
            /\ co[x][1] = co[r6[x]][1] /\ co[x][2] # co[r6[x]][2]
    /\ \A x, y \in X86 : la[x] # 0 /\ la[y] # 0 /\ x # y => co[x] # co[y]
    /\ \A x \in X86 : la[x] # 0 /\ co[x][2] = 1 => r6[x] # None
    /\ la[ESP] = 0

Consistent(s) == Good(s.dst, s.la, s.content, s.dirty, s.r64)

LEMMA Names ==
    /\ None \notin X86 /\ {EAX, ECX, EDX, EBX, ESP} \subseteq X86
    /\ ESP \notin {EAX, ECX, EDX, EBX} /\ EAX # ECX /\ EAX # EDX
    /\ {"r0", "hi", "lo"} \subseteq N64
  BY DEF None, X86, EAX, ECX, EDX, EBX, ESP, N64

LEMMA Addresses ==
    /\ \A n \in N64 : /\ Low(n) \in Addr /\ Low(n)[1] = n /\ Low(n)[2] = 0
                      /\ High(n) \in Addr /\ High(n)[1] = n /\ High(n)[2] = 1
    /\ \A a \in Addr : /\ a[1] \in N64 /\ a[2] \in {0, 1}
                       /\ a[2] = 0 => a = Low(a[1])
                       /\ a[2] = 1 => a = High(a[1])
    /\ Null \notin Addr
<1>1. \A n \in N64 : /\ Low(n) \in Addr /\ Low(n)[1] = n /\ Low(n)[2] = 0
                     /\ High(n) \in Addr /\ High(n)[1] = n /\ High(n)[2] = 1
  BY DEF Addr, Low, High
<1>2. \A a \in Addr : /\ a[1] \in N64 /\ a[2] \in {0, 1}
                      /\ a[2] = 0 => a = Low(a[1])
                      /\ a[2] = 1 => a = High(a[1])
  BY DEF Addr, Low, High
<1>3. Null \notin Addr
  BY RegCacheAssumption DEF Addr, Null, N64
<1> QED BY <1>1, <1>2, <1>3

\* A value is used again, with its other half.
LEMMA GoodTouch ==
    ASSUME NEW d, NEW la, NEW co, NEW di, NEW r6, Good(d, la, co, di, r6), d > 0,
           NEW x \in X86, la[x] # 0,
           NEW l2 \in [X86 -> Nat],
           \A z \in X86 : l2[z] = IF z = x \/ z = r6[x] THEN d ELSE la[z]
    PROVE  Good(d, l2, co, di, r6)
<1>1. r6[x] = None \/ (r6[x] \in X86 /\ la[r6[x]] # 0 /\ r6[r6[x]] = x)
  BY DEF Good
<1>2. \A z \in X86 : l2[z] # 0 <=> la[z] # 0
  BY <1>1, Names DEF Good
<1>3. \A z \in X86 : l2[z] <= d
  BY DEF Good
<1>4. ASSUME NEW z \in X86, l2[z] # 0, r6[z] # None PROVE l2[r6[z]] = l2[z]
  <2>1. la[z] # 0
    BY <1>2, <1>4
  <2>2. r6[z] \in X86 /\ la[r6[z]] = la[z] /\ r6[r6[z]] = z
    BY <1>4, <2>1 DEF Good
  <2>3. CASE z = x
    BY <2>2, <2>3
  <2>5. CASE z = r6[x]
    <3>1. r6[z] = x
      BY <1>1, <2>5, Names
    <3> QED BY <2>5, <3>1
  <2>4. CASE z # x /\ z # r6[x]
    <3>1. r6[z] # x /\ r6[z] # r6[x]
      BY <1>1, <1>4, <2>2, <2>4
    <3> QED BY <2>2, <2>4, <3>1
  <2> QED BY <2>3, <2>4, <2>5
<1>5. x # ESP /\ r6[x] # ESP
  BY <1>1, Names DEF Good, None, ESP
<1> QED BY <1>2, <1>3, <1>4, <1>5, Names DEF Good

\* A value is given up, with its other half.
LEMMA GoodFree ==
    ASSUME NEW d, NEW la, NEW co, NEW di, NEW r6, Good(d, la, co, di, r6),
           NEW x \in X86,
           NEW l2 \in [X86 -> Nat],
           \A z \in X86 : l2[z] = IF z = x \/ (la[x] # 0 /\ z = r6[x]) THEN 0 ELSE la[z]
    PROVE  Good(d, l2, co, di, r6)
<1>1. la[x] # 0 => r6[x] = None \/ (r6[x] \in X86 /\ la[r6[x]] # 0 /\ r6[r6[x]] = x)
  BY DEF Good
<1>2. \A z \in X86 : l2[z] # 0 => la[z] # 0 /\ l2[z] = la[z]
  OBVIOUS
<1>3. \A z \in X86 : l2[z] <= d
  BY DEF Good
<1>4. ASSUME NEW z \in X86, l2[z] # 0, r6[z] # None PROVE l2[r6[z]] = l2[z]
  BY <1>1, <1>2, <1>4 DEF Good
<1> QED BY <1>2, <1>3, <1>4, Names DEF Good

Arrays(l2, c2, d2, r2) ==
    /\ l2 \in [X86 -> Nat] /\ c2 \in [X86 -> Content]
    /\ d2 \in [X86 -> BOOLEAN] /\ r2 \in [X86 -> X86 \cup {None}]

\* The arrays differ only at x.
At(x, la, co, di, r6, l2, c2, d2, r2) ==
    \A z \in X86 : z # x => l2[z] = la[z] /\ c2[z] = co[z] /\ d2[z] = di[z] /\ r2[z] = r6[z]

\* A free register is given to the low half of n, which is cached nowhere.
LEMMA GoodTake ==
    ASSUME NEW d, NEW la, NEW co, NEW di, NEW r6, Good(d, la, co, di, r6), d > 0,
           NEW x \in X86, x # ESP, la[x] = 0, NEW n \in N64, NEW v \in BOOLEAN,
           \A z \in X86 : la[z] # 0 => co[z] # Low(n),
           NEW l2, NEW c2, NEW d2, NEW r2, Arrays(l2, c2, d2, r2),
           At(x, la, co, di, r6, l2, c2, d2, r2),
           l2[x] = d, c2[x] = Low(n), d2[x] = v, r2[x] = None
    PROVE  Good(d, l2, c2, d2, r2)
<1>a. /\ l2 \in [X86 -> Nat] /\ c2 \in [X86 -> Content]
      /\ d2 \in [X86 -> BOOLEAN] /\ r2 \in [X86 -> X86 \cup {None}]
  BY DEF Arrays
<1>b. \A z \in X86 : /\ l2[z] = IF z = x THEN d ELSE la[z]
                     /\ c2[z] = IF z = x THEN Low(n) ELSE co[z]
                     /\ d2[z] = IF z = x THEN v ELSE di[z]
                     /\ r2[z] = IF z = x THEN None ELSE r6[z]
  BY DEF At
<1>0. Low(n) \in Addr /\ Low(n)[2] = 0
  BY Addresses
<1>1. \A z \in X86 : l2[z] <= d
  BY <1>a, <1>b DEF Good
<1>2. \A z \in X86 : l2[z] # 0 => c2[z] \in Addr
  BY <1>0, <1>a, <1>b DEF Good
<1>3. ASSUME NEW z \in X86, l2[z] # 0, r2[z] # None
      PROVE  /\ l2[r2[z]] = l2[z] /\ r2[r2[z]] = z /\ d2[r2[z]] = d2[z]
             /\ c2[z][1] = c2[r2[z]][1] /\ c2[z][2] # c2[r2[z]][2]
  <2>1. z # x /\ la[z] # 0 /\ r6[z] # None /\ r2[z] = r6[z]
    BY <1>3, <1>a, <1>b
  <2>2. r6[z] \in X86 /\ la[r6[z]] # 0 /\ r6[z] # x
    BY <2>1 DEF Good
  <2> QED BY <1>a, <1>b, <2>1, <2>2 DEF Good
<1>4. \A z, w \in X86 : l2[z] # 0 /\ l2[w] # 0 /\ z # w => c2[z] # c2[w]
  BY <1>a, <1>b DEF Good
<1>5. \A z \in X86 : l2[z] # 0 /\ c2[z][2] = 1 => r2[z] # None
  BY <1>0, <1>a, <1>b DEF Good
<1>6. l2[ESP] = 0
  BY <1>a, <1>b, Names DEF Good
<1> QED BY <1>a, <1>1, <1>2, <1>3, <1>4, <1>5, <1>6 DEF Good

Drops(x, e, v, la, di, r6, l2, d2, r2) ==
    \A z \in X86 : /\ l2[z] = IF z = x THEN e ELSE IF z = r6[x] THEN 0 ELSE la[z]
                   /\ d2[z] = IF z = x THEN v ELSE di[z]
                   /\ r2[z] = IF z = x THEN None ELSE r6[z]

\* Of a value, only the low half is kept.
LEMMA GoodDrop ==
    ASSUME NEW d, NEW la, NEW co, NEW di, NEW r6, Good(d, la, co, di, r6),
           NEW x \in X86, la[x] # 0, co[x][2] = 0, NEW v \in BOOLEAN,
           NEW e \in 1 .. d,
           NEW l2, NEW d2, NEW r2, Arrays(l2, co, d2, r2),
           Drops(x, e, v, la, di, r6, l2, d2, r2)
    PROVE  Good(d, l2, co, d2, r2)
<1>a. /\ l2 \in [X86 -> Nat] /\ co \in [X86 -> Content]
      /\ d2 \in [X86 -> BOOLEAN] /\ r2 \in [X86 -> X86 \cup {None}]
  BY DEF Arrays
<1>b. \A z \in X86 : /\ l2[z] = IF z = x THEN e ELSE IF z = r6[x] THEN 0 ELSE la[z]
                     /\ d2[z] = IF z = x THEN v ELSE di[z]
                     /\ r2[z] = IF z = x THEN None ELSE r6[z]
  BY DEF Drops
<1>0. e \in Nat /\ e # 0 /\ e <= d /\ x # ESP
  BY DEF Good
<1>1. \A z \in X86 : l2[z] <= d
  BY <1>0, <1>b DEF Good
<1>2. \A z \in X86 : l2[z] # 0 => la[z] # 0
  BY <1>b
<1>3. ASSUME NEW z \in X86, l2[z] # 0, r2[z] # None
      PROVE  /\ l2[r2[z]] = l2[z] /\ r2[r2[z]] = z /\ d2[r2[z]] = d2[z]
             /\ co[z][1] = co[r2[z]][1] /\ co[z][2] # co[r2[z]][2]
  <2>1. z # x /\ z # r6[x] /\ la[z] # 0 /\ r6[z] # None /\ r2[z] = r6[z]
    BY <1>3, <1>b
  <2>2. r6[z] \in X86 /\ la[r6[z]] = la[z] /\ r6[r6[z]] = z
    BY <2>1 DEF Good
  <2>3. r6[z] # x
    BY <2>1, <2>2
  <2>4. r6[z] # r6[x]
    BY <2>1, <2>2 DEF Good
  <2> QED BY <1>b, <2>1, <2>2, <2>3, <2>4 DEF Good
<1>4. \A z \in X86 : l2[z] # 0 /\ co[z][2] = 1 => r2[z] # None
  BY <1>2, <1>b DEF Good
<1>5. l2[ESP] = 0
  BY <1>0, <1>b, Names DEF Good
<1> QED BY <1>a, <1>1, <1>2, <1>3, <1>4, <1>5 DEF Good

Joins(x, y, n, d, la, co, di, r6, l2, c2, d2, r2) ==
    \A z \in X86 : /\ l2[z] = IF z = y THEN d ELSE la[z]
                   /\ c2[z] = IF z = y THEN High(n) ELSE co[z]
                   /\ d2[z] = IF z = y THEN di[x] ELSE di[z]
                   /\ r2[z] = IF z = y THEN x ELSE IF z = x THEN y ELSE r6[z]

\* A free register is given to the high half of n, whose low half is in x alone.
LEMMA GoodJoin ==
    ASSUME NEW d, NEW la, NEW co, NEW di, NEW r6, Good(d, la, co, di, r6), d > 0,
           NEW x \in X86, la[x] = d, NEW n \in N64, co[x] = Low(n), r6[x] = None,
           NEW y \in X86, y # x, y # ESP, la[y] = 0,
           NEW l2, NEW c2, NEW d2, NEW r2, Arrays(l2, c2, d2, r2),
           Joins(x, y, n, d, la, co, di, r6, l2, c2, d2, r2)
    PROVE  Good(d, l2, c2, d2, r2)
<1>a. /\ l2 \in [X86 -> Nat] /\ c2 \in [X86 -> Content]
      /\ d2 \in [X86 -> BOOLEAN] /\ r2 \in [X86 -> X86 \cup {None}]
  BY DEF Arrays
<1>b. \A z \in X86 : /\ l2[z] = IF z = y THEN d ELSE la[z]
                     /\ c2[z] = IF z = y THEN High(n) ELSE co[z]
                     /\ d2[z] = IF z = y THEN di[x] ELSE di[z]
                     /\ r2[z] = IF z = y THEN x ELSE IF z = x THEN y ELSE r6[z]
  BY DEF Joins
<1>0. /\ High(n) \in Addr /\ High(n)[2] = 1 /\ High(n)[1] = n
      /\ Low(n)[2] = 0 /\ Low(n)[1] = n /\ Low(n) \in Addr
  BY Addresses
<1>1. \A z \in X86 : l2[z] <= d
  BY <1>a, <1>b DEF Good
<1>2. \A z \in X86 : l2[z] # 0 => c2[z] \in Addr
  BY <1>0, <1>a, <1>b DEF Good
<1>h. \A z \in X86 : la[z] # 0 => co[z] # High(n)
  <2> SUFFICES ASSUME NEW z \in X86, la[z] # 0, co[z] = High(n) PROVE FALSE
    OBVIOUS
  <2>1. r6[z] # None /\ r6[z] \in X86 /\ la[r6[z]] # 0 /\ r6[r6[z]] = z
        /\ co[r6[z]][1] = n /\ co[r6[z]][2] # 1 /\ co[r6[z]] \in Addr
    BY <1>0, Names DEF Good
  <2>2. co[r6[z]] = Low(n)
    BY <2>1, Addresses
  <2>3. r6[z] = x
    BY <2>1, <2>2 DEF Good
  <2> QED BY <2>1, <2>3, Names
<1>3. ASSUME NEW z \in X86, l2[z] # 0, r2[z] # None
      PROVE  /\ l2[r2[z]] = l2[z] /\ r2[r2[z]] = z /\ d2[r2[z]] = d2[z]
             /\ c2[z][1] = c2[r2[z]][1] /\ c2[z][2] # c2[r2[z]][2]
  <2>1. CASE z = x \/ z = y
    BY <1>0, <1>b, <2>1
  <2>2. CASE z # x /\ z # y
    <3>1. la[z] # 0 /\ r6[z] # None /\ r2[z] = r6[z]
      BY <1>3, <1>b, <2>2
    <3>2. r6[z] \in X86 /\ la[r6[z]] # 0 /\ r6[r6[z]] = z
      BY <3>1 DEF Good
    <3>3. r6[z] # x /\ r6[z] # y
      BY <2>2, <3>2, Names
    <3> QED BY <1>b, <2>2, <3>1, <3>2, <3>3 DEF Good
  <2> QED BY <2>1, <2>2
<1>4. \A z, w \in X86 : l2[z] # 0 /\ l2[w] # 0 /\ z # w => c2[z] # c2[w]
  BY <1>b, <1>h DEF Good
<1>5. \A z \in X86 : l2[z] # 0 /\ c2[z][2] = 1 => r2[z] # None
  BY <1>0, <1>b, Names DEF Good
<1>6. l2[ESP] = 0
  BY <1>b, Names DEF Good
<1> QED BY <1>a, <1>1, <1>2, <1>3, <1>4, <1>5, <1>6 DEF Good

Writes(x, d, v, la, di, r6, l2, d2) ==
    \A z \in X86 : /\ l2[z] = IF z = x \/ z = r6[x] THEN d ELSE la[z]
                   /\ d2[z] = IF z = x \/ z = r6[x] THEN v ELSE di[z]

\* Both halves of a value are about to be written.
LEMMA GoodWrite ==
    ASSUME NEW d, NEW la, NEW co, NEW di, NEW r6, Good(d, la, co, di, r6), d > 0,
           NEW x \in X86, la[x] # 0, r6[x] # None,
           NEW l2 \in [X86 -> Nat], NEW d2 \in [X86 -> BOOLEAN], NEW v \in BOOLEAN,
           Writes(x, d, v, la, di, r6, l2, d2)
    PROVE  Good(d, l2, co, d2, r6)
<1>0. \A z \in X86 : l2[z] = IF z = x \/ z = r6[x] THEN d ELSE la[z]
  BY DEF Writes
<1>d. \A z \in X86 : d2[z] = IF z = x \/ z = r6[x] THEN v ELSE di[z]
  BY DEF Writes
<1>1. Good(d, l2, co, di, r6)
  BY <1>0, GoodTouch
<1>2. r6[x] \in X86 /\ r6[r6[x]] = x
  BY DEF Good
<1>3. ASSUME NEW z \in X86, l2[z] # 0, r6[z] # None PROVE d2[r6[z]] = d2[z]
  <2>1. r6[z] \in X86 /\ r6[r6[z]] = z /\ di[r6[z]] = di[z]
    BY <1>1, <1>3 DEF Good
  <2>2. CASE z = x \/ z = r6[x]
    BY <1>2, <1>d, <2>1, <2>2
  <2>3. CASE z # x /\ z # r6[x]
    <3>1. r6[z] # x /\ r6[z] # r6[x]
      BY <1>2, <2>1, <2>3
    <3> QED BY <1>d, <2>1, <2>3, <3>1
  <2> QED BY <2>2, <2>3
<1> QED BY <1>1, <1>3 DEF Good

\* A value moves from y to the free register x.
LEMMA GoodMove ==
    ASSUME NEW d, NEW la, NEW co, NEW di, NEW r6, Good(d, la, co, di, r6), d > 0,
           NEW x \in X86, x # ESP, la[x] = 0,
           NEW y \in X86, la[y] = d,
           NEW l2 \in [X86 -> Nat], NEW c2 \in [X86 -> Content],
           NEW d2 \in [X86 -> BOOLEAN], NEW r2 \in [X86 -> X86 \cup {None}],
           \A z \in X86 : /\ l2[z] = IF z = y THEN 0 ELSE IF z = x THEN d ELSE la[z]
                          /\ c2[z] = IF z = x THEN co[y] ELSE co[z]
                          /\ d2[z] = IF z = x THEN di[y] ELSE di[z]
                          /\ r2[z] = IF z = r6[y] THEN x ELSE IF z = x THEN r6[y] ELSE r6[z]
    PROVE  Good(d, l2, c2, d2, r2)
<1>0. x # y /\ co[y] \in Addr /\ d \in Nat
  BY DEF Good
<1>y. r6[y] # None => /\ r6[y] \in X86 /\ la[r6[y]] = d /\ r6[r6[y]] = y /\ di[r6[y]] = di[y]
                      /\ co[y][1] = co[r6[y]][1] /\ co[y][2] # co[r6[y]][2]
                      /\ r6[y] # x /\ r6[y] # y
  <2>1. r6[y] # None => /\ r6[y] \in X86 /\ la[r6[y]] = d /\ r6[r6[y]] = y /\ di[r6[y]] = di[y]
                        /\ co[y][1] = co[r6[y]][1] /\ co[y][2] # co[r6[y]][2]
    BY DEF Good
  <2> QED BY <2>1
<1>1. \A z \in X86 : l2[z] <= d
  BY <1>0 DEF Good
<1>2. \A z \in X86 : l2[z] # 0 => c2[z] \in Addr
  BY <1>0 DEF Good
<1>3. ASSUME NEW z \in X86, l2[z] # 0, r2[z] # None
      PROVE  /\ l2[r2[z]] = l2[z] /\ r2[r2[z]] = z /\ d2[r2[z]] = d2[z]
             /\ c2[z][1] = c2[r2[z]][1] /\ c2[z][2] # c2[r2[z]][2]
  <2>1. CASE z = x
    <3>1. r2[z] = r6[y] /\ r6[y] # None
      BY <1>3, <1>y, <2>1, Names
    <3> QED BY <1>0, <1>y, <2>1, <3>1
  <2>2. CASE z = r6[y]
    <3>1. r2[z] = x /\ r6[y] # None /\ z # x /\ z # y
      BY <1>y, <2>2, Names
    <3> QED BY <1>0, <1>y, <2>2, <3>1
  <2>3. CASE z # x /\ z # r6[y]
    <3>1. z # y /\ la[z] # 0 /\ r6[z] # None /\ r2[z] = r6[z]
      BY <1>3, <2>3
    <3>2. r6[z] \in X86 /\ la[r6[z]] # 0 /\ r6[r6[z]] = z
      BY <3>1 DEF Good
    <3>3. r6[z] # x /\ r6[z] # y /\ r6[z] # r6[y]
      BY <1>y, <2>3, <3>1, <3>2
    <3> QED BY <2>3, <3>1, <3>2, <3>3 DEF Good
  <2> QED BY <2>1, <2>2, <2>3
<1>4. ASSUME NEW z \in X86, NEW w \in X86, l2[z] # 0, l2[w] # 0, z # w PROVE c2[z] # c2[w]
  <2>1. CASE z = x
    BY <1>0, <1>4, <2>1 DEF Good
  <2>2. CASE w = x
    BY <1>0, <1>4, <2>2 DEF Good
  <2>3. CASE z # x /\ w # x
    BY <1>4, <2>3 DEF Good
  <2> QED BY <2>1, <2>2, <2>3
<1>5. ASSUME NEW z \in X86, l2[z] # 0, c2[z][2] = 1 PROVE r2[z] # None
  <2>1. CASE z = x
    BY <1>0, <1>5, <1>y, <2>1, Names DEF Good
  <2>2. CASE z # x
    BY <1>5, <2>2, Names DEF Good
  <2> QED BY <2>1, <2>2
<1>6. l2[ESP] = 0
  BY Names DEF Good
<1> QED BY <1>0, <1>1, <1>2, <1>3, <1>4, <1>5, <1>6 DEF Good

\* A register that is free may say anything of its other half.
LEMMA GoodForget ==
    ASSUME NEW d, NEW la, NEW co, NEW di, NEW r6, Good(d, la, co, di, r6),
           NEW x \in X86, la[x] = 0,
           NEW r2 \in [X86 -> X86 \cup {None}],
           \A z \in X86 : z # x => r2[z] = r6[z]
    PROVE  Good(d, la, co, di, r2)
<1>1. ASSUME NEW z \in X86, la[z] # 0 PROVE r2[z] = r6[z] /\ (r6[z] # None => r2[r6[z]] = r6[r6[z]])
  <2>1. r6[z] # None => r6[z] \in X86 /\ la[r6[z]] # 0
    BY <1>1 DEF Good
  <2> QED BY <1>1, <2>1
<1> QED BY <1>1 DEF Good

-----------------------------------------------------------------------------
(* The state of the compiler                                               *)

IsState(s) ==
    DOMAIN s = {"dst", "la", "fs", "content", "dirty", "r64", "needed", "narrow", "start",
                "code", "ret"}

\* The cache is the same: code, wrappers and answers may differ.
Same(s, t) ==
    /\ IsState(t) /\ t.dst = s.dst
    /\ t.la = s.la /\ t.content = s.content /\ t.dirty = s.dirty /\ t.r64 = s.r64

\* The same but for the times of the last access.
SameButLa(s, t) ==
    /\ IsState(t) /\ t.dst = s.dst
    /\ t.content = s.content /\ t.dirty = s.dirty /\ t.r64 = s.r64

LEMMA EmitSame ==
    ASSUME NEW s, IsState(s), NEW ops
    PROVE  Same(s, emit(s, ops)) /\ emit(s, ops).ret = s.ret
  BY DEF emit, Same, IsState

LEMMA NeedSame ==
    ASSUME NEW s, IsState(s), NEW x, NEW from, NEW v
    PROVE  Same(s, need(s, x, from, v))
  BY DEF need, Same, IsState

LEMMA UnusedSame ==
    ASSUME NEW s, IsState(s), NEW x
    PROVE  Same(s, mark_unused(s, x))
<1> DEFINE t == need(s, x, s.fs[x], Null)
<1>1. Same(s, t)
  BY NeedSame
<1> HIDE DEF t
<1>2. Same(s, [t EXCEPT !.fs[x] = IF @ > s.dst THEN @ ELSE s.dst + 1])
  BY <1>1 DEF Same, IsState
<1> QED BY <1>2 DEF mark_unused, Same, IsState, t

LEMMA LoadSame ==
    ASSUME NEW s, IsState(s), NEW x, NEW a
    PROVE  Same(s, load(s, x, a)) /\ load(s, x, a).ret = s.ret
<1>1. Same(s, s)
  BY DEF Same
<1> QED BY <1>1, EmitSame DEF load

LEMMA MarkFreeEffect ==
    ASSUME NEW s, IsState(s), NEW x
    PROVE  SameButLa(s, mark_free(s, x)) /\ mark_free(s, x).la = [s.la EXCEPT ![x] = 0]
  BY DEF mark_free, SameButLa, IsState

LEMMA SimplifySame ==
    ASSUME NEW s, IsState(s)
    PROVE  Same(s, simplify_access(s))
  BY DEF simplify_access, Same, IsState

-----------------------------------------------------------------------------
(* Requests                                                                *)

\* A register and its other half are free afterwards, and nothing else changes.
LEMMA FreeEffect ==
    ASSUME NEW s, IsState(s), Consistent(s), NEW reg \in X86
    PROVE  LET r == free_register(s, reg)
           IN  /\ SameButLa(s, r) /\ Consistent(r)
               /\ \A z \in X86 : r.la[z] = IF z = reg \/ (Cached(s, reg) /\ z = s.r64[reg])
                                           THEN 0 ELSE s.la[z]
<1> DEFINE r == free_register(s, reg)
<1>t. /\ s.dst \in Nat /\ s.la \in [X86 -> Nat] /\ s.content \in [X86 -> Content]
      /\ s.r64 \in [X86 -> X86 \cup {None}]
  BY DEF Consistent, Good
<1>1. CASE ~Cached(s, reg)
  <2>1. r = mark_unused(s, reg)
    BY <1>1 DEF free_register
  <2>2. Same(s, r)
    BY <2>1, UnusedSame
  <2> HIDE DEF r
  <2>3. SameButLa(s, r) /\ r.la = s.la /\ Consistent(r)
    BY <2>2 DEF Same, SameButLa, Consistent
  <2>4. s.la[reg] = 0
    BY <1>1 DEF Cached
  <2> QED BY <1>1, <2>3, <2>4 DEF r
<1>2. CASE Cached(s, reg)
  <2> DEFINE x == IF Paired(s, reg) /\ s.content[reg][2] = 1 THEN s.r64[reg] ELSE reg
             y == s.r64[x]
             n == need(s, x, s.la[x] + 1, written_back(s, x))
             p == IF y = None THEN n ELSE need(n, y, s.la[x] + 1, written_back(s, y))
             w == emit(p, write_back(s, x))
  <2>0. r = IF y = None THEN mark_free(w, x) ELSE mark_free(mark_free(w, x), y)
    BY <1>2 DEF free_register
  <2>1. /\ x \in X86 /\ s.la[x] # 0 /\ (y = None \/ y \in X86)
        /\ {z \in X86 : z = x \/ z = y} = {z \in X86 : z = reg \/ z = s.r64[reg]}
    <3>1. CASE Paired(s, reg) /\ s.content[reg][2] = 1
      <4>1. x = s.r64[reg] /\ s.r64[reg] # None /\ s.la[reg] # 0
        BY <1>2, <3>1 DEF Paired, Cached
      <4>2. x \in X86 /\ s.la[x] # 0 /\ y = reg
        BY <4>1 DEF Consistent, Good
      <4> QED BY <4>1, <4>2
    <3>2. CASE ~(Paired(s, reg) /\ s.content[reg][2] = 1)
      <4>1. x = reg /\ y = s.r64[reg] /\ s.la[x] # 0
        BY <1>2, <3>2 DEF Cached
      <4> QED BY <1>t, <4>1
    <3> QED BY <3>1, <3>2
  <2> HIDE DEF x, y
  <2>2. Same(s, n)
    BY NeedSame
  <2> HIDE DEF n
  <2>3. Same(s, p)
    <3>1. IsState(n)
      BY <2>2 DEF Same
    <3> QED BY <2>2, <3>1, NeedSame DEF Same
  <2> HIDE DEF p
  <2>4. Same(s, w)
    <3>1. IsState(p)
      BY <2>3 DEF Same
    <3> QED BY <2>3, <3>1, EmitSame DEF Same
  <2> HIDE DEF w
  <2> DEFINE f == mark_free(w, x)
             g == mark_free(f, y)
  <2>5. SameButLa(s, f) /\ f.la = [s.la EXCEPT ![x] = 0]
    <3>1. IsState(w)
      BY <2>4 DEF Same
    <3> QED BY <2>4, <3>1, MarkFreeEffect DEF Same, SameButLa
  <2> HIDE DEF f
  <2>6. SameButLa(s, g) /\ g.la = [f.la EXCEPT ![y] = 0]
    <3>1. IsState(f)
      BY <2>5 DEF SameButLa
    <3> QED BY <2>5, <3>1, MarkFreeEffect DEF SameButLa
  <2> HIDE DEF g
  <2>7. /\ SameButLa(s, r) /\ r.la \in [X86 -> Nat]
        /\ \A z \in X86 : r.la[z] = IF z = x \/ z = y THEN 0 ELSE s.la[z]
    <3>1. CASE y = None
      <4>1. r = f
        BY <2>0, <3>1 DEF f
      <4> QED BY <1>t, <2>1, <2>5, <3>1, <4>1, Names
    <3>2. CASE y # None
      <4>1. r = g
        BY <2>0, <3>2 DEF f, g
      <4>2. \A z \in X86 : f.la[z] = IF z = x THEN 0 ELSE s.la[z]
        BY <1>t, <2>1, <2>5
      <4>3. f.la \in [X86 -> Nat]
        BY <1>t, <2>1, <2>5
      <4>4. r.la \in [X86 -> Nat] /\ \A z \in X86 : r.la[z] = IF z = y THEN 0 ELSE f.la[z]
        BY <2>1, <2>6, <3>2, <4>1, <4>3
      <4> QED BY <2>6, <4>1, <4>2, <4>4
    <3> QED BY <3>1, <3>2
  <2> HIDE DEF r
  <2>8. \A z \in X86 : r.la[z] = IF z = reg \/ (Cached(s, reg) /\ z = s.r64[reg])
                                 THEN 0 ELSE s.la[z]
    BY <1>2, <2>1, <2>7
  <2>9. Good(s.dst, r.la, s.content, s.dirty, s.r64)
    BY <2>7, <2>8, GoodFree DEF Consistent, Cached
  <2>10. Consistent(r)
    BY <2>7, <2>9 DEF Consistent, SameButLa
  <2> QED BY <2>7, <2>8, <2>10 DEF r
<1> QED BY <1>1, <1>2

\* The least recently used register.
LEMMA LruEffect ==
    ASSUME NEW s, Consistent(s), NEW e \in {None} \cup X86
    PROVE  LET x == lru_register_exc1(s, e)
           IN  /\ x \in X86 /\ x # ESP /\ x # e
               /\ \A y \in X86 : y # ESP /\ y # e => s.la[x] <= s.la[y]
<1> DEFINE free == X86 \ {ESP, e}
           P(x) == \A y \in free : s.la[x] < s.la[y] \/ (s.la[x] = s.la[y] /\ x <= y)
           A == {s.la[x] : x \in free}
<1>1. s.la \in [X86 -> Nat] /\ X86 \subseteq Nat
  BY DEF Consistent, Good, X86
<1>2. free # {}
  <2>1. EAX \in X86 /\ ECX \in X86 /\ EAX # ECX /\ EAX # ESP /\ ECX # ESP
    BY Names
  <2> QED BY <2>1
<1>3. A \in SUBSET Nat /\ A # {}
  BY <1>1, <1>2
<1>4. PICK l \in A : \A k \in A : l <= k
  BY <1>3, NatMin
<1> DEFINE B == {x \in free : s.la[x] = l}
<1>5. B \in SUBSET Nat /\ B # {}
  BY <1>1, <1>4
<1>6. PICK x \in B : \A y \in B : x <= y
  BY <1>5, NatMin
<1>7. x \in free /\ P(x)
  <2>1. x \in free /\ s.la[x] = l
    BY <1>6
  <2>2. ASSUME NEW y \in free PROVE s.la[x] < s.la[y] \/ (s.la[x] = s.la[y] /\ x <= y)
    <3>1. s.la[y] \in A /\ l \in Nat /\ s.la[y] \in Nat
      BY <1>1, <1>3, <1>4
    <3>2. l <= s.la[y]
      BY <1>4, <3>1
    <3>3. s.la[y] = l => x <= y
      BY <1>6
    <3> QED BY <2>1, <3>1, <3>2, <3>3
  <2> QED BY <2>1, <2>2
<1>8. lru_register_exc1(s, e) = CHOOSE z \in free : P(z)
  BY DEF lru_register_exc1
<1> HIDE DEF P
<1>9. lru_register_exc1(s, e) \in free /\ P(lru_register_exc1(s, e))
  BY <1>7, <1>8
<1> DEFINE w == lru_register_exc1(s, e)
<1>10. w \in free /\ P(w)
  BY <1>9
<1> HIDE DEF w
<1>11. ASSUME NEW y \in X86, y # ESP, y # e PROVE s.la[w] <= s.la[y]
  <2>1. y \in free /\ w \in X86
    BY <1>10, <1>11
  <2>2. s.la[w] < s.la[y] \/ s.la[w] = s.la[y]
    BY <1>10, <2>1 DEF P
  <2> QED BY <1>1, <2>1, <2>2
<1> QED BY <1>10, <1>11 DEF w

\* The registers used by the current instruction hold halves of the values of T.
BusyIn(s, T) == \A x \in X86 : s.la[x] = s.dst => s.content[x][1] \in T

AtMost(S, k) == IsFiniteSet(S) /\ Cardinality(S) \in Nat /\ Cardinality(S) <= k

LEMMA OneMore ==
    ASSUME NEW S, NEW k \in Nat, AtMost(S, k), NEW x, NEW j, j = k + 1
    PROVE  AtMost(S \cup {x}, j)
<1>1. /\ IsFiniteSet(S \cup {x})
      /\ Cardinality(S \cup {x}) = IF x \in S THEN Cardinality(S) ELSE Cardinality(S) + 1
  BY FS_AddElement DEF AtMost
<1> QED BY <1>1 DEF AtMost

\* Three values have six halves, and there are seven registers: while an
\* instruction uses no more, the least recently used one is none of its own.
LEMMA SpareRegister ==
    ASSUME NEW s, Consistent(s), s.dst > 0, NEW a, NEW b, NEW e, BusyIn(s, {a, b, e})
    PROVE  s.la[lru_register(s)] # s.dst
<1> DEFINE S == X86 \ {ESP}
           T1 == {<<a, 0>>}
           T2 == T1 \cup {<<a, 1>>}
           T3 == T2 \cup {<<b, 0>>}
           T4 == T3 \cup {<<b, 1>>}
           T5 == T4 \cup {<<e, 0>>}
           T == T5 \cup {<<e, 1>>}
<1> SUFFICES ASSUME s.la[lru_register(s)] = s.dst PROVE FALSE
  OBVIOUS
<1>1. s.la \in [X86 -> Nat] /\ s.dst \in Nat /\ \A x \in X86 : s.la[x] <= s.dst
  BY DEF Consistent, Good
<1>2. \A y \in S : s.la[y] = s.dst
  <2>1. \A y \in X86 : y # ESP /\ y # None => s.la[lru_register(s)] <= s.la[y]
    BY LruEffect DEF lru_register
  <2> QED BY <1>1, <2>1, Names
<1>3. IsFiniteSet(S) /\ Cardinality(S) = 7
  <2>1. IsFiniteSet(0 .. 7) /\ Cardinality(0 .. 7) = 8
    <3> DEFINE l == 0
               h == 7
    <3>1. l \in Int /\ h \in Int /\ ~(l > h) /\ h - l + 1 = 8
      OBVIOUS
    <3> HIDE DEF l, h
    <3>2. IsFiniteSet(l .. h) /\ Cardinality(l .. h) = 8
      BY <3>1, FS_Interval
    <3> QED BY <3>2 DEF l, h
  <2>2. ESP \in 0 .. 7
    BY DEF ESP
  <2> QED BY <2>1, <2>2, FS_RemoveElement DEF X86
<1>4. IsFiniteSet(T) /\ Cardinality(T) \in Nat /\ Cardinality(T) < 7
  <2>1. AtMost(T1, 1)
    <3>1. IsFiniteSet({<<a, 0>>}) /\ Cardinality({<<a, 0>>}) = 1
      BY FS_Singleton
    <3> QED BY <3>1 DEF AtMost
  <2> HIDE DEF T1
  <2>2. AtMost(T2, 2)
    <3>1. 2 = 1 + 1
      OBVIOUS
    <3> QED BY <2>1, <3>1, OneMore
  <2> HIDE DEF T2
  <2>3. AtMost(T3, 3)
    <3>1. 3 = 2 + 1
      OBVIOUS
    <3> QED BY <2>2, <3>1, OneMore
  <2> HIDE DEF T3
  <2>4. AtMost(T4, 4)
    <3>1. 4 = 3 + 1
      OBVIOUS
    <3> QED BY <2>3, <3>1, OneMore
  <2> HIDE DEF T4
  <2>5. AtMost(T5, 5)
    <3>1. 5 = 4 + 1
      OBVIOUS
    <3> QED BY <2>4, <3>1, OneMore
  <2> HIDE DEF T5
  <2>6. AtMost(T, 6)
    <3>1. 6 = 5 + 1
      OBVIOUS
    <3> QED BY <2>5, <3>1, OneMore
  <2> QED BY <2>6 DEF AtMost
<1>5. \A x \in S : s.content[x] \in T
  <2> SUFFICES ASSUME NEW x \in S PROVE s.content[x] \in T
    OBVIOUS
  <2>1. s.la[x] = s.dst /\ s.la[x] # 0
    BY <1>1, <1>2
  <2>2. s.content[x] \in Addr /\ s.content[x][1] \in {a, b, e}
    BY <2>1 DEF Consistent, Good, BusyIn
  <2>3. s.content[x] = <<s.content[x][1], 0>> \/ s.content[x] = <<s.content[x][1], 1>>
    BY <2>2, Addresses DEF Low, High
  <2> QED BY <2>2, <2>3
<1> DEFINE f == [x \in S |-> s.content[x]]
<1>6. f \in [S -> T]
  BY <1>5
<1> HIDE DEF T
<1>7. PICK x \in S, y \in S : x # y /\ f[x] = f[y]
  <2>1. Cardinality(T) < Cardinality(S)
    BY <1>3, <1>4
  <2> HIDE DEF S, f
  <2> QED BY <1>3, <1>4, <1>6, <2>1, FS_PigeonHole
<1>8. s.content[x] = s.content[y] /\ s.la[x] # 0 /\ s.la[y] # 0
  BY <1>1, <1>2, <1>7
<1> QED BY <1>7, <1>8 DEF Consistent, Good

LEMMA StateTypes ==
    ASSUME NEW s, Consistent(s)
    PROVE  /\ s.dst \in Nat /\ s.la \in [X86 -> Nat] /\ s.content \in [X86 -> Content]
           /\ s.dirty \in [X86 -> BOOLEAN] /\ s.r64 \in [X86 -> X86 \cup {None}]
           /\ s.la[ESP] = 0
  BY DEF Consistent, Good

\* What the current instruction uses is still there.
Kept(s, r) ==
    \A z \in X86 : s.la[z] = s.dst => r.la[z] = s.dst /\ r.content[z] = s.content[z]

\* r is s after a request that used register x for the low half of n.
Given(s, r, x, n) ==
    /\ IsState(r) /\ Consistent(r) /\ r.dst = s.dst
    /\ x \in X86 /\ r.la[x] = s.dst /\ r.content[x] = Low(n) /\ r.ret = x
    /\ \A T : n \in T /\ BusyIn(s, T) => BusyIn(r, T)

LEMMA TouchEffect ==
    ASSUME NEW s, IsState(s), Consistent(s), s.dst > 0, NEW x \in X86, Cached(s, x)
    PROVE  LET r == touch(s, x)
           IN  /\ SameButLa(s, r) /\ Consistent(r) /\ r.ret = x
               /\ \A z \in X86 : r.la[z] = IF z = x \/ z = s.r64[x] THEN s.dst ELSE s.la[z]
<1>t. /\ s.dst \in Nat /\ s.la \in [X86 -> Nat] /\ s.r64 \in [X86 -> X86 \cup {None}]
      /\ s.r64[x] = None \/ s.r64[x] \in X86
  BY StateTypes
<1> DEFINE one(t, y) == [need(t, y, s.la[y] + 1, s.content[y]) EXCEPT !.la[y] = s.dst]
           a == one(s, x)
           b == one(a, s.r64[x])
           p == IF s.r64[x] = None THEN a ELSE b
           r == [p EXCEPT !.ret = x]
<1>0. r = touch(s, x)
  BY DEF touch
<1>1. ASSUME NEW t, IsState(t), NEW y
      PROVE  SameButLa(t, one(t, y)) /\ one(t, y).la = [t.la EXCEPT ![y] = s.dst]
  <2> DEFINE u == need(t, y, s.la[y] + 1, s.content[y])
  <2>1. Same(t, u)
    BY <1>1, NeedSame
  <2> HIDE DEF u
  <2>2. /\ SameButLa(u, [u EXCEPT !.la[y] = s.dst])
        /\ [u EXCEPT !.la[y] = s.dst].la = [u.la EXCEPT ![y] = s.dst]
    BY <2>1 DEF Same, SameButLa, IsState
  <2> QED BY <2>1, <2>2 DEF Same, SameButLa, u
<1> HIDE DEF one
<1>2. SameButLa(s, a) /\ a.la = [s.la EXCEPT ![x] = s.dst]
  BY <1>1
<1> HIDE DEF a
<1>3. SameButLa(s, b) /\ b.la = [a.la EXCEPT ![s.r64[x]] = s.dst]
  <2>1. IsState(a)
    BY <1>2 DEF SameButLa
  <2> QED BY <1>1, <1>2, <2>1 DEF SameButLa
<1> HIDE DEF b
<1>4. a.la \in [X86 -> Nat] /\ \A z \in X86 : a.la[z] = IF z = x THEN s.dst ELSE s.la[z]
  BY <1>t, <1>2
<1>5. /\ SameButLa(s, p) /\ p.la \in [X86 -> Nat]
      /\ \A z \in X86 : p.la[z] = IF z = x \/ z = s.r64[x] THEN s.dst ELSE s.la[z]
  <2>1. CASE s.r64[x] = None
    BY <1>2, <1>4, <2>1, Names
  <2>2. CASE s.r64[x] # None
    <3>1. s.r64[x] \in X86
      BY <1>t, <2>2
    <3>2. b.la \in [X86 -> Nat]
          /\ \A z \in X86 : b.la[z] = IF z = s.r64[x] THEN s.dst ELSE a.la[z]
      BY <1>t, <1>3, <1>4, <3>1
    <3> QED BY <1>3, <1>4, <2>2, <3>2
  <2> QED BY <2>1, <2>2
<1> HIDE DEF p
<1>6. SameButLa(p, r) /\ r.la = p.la /\ r.ret = x
  BY <1>5 DEF SameButLa, IsState
<1> HIDE DEF r
<1>7. \A z \in X86 : r.la[z] = IF z = x \/ z = s.r64[x] THEN s.dst ELSE s.la[z]
  BY <1>5, <1>6
<1>8. Good(s.dst, r.la, s.content, s.dirty, s.r64)
  BY <1>5, <1>6, <1>7, GoodTouch DEF Consistent, Cached
<1>9. SameButLa(s, r)
  BY <1>5, <1>6 DEF SameButLa
<1>10. Consistent(r)
  BY <1>8, <1>9 DEF Consistent, SameButLa
<1> QED BY <1>0, <1>6, <1>7, <1>9, <1>10

\* A value that is cached is used again.
LEMMA TouchBusy ==
    ASSUME NEW s, IsState(s), Consistent(s), s.dst > 0, NEW n,
           NEW x \in X86, Cached(s, x), s.content[x][1] = n
    PROVE  /\ Kept(s, touch(s, x))
           /\ \A T : n \in T /\ BusyIn(s, T) => BusyIn(touch(s, x), T)
<1> DEFINE r == touch(s, x)
<1>1. /\ SameButLa(s, r)
      /\ \A z \in X86 : r.la[z] = IF z = x \/ z = s.r64[x] THEN s.dst ELSE s.la[z]
  BY TouchEffect
<1> HIDE DEF r
<1>2. ASSUME NEW T, n \in T, BusyIn(s, T) PROVE BusyIn(r, T)
  <2> SUFFICES ASSUME NEW z \in X86, r.la[z] = r.dst PROVE r.content[z][1] \in T
    BY DEF BusyIn
  <2>2. s.r64[x] # None => s.content[s.r64[x]][1] = n
    BY DEF Consistent, Good, Cached
  <2>3. r.content = s.content /\ r.dst = s.dst
    BY <1>1 DEF SameButLa
  <2>4. CASE z = x
    BY <1>2, <2>3, <2>4
  <2>5. CASE z = s.r64[x]
    BY <1>2, <2>2, <2>3, <2>5, Names
  <2>6. CASE z # x /\ z # s.r64[x]
    BY <1>1, <1>2, <2>3, <2>6 DEF BusyIn
  <2> QED BY <2>4, <2>5, <2>6
<1>3. Kept(s, r)
  BY <1>1 DEF Kept, SameButLa
<1> QED BY <1>2, <1>3 DEF r

LEMMA TouchGives ==
    ASSUME NEW s, IsState(s), Consistent(s), s.dst > 0, NEW n \in N64,
           NEW x \in X86, Cached(s, x), s.content[x] = Low(n)
    PROVE  Given(s, touch(s, x), x, n) /\ Kept(s, touch(s, x))
<1> DEFINE r == touch(s, x)
<1>1. /\ SameButLa(s, r) /\ Consistent(r) /\ r.ret = x
      /\ \A z \in X86 : r.la[z] = IF z = x \/ z = s.r64[x] THEN s.dst ELSE s.la[z]
  BY TouchEffect
<1>2. s.content[x][1] = n
  BY Addresses
<1>3. Kept(s, r) /\ \A T : n \in T /\ BusyIn(s, T) => BusyIn(r, T)
  BY <1>2, TouchBusy
<1> HIDE DEF r
<1>4. Given(s, r, x, n)
  BY <1>1, <1>3 DEF Given, SameButLa
<1> QED BY <1>3, <1>4 DEF r

\* A register is freed and given to a value that is cached nowhere.
LEMMA FreeAndTake ==
    ASSUME NEW s, IsState(s), Consistent(s), s.dst > 0, NEW n \in N64, NEW v \in BOOLEAN,
           NEW x \in X86, x # ESP,
           \A z \in X86 : free_register(s, x).la[z] # 0 => s.content[z] # Low(n)
    PROVE  LET r == take(free_register(s, x), x, Low(n), v)
           IN  /\ Given(s, r, x, n) /\ (s.la[x] # s.dst => Kept(s, r))
               /\ r.dirty[x] = v /\ r.r64[x] = None
<1> DEFINE f == free_register(s, x)
           r == take(f, x, Low(n), v)
<1>1. /\ SameButLa(s, f) /\ Consistent(f)
      /\ \A z \in X86 : f.la[z] = IF z = x \/ (Cached(s, x) /\ z = s.r64[x])
                                  THEN 0 ELSE s.la[z]
  BY FreeEffect
<1>h. \A z \in X86 : f.la[z] # 0 => f.content[z] # Low(n)
  BY <1>1 DEF SameButLa
<1> HIDE DEF f
<1>t. /\ f.dst \in Nat /\ f.la \in [X86 -> Nat] /\ f.content \in [X86 -> Content]
      /\ f.dirty \in [X86 -> BOOLEAN] /\ f.r64 \in [X86 -> X86 \cup {None}]
  BY <1>1, StateTypes
<1>a. Low(n) \in Content /\ Low(n)[1] = n
  BY Addresses DEF Content
<1>2. /\ IsState(r) /\ r.dst = f.dst /\ r.ret = x
      /\ r.la = [f.la EXCEPT ![x] = f.dst] /\ r.content = [f.content EXCEPT ![x] = Low(n)]
      /\ r.dirty = [f.dirty EXCEPT ![x] = v] /\ r.r64 = [f.r64 EXCEPT ![x] = None]
  BY <1>1 DEF take, SameButLa, IsState
<1> HIDE DEF r
<1>3. /\ r.la \in [X86 -> Nat] /\ r.content \in [X86 -> Content]
      /\ r.dirty \in [X86 -> BOOLEAN] /\ r.r64 \in [X86 -> X86 \cup {None}]
  BY <1>t, <1>a, <1>2
<1>4. \A z \in X86 : /\ r.la[z] = IF z = x THEN f.dst ELSE f.la[z]
                     /\ r.content[z] = IF z = x THEN Low(n) ELSE f.content[z]
                     /\ r.dirty[z] = IF z = x THEN v ELSE f.dirty[z]
                     /\ r.r64[z] = IF z = x THEN None ELSE f.r64[z]
  BY <1>t, <1>2
<1>5. f.dst > 0 /\ f.la[x] = 0 /\ f.dst = s.dst
  BY <1>1 DEF SameButLa
<1>6. Good(f.dst, r.la, r.content, r.dirty, r.r64)
  <2>1. Good(f.dst, f.la, f.content, f.dirty, f.r64)
    BY <1>1 DEF Consistent
  <2>2. Arrays(r.la, r.content, r.dirty, r.r64)
    BY <1>3 DEF Arrays
  <2>3. At(x, f.la, f.content, f.dirty, f.r64, r.la, r.content, r.dirty, r.r64)
    BY <1>4 DEF At
  <2>4. r.la[x] = f.dst /\ r.content[x] = Low(n) /\ r.dirty[x] = v /\ r.r64[x] = None
    BY <1>4
  <2> QED BY <1>h, <1>5, <2>1, <2>2, <2>3, <2>4, GoodTake
<1>7. Consistent(r)
  BY <1>2, <1>6 DEF Consistent
<1>8. ASSUME NEW T, n \in T, BusyIn(s, T) PROVE BusyIn(r, T)
  <2> SUFFICES ASSUME NEW z \in X86, r.la[z] = r.dst PROVE r.content[z][1] \in T
    BY DEF BusyIn
  <2>1. CASE z = x
    BY <1>a, <1>4, <1>8, <2>1
  <2>2. CASE z # x
    <3>1. f.la[z] = f.dst /\ f.la[z] # 0
      BY <1>2, <1>4, <1>5, <2>2
    <3>2. s.la[z] = s.dst
      BY <1>1, <1>5, <3>1
    <3> QED BY <1>1, <1>4, <1>8, <2>2, <3>2 DEF BusyIn, SameButLa
  <2> QED BY <2>1, <2>2
<1>9. ASSUME s.la[x] # s.dst PROVE Kept(s, r)
  <2> SUFFICES ASSUME NEW z \in X86, s.la[z] = s.dst
               PROVE  r.la[z] = s.dst /\ r.content[z] = s.content[z]
    BY DEF Kept
  <2>1. z # x
    BY <1>9
  <2>2. ~(Cached(s, x) /\ z = s.r64[x])
    BY <1>9, Names DEF Consistent, Good, Cached
  <2> QED BY <1>1, <1>4, <2>1, <2>2 DEF SameButLa
<1>10. Given(s, r, x, n)
  BY <1>2, <1>4, <1>5, <1>7, <1>8 DEF Given
<1> QED BY <1>4, <1>9, <1>10 DEF r, f

\* allocate_register of a low half.
LEMMA RegisterEffect ==
    ASSUME NEW s, IsState(s), Consistent(s), s.dst > 0, NEW n \in N64
    PROVE  LET r == allocate_register(s, Low(n))
               x == r.ret
           IN  /\ Given(s, r, x, n) /\ (s.la[lru_register(s)] # s.dst => Kept(s, r))
               /\ \/ x \in Holders(s, Low(n)) /\ SameButLa(s, r)
                  \/ Holders(s, Low(n)) = {} /\ r.dirty[x] = FALSE /\ r.r64[x] = None
<1> DEFINE r == allocate_register(s, Low(n))
<1>0. Low(n) # Null
  BY Addresses
<1>1. CASE Holders(s, Low(n)) # {}
  <2> DEFINE x == CHOOSE y \in Holders(s, Low(n)) : TRUE
  <2>1. x \in Holders(s, Low(n))
    BY <1>1
  <2>2. r = touch(s, x)
    BY <1>0, <1>1 DEF allocate_register
  <2> HIDE DEF x
  <2>3. x \in X86 /\ Cached(s, x) /\ s.content[x] = Low(n)
    BY <2>1 DEF Holders
  <2>4. Given(s, r, x, n) /\ Kept(s, r)
    BY <2>2, <2>3, TouchGives
  <2>5. SameButLa(s, r) /\ r.ret = x
    BY <2>2, <2>3, TouchEffect
  <2> QED BY <2>1, <2>4, <2>5
<1>2. CASE Holders(s, Low(n)) = {}
  <2> DEFINE x == lru_register(s)
             f == free_register(s, x)
             t == take(f, x, Low(n), FALSE)
  <2>1. r = load(t, x, Low(n))
    BY <1>0, <1>2 DEF allocate_register
  <2>2. x \in X86 /\ x # ESP
    BY LruEffect DEF lru_register
  <2>l. (s.la[x] # s.dst) <=> (s.la[lru_register(s)] # s.dst)
    OBVIOUS
  <2> HIDE DEF x
  <2>3. \A z \in X86 : f.la[z] # 0 => s.content[z] # Low(n)
    <3>1. \A z \in X86 : f.la[z] # 0 => s.la[z] # 0
      BY <2>2, FreeEffect
    <3> QED BY <1>2, <3>1 DEF Holders, Cached
  <2>4. /\ Given(s, t, x, n) /\ (s.la[x] # s.dst => Kept(s, t))
        /\ t.dirty[x] = FALSE /\ t.r64[x] = None
    BY <2>2, <2>3, FreeAndTake
  <2> HIDE DEF f, t
  <2>5. Same(t, r) /\ r.ret = t.ret
    BY <2>1, <2>4, LoadSame DEF Given
  <2>6. Given(s, r, x, n) /\ (s.la[x] # s.dst => Kept(s, r))
        /\ r.dirty[x] = FALSE /\ r.r64[x] = None /\ r.ret = x
    BY <2>4, <2>5 DEF Given, Kept, Same, Consistent, BusyIn
  <2> QED BY <1>2, <2>6, <2>l
<1> QED BY <1>1, <1>2

\* f is s without what y and its other half held.
FreedAt(s, f, y) ==
    /\ SameButLa(s, f) /\ Consistent(f)
    /\ \A z \in X86 : f.la[z] = IF z = y \/ (Cached(s, y) /\ z = s.r64[y]) THEN 0 ELSE s.la[z]

\* The high half of n joins the low one in x, in a register the instruction
\* does not use.
LEMMA JoinKeeps ==
    ASSUME NEW s, IsState(s), Consistent(s), s.dst > 0, NEW n \in N64,
           NEW x \in X86, s.la[x] = s.dst, s.content[x] = Low(n), s.r64[x] = None,
           NEW y \in X86, y # ESP, s.la[y] # s.dst,
           NEW f, FreedAt(s, f, y),
           NEW r, r.dst = s.dst, Arrays(r.la, r.content, r.dirty, r.r64),
           Joins(x, y, n, f.dst, f.la, f.content, f.dirty, f.r64, r.la, r.content, r.dirty, r.r64)
    PROVE  /\ Consistent(r) /\ Kept(s, r)
           /\ \A T : n \in T /\ BusyIn(s, T) => BusyIn(r, T)
<1>0. /\ f.dst = s.dst /\ f.content = s.content /\ f.dirty = s.dirty /\ f.r64 = s.r64
      /\ Consistent(f)
      /\ \A z \in X86 : f.la[z] = IF z = y \/ (Cached(s, y) /\ z = s.r64[y]) THEN 0 ELSE s.la[z]
  BY DEF FreedAt, SameButLa
<1>t. /\ f.dst \in Nat /\ f.la \in [X86 -> Nat] /\ f.content \in [X86 -> Content]
      /\ f.dirty \in [X86 -> BOOLEAN] /\ f.r64 \in [X86 -> X86 \cup {None}]
  BY <1>0, StateTypes
<1>a. High(n) \in Content /\ High(n)[1] = n
  BY Addresses DEF Content
<1>1. x # y /\ ~(Cached(s, y) /\ x = s.r64[y])
  BY Names DEF Consistent, Good, Cached
<1>2. f.la[x] = f.dst /\ f.la[y] = 0 /\ f.content[x] = Low(n) /\ f.r64[x] = None /\ f.dst > 0
  BY <1>0, <1>1
<1>3. \A z \in X86 : /\ r.la[z] = IF z = y THEN f.dst ELSE f.la[z]
                     /\ r.content[z] = IF z = y THEN High(n) ELSE f.content[z]
  BY DEF Joins
<1>5. /\ r.la[x] = f.dst /\ r.content[x] = f.content[x] /\ r.dirty[x] = f.dirty[x] /\ r.r64[x] = y
      /\ r.la[y] = f.dst /\ r.content[y] = High(n) /\ r.dirty[y] = f.dirty[x] /\ r.r64[y] = x
  BY <1>1, <1>2 DEF Joins
<1>6. Good(f.dst, r.la, r.content, r.dirty, r.r64)
  <2>1. Good(f.dst, f.la, f.content, f.dirty, f.r64)
    BY <1>0 DEF Consistent
  <2> QED BY <1>1, <1>2, <1>5, <2>1, GoodJoin
<1>7. Consistent(r)
  BY <1>0, <1>6 DEF Consistent
<1>8. ASSUME NEW T, n \in T, BusyIn(s, T) PROVE BusyIn(r, T)
  <2> SUFFICES ASSUME NEW z \in X86, r.la[z] = r.dst PROVE r.content[z][1] \in T
    BY DEF BusyIn
  <2>1. CASE z = y
    BY <1>a, <1>5, <1>8, <2>1
  <2>2. CASE z # y
    <3>1. r.la[z] = f.la[z] /\ r.content[z] = s.content[z] /\ f.la[z] # 0
      BY <1>0, <1>2, <1>3, <2>2
    <3>2. s.la[z] = s.dst
      BY <1>0, <3>1
    <3> QED BY <1>8, <3>1, <3>2 DEF BusyIn
  <2> QED BY <2>1, <2>2
<1>9. Kept(s, r)
  <2> SUFFICES ASSUME NEW z \in X86, s.la[z] = s.dst
               PROVE  r.la[z] = s.dst /\ r.content[z] = s.content[z]
    BY DEF Kept
  <2>1. z # y
    OBVIOUS
  <2>2. ~(Cached(s, y) /\ z = s.r64[y])
    BY Names DEF Consistent, Good, Cached
  <2> QED BY <1>0, <1>3, <2>1, <2>2
<1> QED BY <1>7, <1>8, <1>9

LEMMA DropEffect ==
    ASSUME NEW s, IsState(s), Consistent(s), NEW x \in X86, NEW v
    PROVE  LET r == drop_pair(s, x, v)
           IN  /\ IsState(r) /\ r.dst = s.dst /\ r.content = s.content /\ r.dirty = s.dirty
               /\ Arrays(r.la, r.content, r.dirty, r.r64)
               /\ \A z \in X86 : /\ r.la[z] = IF z = s.r64[x] THEN 0 ELSE s.la[z]
                                 /\ r.r64[z] = IF z = x THEN None ELSE s.r64[z]
<1> DEFINE r == drop_pair(s, x, v)
<1>t. /\ s.dst \in Nat /\ s.la \in [X86 -> Nat] /\ s.content \in [X86 -> Content]
      /\ s.dirty \in [X86 -> BOOLEAN] /\ s.r64 \in [X86 -> X86 \cup {None}]
  BY StateTypes
<1>1. CASE s.r64[x] = None
  <2>1. r = s
    BY <1>1 DEF drop_pair
  <2> HIDE DEF r
  <2>2. Arrays(r.la, r.content, r.dirty, r.r64)
    BY <1>t, <2>1 DEF Arrays
  <2> QED BY <1>1, <2>1, <2>2, Names DEF r
<1>2. CASE s.r64[x] # None
  <2> DEFINE y == s.r64[x]
             a == need(s, y, s.la[y] + 1, v)
             b == mark_free(a, y)
  <2>0. y \in X86 /\ y = s.r64[x]
    BY <1>t, <1>2
  <2>1. r = [b EXCEPT !.r64[x] = None]
    BY <1>2 DEF drop_pair
  <2> HIDE DEF y
  <2>2. Same(s, a)
    BY NeedSame
  <2> HIDE DEF a
  <2>3. SameButLa(s, b) /\ b.la = [s.la EXCEPT ![y] = 0]
    <3>1. IsState(a)
      BY <2>2 DEF Same
    <3>2. SameButLa(a, b) /\ b.la = [a.la EXCEPT ![y] = 0]
      BY <3>1, MarkFreeEffect
    <3> QED BY <2>2, <3>2 DEF Same, SameButLa
  <2> HIDE DEF b, r
  <2>4. /\ IsState(r) /\ r.dst = b.dst /\ r.content = b.content /\ r.dirty = b.dirty
        /\ r.la = b.la /\ r.r64 = [b.r64 EXCEPT ![x] = None]
    BY <2>1, <2>3 DEF SameButLa, IsState
  <2>5. r.r64 = [s.r64 EXCEPT ![x] = None] /\ r.la = [s.la EXCEPT ![y] = 0]
    BY <2>3, <2>4 DEF SameButLa
  <2>6. Arrays(r.la, r.content, r.dirty, r.r64)
    BY <1>t, <2>0, <2>3, <2>4, <2>5 DEF Arrays, SameButLa
  <2>7. \A z \in X86 : /\ r.la[z] = IF z = s.r64[x] THEN 0 ELSE s.la[z]
                       /\ r.r64[z] = IF z = x THEN None ELSE s.r64[z]
    BY <1>t, <2>0, <2>5
  <2> QED BY <2>3, <2>4, <2>6, <2>7 DEF SameButLa, r
<1> QED BY <1>1, <1>2

\* Of a cached value that is about to be written, the low half is kept.
LEMMA DropKeeps ==
    ASSUME NEW s, IsState(s), Consistent(s), s.dst > 0, NEW n \in N64,
           NEW x \in X86, Cached(s, x), s.content[x] = Low(n),
           NEW e \in 1 .. s.dst, NEW v \in BOOLEAN,
           NEW r, IsState(r), r.dst = s.dst, r.content = s.content,
           Arrays(r.la, r.content, r.dirty, r.r64),
           Drops(x, e, v, s.la, s.dirty, s.r64, r.la, r.dirty, r.r64)
    PROVE  /\ Consistent(r)
           /\ \A T : n \in T /\ BusyIn(s, T) => BusyIn(r, T)
           /\ s.r64[x] = None /\ e = s.dst => Kept(s, r)
<1>1. s.content[x][2] = 0 /\ s.la[x] # 0 /\ s.content[x][1] = n
  BY Addresses DEF Cached
<1>2. Good(s.dst, s.la, s.content, s.dirty, s.r64) /\ Arrays(r.la, s.content, r.dirty, r.r64)
  BY DEF Consistent
<1>3. Good(s.dst, r.la, s.content, r.dirty, r.r64)
  BY <1>1, <1>2, GoodDrop
<1>4. Consistent(r)
  BY <1>3 DEF Consistent
<1>5. \A z \in X86 : r.la[z] = IF z = x THEN e ELSE IF z = s.r64[x] THEN 0 ELSE s.la[z]
  BY DEF Drops
<1>6. ASSUME NEW T, n \in T, BusyIn(s, T) PROVE BusyIn(r, T)
  BY <1>1, <1>5, <1>6 DEF BusyIn
<1>7. ASSUME s.r64[x] = None, e = s.dst PROVE Kept(s, r)
  BY <1>5, <1>7, Names DEF Kept
<1> QED BY <1>4, <1>6, <1>7

\* allocate_register_w of a low half.
LEMMA RegisterWEffect ==
    ASSUME NEW s, IsState(s), Consistent(s), s.dst > 0, NEW n \in N64
    PROVE  LET r == allocate_register_w(s, Low(n))
               x == r.ret
           IN  /\ Given(s, r, x, n) /\ r.dirty[x] = TRUE /\ r.r64[x] = None
               /\ s.la[lru_register(s)] # s.dst /\ (\A z \in Holders(s, Low(n)) : s.r64[z] = None)
                    => Kept(s, r)
<1> DEFINE r == allocate_register_w(s, Low(n))
<1>1. CASE Holders(s, Low(n)) # {}
  <2> DEFINE x == CHOOSE y \in Holders(s, Low(n)) : TRUE
             a == need(s, x, s.la[x] + 1, Null)
             b == drop_pair(a, x, Null)
  <2>1. x \in Holders(s, Low(n))
    BY <1>1
  <2>2. r = [b EXCEPT !.la[x] = s.dst, !.dirty[x] = TRUE, !.ret = x]
    BY <1>1 DEF allocate_register_w
  <2> HIDE DEF x, r
  <2>3. x \in X86 /\ Cached(s, x) /\ s.content[x] = Low(n)
    BY <2>1 DEF Holders
  <2>4. Same(s, a)
    BY NeedSame
  <2> HIDE DEF a
  <2>5. IsState(a) /\ Consistent(a)
    BY <2>4 DEF Same, Consistent
  <2>6. /\ IsState(b) /\ b.dst = s.dst /\ b.content = s.content /\ b.dirty = s.dirty
        /\ Arrays(b.la, b.content, b.dirty, b.r64)
        /\ \A z \in X86 : /\ b.la[z] = IF z = s.r64[x] THEN 0 ELSE s.la[z]
                          /\ b.r64[z] = IF z = x THEN None ELSE s.r64[z]
    BY <2>3, <2>4, <2>5, DropEffect DEF Same
  <2> HIDE DEF b
  <2>t. s.dst \in Nat
    BY StateTypes
  <2>7. /\ IsState(r) /\ r.dst = b.dst /\ r.content = b.content /\ r.r64 = b.r64 /\ r.ret = x
        /\ r.la = [b.la EXCEPT ![x] = s.dst] /\ r.dirty = [b.dirty EXCEPT ![x] = TRUE]
    BY <2>2, <2>6 DEF IsState
  <2>8. Arrays(r.la, r.content, r.dirty, r.r64)
    BY <2>t, <2>3, <2>6, <2>7 DEF Arrays
  <2>9. b.la \in [X86 -> Nat] /\ b.dirty \in [X86 -> BOOLEAN]
    BY <2>6 DEF Arrays
  <2> DEFINE v == TRUE
  <2>v. v \in BOOLEAN /\ v = TRUE
    OBVIOUS
  <2> HIDE DEF v
  <2>10. Drops(x, s.dst, v, s.la, s.dirty, s.r64, r.la, r.dirty, r.r64)
    <3>1. \A z \in X86 : r.la[z] = IF z = x THEN s.dst ELSE IF z = s.r64[x] THEN 0 ELSE s.la[z]
      BY <2>3, <2>6, <2>7, <2>9
    <3>2. r.dirty = [b.dirty EXCEPT ![x] = v]
      BY <2>7, <2>v
    <3>3. \A z \in X86 : r.dirty[z] = IF z = x THEN v ELSE b.dirty[z]
      BY <2>3, <2>9, <3>2
    <3>4. \A z \in X86 : r.dirty[z] = IF z = x THEN v ELSE s.dirty[z]
      BY <2>6, <3>3
    <3>5. \A z \in X86 : r.r64[z] = IF z = x THEN None ELSE s.r64[z]
      BY <2>6, <2>7
    <3> QED BY <3>1, <3>4, <3>5 DEF Drops
  <2>11. s.dst \in 1 .. s.dst
    BY <2>t
  <2>a. r.dst = s.dst /\ r.content = s.content /\ IsState(r)
    BY <2>6, <2>7
  <2>12. /\ Consistent(r)
         /\ \A T : n \in T /\ BusyIn(s, T) => BusyIn(r, T)
         /\ s.r64[x] = None => Kept(s, r)
    BY <2>v, <2>3, <2>a, <2>8, <2>10, <2>11, DropKeeps
  <2>13. r.la[x] = s.dst /\ r.dirty[x] = TRUE /\ r.r64[x] = None
    BY <2>v, <2>3, <2>10 DEF Drops
  <2>14. Given(s, r, x, n)
    BY <2>3, <2>6, <2>7, <2>12, <2>13 DEF Given
  <2> QED BY <2>1, <2>7, <2>12, <2>13, <2>14 DEF r
<1>2. CASE Holders(s, Low(n)) = {}
  <2> DEFINE x == lru_register(s)
             f == free_register(s, x)
  <2>1. r = take(f, x, Low(n), TRUE)
    BY <1>2 DEF allocate_register_w
  <2>2. x \in X86 /\ x # ESP
    BY LruEffect DEF lru_register
  <2>l. (s.la[x] # s.dst) <=> (s.la[lru_register(s)] # s.dst)
    OBVIOUS
  <2> HIDE DEF x, r
  <2>3. \A z \in X86 : f.la[z] # 0 => s.content[z] # Low(n)
    <3>1. \A z \in X86 : f.la[z] # 0 => s.la[z] # 0
      BY <2>2, FreeEffect
    <3> QED BY <1>2, <3>1 DEF Holders, Cached
  <2>4. /\ Given(s, r, x, n) /\ (s.la[x] # s.dst => Kept(s, r))
        /\ r.dirty[x] = TRUE /\ r.r64[x] = None
    BY <2>1, <2>2, <2>3, FreeAndTake
  <2>5. r.ret = x
    BY <2>4 DEF Given
  <2> QED BY <2>4, <2>5, <2>l DEF r
<1> QED BY <1>1, <1>2

\* No more than three values.
Few(T) == \E a, b, e : T = {a, b, e}

\* The register cache between two requests of an instruction.
Ready(s) == IsState(s) /\ Consistent(s) /\ s.dst > 0

LEMMA SpareAmongFew ==
    ASSUME NEW s, Ready(s), NEW T, Few(T), BusyIn(s, T)
    PROVE  s.la[lru_register(s)] # s.dst
<1>1. PICK a, b, e : T = {a, b, e}
  BY DEF Few
<1> QED BY <1>1, SpareRegister DEF Ready

\* A register that is given away, field by field.
LEMMA TakeEffect ==
    ASSUME NEW f, IsState(f), NEW x \in X86, NEW a, NEW v
    PROVE  LET t == take(f, x, a, v)
           IN  /\ IsState(t) /\ t.dst = f.dst /\ t.ret = x
               /\ t.la = [f.la EXCEPT ![x] = f.dst] /\ t.content = [f.content EXCEPT ![x] = a]
               /\ t.dirty = [f.dirty EXCEPT ![x] = v] /\ t.r64 = [f.r64 EXCEPT ![x] = None]
  BY DEF take, IsState

Linked(s, x, y, r) ==
    /\ IsState(r) /\ r.dst = s.dst /\ r.la = s.la /\ r.content = s.content /\ r.dirty = s.dirty
    /\ r.r64 = [[s.r64 EXCEPT ![x] = y] EXCEPT ![y] = x] /\ r.ret = x

LEMMA PairFields ==
    ASSUME NEW s, IsState(s), NEW x, NEW y
    PROVE  Linked(s, x, y, pair(s, x, y))
  BY DEF pair, IsState, Linked

\* The high half is loaded.
LEMMA JoinMemory ==
    ASSUME NEW s, Ready(s), NEW n \in N64,
           NEW x \in X86, s.la[x] = s.dst, s.content[x] = Low(n), s.r64[x] = None, ~s.dirty[x],
           s.la[lru_register(s)] # s.dst, Holders(s, High(n)) = {}
    PROVE  LET r == pair(allocate_register(s, High(n)), x, allocate_register(s, High(n)).ret)
           IN  Given(s, r, x, n) /\ Kept(s, r)
<1> DEFINE y == lru_register(s)
           f == free_register(s, y)
           v == FALSE
           t == take(f, y, High(n), v)
           q == load(t, y, High(n))
           r == pair(q, x, q.ret)
<1>0. High(n) # Null /\ High(n) \in Content /\ Low(n)[1] = n
  BY Addresses DEF Content
<1>1. allocate_register(s, High(n)) = q
  BY <1>0 DEF allocate_register
<1>2. y \in X86 /\ y # ESP /\ s.la[y] # s.dst
  BY LruEffect DEF lru_register, Ready
<1>v. v \in BOOLEAN /\ v = FALSE
  OBVIOUS
<1> HIDE DEF y, v
<1>3. FreedAt(s, f, y)
  BY <1>2, FreeEffect DEF FreedAt, Ready
<1> HIDE DEF f
<1>4. /\ f.dst = s.dst /\ f.content = s.content /\ f.dirty = s.dirty /\ f.r64 = s.r64
      /\ Consistent(f) /\ IsState(f)
  BY <1>3 DEF FreedAt, SameButLa
<1>t. /\ f.dst \in Nat /\ f.la \in [X86 -> Nat] /\ f.content \in [X86 -> Content]
      /\ f.dirty \in [X86 -> BOOLEAN] /\ f.r64 \in [X86 -> X86 \cup {None}]
  BY <1>4, StateTypes
<1>5. /\ IsState(t) /\ t.dst = f.dst /\ t.ret = y
      /\ t.la = [f.la EXCEPT ![y] = f.dst] /\ t.content = [f.content EXCEPT ![y] = High(n)]
      /\ t.dirty = [f.dirty EXCEPT ![y] = v] /\ t.r64 = [f.r64 EXCEPT ![y] = None]
  BY <1>2, <1>4, TakeEffect
<1> HIDE DEF t
<1>6. Same(t, q) /\ q.ret = y
  BY <1>5, LoadSame
<1> HIDE DEF q
<1>7. /\ IsState(r) /\ r.dst = q.dst /\ r.la = q.la /\ r.content = q.content
      /\ r.dirty = q.dirty /\ r.r64 = [[q.r64 EXCEPT ![x] = y] EXCEPT ![y] = x]
      /\ r.ret = x
  <2>1. IsState(q)
    BY <1>6 DEF Same
  <2>2. r = pair(q, x, y)
    BY <1>6
  <2> HIDE DEF r
  <2>3. Linked(q, x, y, r)
    BY <2>1, <2>2, PairFields
  <2> QED BY <2>3 DEF Linked
<1>r. r = pair(q, x, q.ret)
  OBVIOUS
<1> HIDE DEF r
<1>8. /\ r.dst = f.dst /\ r.la = [f.la EXCEPT ![y] = f.dst]
      /\ r.content = [f.content EXCEPT ![y] = High(n)] /\ r.dirty = [f.dirty EXCEPT ![y] = v]
      /\ r.r64 = [[[f.r64 EXCEPT ![y] = None] EXCEPT ![x] = y] EXCEPT ![y] = x]
  BY <1>5, <1>6, <1>7 DEF Same
<1>9. Arrays(r.la, r.content, r.dirty, r.r64)
  BY <1>0, <1>2, <1>t, <1>v, <1>8 DEF Arrays
<1>d. f.dirty[x] = v
  BY <1>4, <1>v, <1>t
<1>10. Joins(x, y, n, f.dst, f.la, f.content, f.dirty, f.r64, r.la, r.content, r.dirty, r.r64)
  BY <1>2, <1>t, <1>8, <1>d DEF Joins
<1>11. /\ Consistent(r) /\ Kept(s, r) /\ \A T : n \in T /\ BusyIn(s, T) => BusyIn(r, T)
  BY <1>2, <1>3, <1>4, <1>8, <1>9, <1>10, JoinKeeps DEF Ready
<1>12. Given(s, r, x, n)
  BY <1>4, <1>7, <1>8, <1>11 DEF Given, Kept
<1> QED BY <1>1, <1>r, <1>11, <1>12

Extended(s, x, y, r) ==
    /\ IsState(r) /\ r.dst = s.dst /\ r.la = s.la /\ r.r64 = s.r64 /\ r.ret = s.ret
    /\ r.content = [s.content EXCEPT ![y] = High(s.content[x][1])]
    /\ r.dirty = [s.dirty EXCEPT ![y] = TRUE]

LEMMA ExtendFields ==
    ASSUME NEW s, IsState(s), NEW x, NEW y
    PROVE  Extended(s, x, y, extend_sign(s, x, y))
  BY DEF extend_sign, emit, IsState, Extended

\* The high half is the sign of the low one.
LEMMA JoinSign ==
    ASSUME NEW s, Ready(s), NEW n \in N64,
           NEW x \in X86, s.la[x] = s.dst, s.content[x] = Low(n), s.r64[x] = None, s.dirty[x],
           s.la[lru_register(s)] # s.dst
    PROVE  LET q == allocate_register(s, Null)
               r == extend_sign(pair(q, x, q.ret), x, q.ret)
           IN  Given(s, r, x, n) /\ Kept(s, r)
<1> DEFINE y == lru_register(s)
           f == free_register(s, y)
           u == FALSE
           v == TRUE
           t == take(f, y, Null, u)
           q == load(t, y, Null)
           p == pair(q, x, q.ret)
           r == extend_sign(p, x, q.ret)
<1>0. High(n) \in Content /\ Null \in Content /\ Low(n)[1] = n
  BY Addresses DEF Content
<1>1. allocate_register(s, Null) = q
  BY DEF allocate_register
<1>2. y \in X86 /\ y # ESP /\ s.la[y] # s.dst /\ x # y
  BY LruEffect DEF lru_register, Ready
<1>v. v \in BOOLEAN /\ v = TRUE /\ u \in BOOLEAN
  OBVIOUS
<1> HIDE DEF y, u, v
<1>3. FreedAt(s, f, y)
  BY <1>2, FreeEffect DEF FreedAt, Ready
<1> HIDE DEF f
<1>4. /\ f.dst = s.dst /\ f.content = s.content /\ f.dirty = s.dirty /\ f.r64 = s.r64
      /\ Consistent(f) /\ IsState(f)
  BY <1>3 DEF FreedAt, SameButLa
<1>t. /\ f.dst \in Nat /\ f.la \in [X86 -> Nat] /\ f.content \in [X86 -> Content]
      /\ f.dirty \in [X86 -> BOOLEAN] /\ f.r64 \in [X86 -> X86 \cup {None}]
  BY <1>4, StateTypes
<1>5. /\ IsState(t) /\ t.dst = f.dst /\ t.ret = y
      /\ t.la = [f.la EXCEPT ![y] = f.dst] /\ t.content = [f.content EXCEPT ![y] = Null]
      /\ t.dirty = [f.dirty EXCEPT ![y] = u] /\ t.r64 = [f.r64 EXCEPT ![y] = None]
  BY <1>2, <1>4, TakeEffect
<1> HIDE DEF t
<1>6. Same(t, q) /\ q.ret = y /\ IsState(q)
  BY <1>5, LoadSame DEF Same
<1> HIDE DEF q
<1>7. Linked(q, x, y, p)
  <2>1. p = pair(q, x, y)
    BY <1>6
  <2> HIDE DEF p
  <2> QED BY <1>6, <2>1, PairFields
<1>p. p = pair(q, x, q.ret)
  OBVIOUS
<1> HIDE DEF p
<1>8. Extended(p, x, y, r)
  <2>1. r = extend_sign(p, x, y)
    BY <1>6
  <2>2. IsState(p)
    BY <1>7 DEF Linked
  <2> HIDE DEF r
  <2> QED BY <2>1, <2>2, ExtendFields
<1>r. r = extend_sign(p, x, q.ret)
  OBVIOUS
<1> HIDE DEF r
<1>9. /\ p.dst = f.dst /\ p.la = [f.la EXCEPT ![y] = f.dst]
      /\ p.content = [f.content EXCEPT ![y] = Null] /\ p.dirty = [f.dirty EXCEPT ![y] = u]
      /\ p.r64 = [[[f.r64 EXCEPT ![y] = None] EXCEPT ![x] = y] EXCEPT ![y] = x]
      /\ p.ret = x
  BY <1>5, <1>6, <1>7 DEF Same, Linked
<1>10. p.content[x][1] = n
  BY <1>0, <1>2, <1>4, <1>t, <1>9
<1>11. /\ r.dst = f.dst /\ r.la = [f.la EXCEPT ![y] = f.dst]
       /\ r.content = [[f.content EXCEPT ![y] = Null] EXCEPT ![y] = High(n)]
       /\ r.dirty = [[f.dirty EXCEPT ![y] = u] EXCEPT ![y] = v]
       /\ r.r64 = [[[f.r64 EXCEPT ![y] = None] EXCEPT ![x] = y] EXCEPT ![y] = x]
       /\ r.ret = x /\ IsState(r)
  BY <1>8, <1>9, <1>10, <1>v DEF Extended
<1>12. Arrays(r.la, r.content, r.dirty, r.r64)
  BY <1>0, <1>2, <1>t, <1>v, <1>11 DEF Arrays
<1>d. f.dirty[x] = v
  BY <1>4, <1>v, <1>t
<1>13. Joins(x, y, n, f.dst, f.la, f.content, f.dirty, f.r64, r.la, r.content, r.dirty, r.r64)
  BY <1>2, <1>t, <1>11, <1>d DEF Joins
<1>14. /\ Consistent(r) /\ Kept(s, r) /\ \A T : n \in T /\ BusyIn(s, T) => BusyIn(r, T)
  BY <1>2, <1>3, <1>4, <1>11, <1>12, <1>13, JoinKeeps DEF Ready
<1>15. Given(s, r, x, n)
  BY <1>4, <1>11, <1>14 DEF Given, Kept
<1> QED BY <1>1, <1>p, <1>r, <1>14, <1>15

\* The two halves of a value are known to each other.
LEMMA HalvesMeet ==
    ASSUME NEW s, Consistent(s), NEW n \in N64,
           NEW x \in X86, Cached(s, x), s.content[x] = Low(n)
    PROVE  /\ s.r64[x] # None => s.r64[x] \in Holders(s, High(n))
           /\ \A y \in Holders(s, High(n)) : s.r64[x] = y /\ s.r64[y] = x
<1>0. /\ Low(n)[1] = n /\ Low(n)[2] = 0 /\ High(n)[1] = n /\ High(n)[2] = 1
  BY Addresses
<1>1. ASSUME s.r64[x] # None PROVE s.r64[x] \in Holders(s, High(n))
  <2> DEFINE y == s.r64[x]
  <2>1. y \in X86 /\ s.la[y] # 0 /\ s.content[y][1] = n /\ s.content[y][2] # 0 /\ s.content[y] \in Addr
    BY <1>0, <1>1 DEF Consistent, Good, Cached
  <2>2. s.content[y] = High(n)
    BY <2>1, Addresses
  <2> QED BY <2>1, <2>2 DEF Holders, Cached
<1>2. ASSUME NEW y \in Holders(s, High(n)) PROVE s.r64[x] = y /\ s.r64[y] = x
  <2>1. y \in X86 /\ s.la[y] # 0 /\ s.content[y] = High(n)
    BY DEF Holders, Cached
  <2>2. /\ s.r64[y] # None /\ s.r64[y] \in X86 /\ s.la[s.r64[y]] # 0 /\ s.r64[s.r64[y]] = y
        /\ s.content[s.r64[y]][1] = n /\ s.content[s.r64[y]][2] # 1 /\ s.content[s.r64[y]] \in Addr
    BY <1>0, <2>1, Names DEF Consistent, Good
  <2>3. s.content[s.r64[y]] = Low(n)
    BY <2>2, Addresses
  <2>4. s.r64[y] = x
    BY <2>2, <2>3 DEF Consistent, Good, Cached
  <2> QED BY <2>2, <2>4
<1> QED BY <1>1, <1>2

LEMMA GivenThen ==
    ASSUME NEW s, NEW t, NEW r, NEW x, NEW n, Given(s, t, x, n), Kept(s, t),
           Given(t, r, x, n), Kept(t, r)
    PROVE  Given(s, r, x, n) /\ Kept(s, r)
<1>1. Given(s, r, x, n)
  BY DEF Given
<1>2. Kept(s, r)
  BY DEF Kept, Given
<1> QED BY <1>1, <1>2

\* The high half of n is cached, with the low one.
LEMMA JoinHeld ==
    ASSUME NEW s, Ready(s), NEW n \in N64,
           NEW x \in X86, s.la[x] = s.dst, s.content[x] = Low(n), Holders(s, High(n)) # {}
    PROVE  LET q == allocate_register(s, High(n))
               r == pair(q, x, q.ret)
           IN  Given(s, r, x, n) /\ Kept(s, r)
<1> DEFINE y == CHOOSE z \in Holders(s, High(n)) : TRUE
           q == touch(s, y)
           r == pair(q, x, q.ret)
<1>0. High(n) # Null /\ High(n)[1] = n
  BY Addresses
<1>1. allocate_register(s, High(n)) = q
  BY <1>0 DEF allocate_register
<1>2. y \in Holders(s, High(n))
  OBVIOUS
<1> HIDE DEF y
<1>3. y \in X86 /\ Cached(s, y) /\ s.content[y] = High(n) /\ s.content[y][1] = n
  BY <1>0, <1>2 DEF Holders
<1>4. Cached(s, x) /\ s.dst \in Nat
  BY StateTypes DEF Ready, Cached
<1>5. s.r64[x] = y /\ s.r64[y] = x
  BY <1>2, <1>4, HalvesMeet DEF Ready
<1>6. SameButLa(s, q) /\ Consistent(q) /\ q.ret = y
      /\ \A z \in X86 : q.la[z] = IF z = y \/ z = s.r64[y] THEN s.dst ELSE s.la[z]
  BY <1>3, TouchEffect DEF Ready
<1>7. Kept(s, q) /\ \A T : n \in T /\ BusyIn(s, T) => BusyIn(q, T)
  BY <1>3, TouchBusy DEF Ready
<1> HIDE DEF q
<1>8. Linked(q, x, y, r)
  <2>1. r = pair(q, x, y)
    BY <1>6
  <2>2. IsState(q)
    BY <1>6 DEF SameButLa
  <2> HIDE DEF r
  <2> QED BY <2>1, <2>2, PairFields
<1>r. r = pair(q, x, q.ret)
  OBVIOUS
<1> HIDE DEF r
<1>9. r.r64 = q.r64
  <2>1. r.r64 = [[q.r64 EXCEPT ![x] = y] EXCEPT ![y] = x] /\ q.r64 = s.r64
    BY <1>6, <1>8 DEF Linked, SameButLa
  <2>2. s.r64 \in [X86 -> X86 \cup {None}]
    BY StateTypes DEF Ready
  <2> QED BY <1>3, <1>5, <2>1, <2>2
<1>10. Same(q, r) /\ r.ret = x
  BY <1>8, <1>9 DEF Same, Linked
<1>11. Consistent(r) /\ Kept(s, r) /\ \A T : n \in T /\ BusyIn(s, T) => BusyIn(r, T)
  BY <1>6, <1>7, <1>10 DEF Same, Consistent, Kept, BusyIn
<1>12. Given(s, r, x, n)
  BY <1>6, <1>10, <1>11 DEF Given, Same, SameButLa, Kept
<1> QED BY <1>1, <1>r, <1>11, <1>12

\* allocate_64_register1 and allocate_64_register2.
LEMMA PairEffect ==
    ASSUME NEW s, Ready(s), NEW n \in N64, NEW T, Few(T), n \in T, BusyIn(s, T)
    PROVE  LET r == allocate_64_register(s, n)
           IN  Given(s, r, r.ret, n) /\ Kept(s, r)
<1> DEFINE narrow == \E x \in Holders(s, Low(n)) : s.r64[x] = None /\ s.dirty[x]
           t == allocate_register(s, Low(n))
           x == t.ret
           q == allocate_register(t, IF narrow THEN Null ELSE High(n))
           r == allocate_64_register(s, n)
<1>1. r = join(q, x, narrow)
  BY DEF allocate_64_register, allocate_high
<1>s. /\ Given(s, t, x, n) /\ (s.la[lru_register(s)] # s.dst => Kept(s, t))
      /\ \/ x \in Holders(s, Low(n)) /\ SameButLa(s, t)
         \/ Holders(s, Low(n)) = {} /\ t.dirty[x] = FALSE /\ t.r64[x] = None
  BY RegisterEffect DEF Ready
<1>2. Given(s, t, x, n) /\ Kept(s, t)
  BY <1>s, SpareAmongFew
<1>n. narrow <=> \E z \in Holders(s, Low(n)) : s.r64[z] = None /\ s.dirty[z]
  OBVIOUS
<1> HIDE DEF t, r, narrow
<1>3. Ready(t) /\ BusyIn(t, T) /\ x \in X86 /\ t.la[x] = t.dst /\ t.content[x] = Low(n)
  BY <1>2 DEF Given, Ready
<1>4. t.la[lru_register(t)] # t.dst
  BY <1>3, SpareAmongFew
<1>5. \A z \in Holders(s, Low(n)) : x \in Holders(s, Low(n)) => z = x
  BY DEF Holders, Cached, Ready, Consistent, Good
<1>6. CASE narrow
  <2>1. x \in Holders(s, Low(n)) /\ SameButLa(s, t) /\ s.r64[x] = None /\ s.dirty[x]
    BY <1>s, <1>5, <1>6, <1>n
  <2>2. t.r64[x] = None /\ t.dirty[x]
    BY <2>1 DEF SameButLa
  <2>3. r = extend_sign(pair(q, x, q.ret), x, q.ret) /\ q = allocate_register(t, Null)
    BY <1>1, <1>6 DEF join
  <2> HIDE DEF x
  <2>4. Given(t, r, x, n) /\ Kept(t, r)
    BY <1>3, <1>4, <2>2, <2>3, JoinSign
  <2>5. Given(s, r, x, n) /\ Kept(s, r)
    BY <1>2, <2>4, GivenThen
  <2> QED BY <2>5 DEF r, Given
<1>7. CASE ~narrow
  <2>1. r = pair(q, x, q.ret) /\ q = allocate_register(t, High(n))
    BY <1>1, <1>7 DEF join
  <2>2. CASE Holders(t, High(n)) # {}
    <3> HIDE DEF x
    <3>1. Given(t, r, x, n) /\ Kept(t, r)
      BY <1>3, <2>1, <2>2, JoinHeld
    <3>2. Given(s, r, x, n) /\ Kept(s, r)
      BY <1>2, <3>1, GivenThen
    <3> QED BY <3>2 DEF r, Given
  <2>3. CASE Holders(t, High(n)) = {}
    <3>1. t.r64[x] = None
      <4>1. Cached(t, x) /\ Consistent(t)
        BY <1>3, StateTypes DEF Ready, Cached
      <4> QED BY <1>3, <2>3, <4>1, HalvesMeet
    <3>2. ~t.dirty[x]
      <4>1. CASE x \in Holders(s, Low(n)) /\ SameButLa(s, t)
        BY <1>7, <1>n, <3>1, <4>1 DEF SameButLa
      <4>2. CASE t.dirty[x] = FALSE
        BY <4>2
      <4> QED BY <1>s, <4>1, <4>2
    <3> HIDE DEF x
    <3>3. Given(t, r, x, n) /\ Kept(t, r)
      BY <1>3, <1>4, <2>1, <2>3, <3>1, <3>2, JoinMemory
    <3>4. Given(s, r, x, n) /\ Kept(s, r)
      BY <1>2, <3>3, GivenThen
    <3> QED BY <3>4 DEF r, Given
  <2> QED BY <2>2, <2>3
<1> QED BY <1>6, <1>7

Widened(f, x, y, n, r) ==
    /\ IsState(r) /\ r.dst = f.dst /\ r.ret = x
    /\ r.la = [f.la EXCEPT ![y] = f.dst] /\ r.content = [f.content EXCEPT ![y] = High(n)]
    /\ r.dirty = [f.dirty EXCEPT ![y] = TRUE]
    /\ r.r64 = [[f.r64 EXCEPT ![x] = y] EXCEPT ![y] = x]

LEMMA WidenFields ==
    ASSUME NEW s, NEW x, NEW y, NEW n, NEW new, NEW f, IsState(f), f.dst = s.dst,
           f = IF new \/ Cached(s, y) THEN free_register(s, y) ELSE s
    PROVE  Widened(f, x, y, n, widen(s, x, y, n, new))
<1> DEFINE g == [f EXCEPT !.la[y] = s.dst]
           p == pair(g, x, y)
           r == widen(s, x, y, n, new)
<1>1. IsState(g) /\ g.dst = f.dst /\ g.la = [f.la EXCEPT ![y] = f.dst] /\ g.content = f.content
      /\ g.dirty = f.dirty /\ g.r64 = f.r64
  BY DEF IsState
<1>2. r = [p EXCEPT !.content[y] = High(n), !.dirty[y] = TRUE]
  BY DEF widen
<1> HIDE DEF g, r
<1>3. Linked(g, x, y, p)
  BY <1>1, PairFields
<1> HIDE DEF p
<1>4. /\ IsState(r) /\ r.dst = p.dst /\ r.la = p.la /\ r.r64 = p.r64 /\ r.ret = p.ret
      /\ r.content = [p.content EXCEPT ![y] = High(n)] /\ r.dirty = [p.dirty EXCEPT ![y] = TRUE]
  BY <1>2, <1>3 DEF IsState, Linked
<1> QED BY <1>1, <1>3, <1>4 DEF Linked, Widened, r

\* The high half of n, that is about to be written, joins the low one.
LEMMA JoinWritten ==
    ASSUME NEW s, Ready(s), NEW n \in N64,
           NEW x \in X86, s.la[x] = s.dst, s.content[x] = Low(n), s.r64[x] = None, s.dirty[x],
           x = s.ret, s.la[lru_register(s)] # s.dst, NEW new
    PROVE  LET r == allocate_high_w(s, n, new)
           IN  Given(s, r, x, n) /\ Kept(s, r)
<1> DEFINE y == lru_register(s)
           f == IF new \/ Cached(s, y) THEN free_register(s, y) ELSE s
           w == widen(s, x, y, n, new)
           r == allocate_high_w(s, n, new)
           v == TRUE
<1>0. High(n) \in Content /\ Null \in Content /\ Low(n)[1] = n
  BY Addresses DEF Content
<1>1. \/ r = w
      \/ r = extend_sign(w, x, y)
  <2>1. CASE new
    <3>1. new = TRUE \/ new # TRUE
      OBVIOUS
    <3>2. w = widen(s, x, y, n, TRUE)
      BY <2>1 DEF widen
    <3> QED BY <2>1, <3>2 DEF allocate_high_w
  <2>2. CASE ~new
    <3>2. w = widen(s, x, y, n, FALSE)
      BY <2>2 DEF widen
    <3> QED BY <2>2, <3>2 DEF allocate_high_w
  <2> QED BY <2>1, <2>2
<1>2. y \in X86 /\ y # ESP /\ s.la[y] # s.dst /\ x # y
  BY LruEffect DEF lru_register, Ready
<1>v. v \in BOOLEAN /\ v = TRUE
  OBVIOUS
<1> HIDE DEF y, v, r
<1>3. FreedAt(s, f, y)
  <2>1. CASE new \/ Cached(s, y)
    <3>1. f = free_register(s, y)
      BY <2>1
    <3> HIDE DEF f
    <3> QED BY <1>2, <3>1, FreeEffect DEF FreedAt, Ready
  <2>2. CASE ~(new \/ Cached(s, y))
    <3>1. f = s
      BY <2>2
    <3> HIDE DEF f
    <3>2. SameButLa(s, f) /\ Consistent(f)
      BY <3>1 DEF SameButLa, Ready
    <3>3. s.la[y] = 0
      BY <2>2 DEF Cached
    <3> QED BY <2>2, <3>1, <3>2, <3>3 DEF FreedAt
  <2> QED BY <2>1, <2>2
<1>f. f = IF new \/ Cached(s, y) THEN free_register(s, y) ELSE s
  OBVIOUS
<1> HIDE DEF f
<1>4. /\ f.dst = s.dst /\ f.content = s.content /\ f.dirty = s.dirty /\ f.r64 = s.r64
      /\ Consistent(f) /\ IsState(f)
  BY <1>3 DEF FreedAt, SameButLa
<1>t. /\ f.dst \in Nat /\ f.la \in [X86 -> Nat] /\ f.content \in [X86 -> Content]
      /\ f.dirty \in [X86 -> BOOLEAN] /\ f.r64 \in [X86 -> X86 \cup {None}]
  BY <1>4, StateTypes
<1>5. Widened(f, x, y, n, w)
  BY <1>4, <1>f, WidenFields
<1> HIDE DEF w
<1>6. /\ w.dst = f.dst /\ w.la = [f.la EXCEPT ![y] = f.dst]
      /\ w.content = [f.content EXCEPT ![y] = High(n)]
      /\ w.dirty = [f.dirty EXCEPT ![y] = v]
      /\ w.r64 = [[f.r64 EXCEPT ![x] = y] EXCEPT ![y] = x]
      /\ w.ret = x /\ IsState(w)
  BY <1>5, <1>v DEF Widened
<1>7. w.content[x][1] = n
  BY <1>0, <1>2, <1>4, <1>t, <1>6
<1>d. f.dirty[x] = v
  BY <1>4, <1>v, <1>t
<1>8. /\ r.dst = f.dst /\ r.ret = x /\ IsState(r)
      /\ Arrays(r.la, r.content, r.dirty, r.r64)
      /\ Joins(x, y, n, f.dst, f.la, f.content, f.dirty, f.r64, r.la, r.content, r.dirty, r.r64)
  <2>1. CASE r = w
    <3>1. Arrays(r.la, r.content, r.dirty, r.r64)
      <4>1. Arrays(w.la, w.content, w.dirty, w.r64)
        <5>1. w.la \in [X86 -> Nat] /\ w.content \in [X86 -> Content] /\ w.dirty \in [X86 -> BOOLEAN]
          BY <1>0, <1>2, <1>t, <1>v, <1>6
        <5>2. w.r64 \in [X86 -> X86 \cup {None}]
          BY <1>2, <1>t, <1>6
        <5> QED BY <5>1, <5>2 DEF Arrays
      <4> QED BY <4>1, <2>1
    <3>2. Joins(x, y, n, f.dst, f.la, f.content, f.dirty, f.r64, r.la, r.content, r.dirty, r.r64)
      BY <1>2, <1>t, <1>6, <1>d, <2>1 DEF Joins
    <3> QED BY <1>6, <2>1, <3>1, <3>2
  <2>2. CASE r = extend_sign(w, x, y)
    <3>1. Extended(w, x, y, r)
      BY <1>6, <2>2, ExtendFields
    <3>2. /\ r.dst = f.dst /\ r.la = [f.la EXCEPT ![y] = f.dst]
          /\ r.content = [[f.content EXCEPT ![y] = High(n)] EXCEPT ![y] = High(n)]
          /\ r.dirty = [[f.dirty EXCEPT ![y] = v] EXCEPT ![y] = v]
          /\ r.r64 = [[f.r64 EXCEPT ![x] = y] EXCEPT ![y] = x]
          /\ r.ret = x /\ IsState(r)
      BY <1>v, <1>6, <1>7, <3>1 DEF Extended
    <3>3. Arrays(r.la, r.content, r.dirty, r.r64)
      BY <1>0, <1>2, <1>t, <1>v, <3>2 DEF Arrays
    <3>4. Joins(x, y, n, f.dst, f.la, f.content, f.dirty, f.r64, r.la, r.content, r.dirty, r.r64)
      BY <1>2, <1>t, <3>2, <1>d DEF Joins
    <3> QED BY <3>2, <3>3, <3>4
  <2> QED BY <1>1, <2>1, <2>2
<1>9. /\ Consistent(r) /\ Kept(s, r) /\ \A T : n \in T /\ BusyIn(s, T) => BusyIn(r, T)
  BY <1>2, <1>3, <1>4, <1>8, JoinKeeps DEF Ready
<1>10. Given(s, r, x, n)
  BY <1>4, <1>8, <1>9 DEF Given, Kept
<1> QED BY <1>9, <1>10 DEF r

WroteBoth(s, x, y, v, r) ==
    /\ IsState(r) /\ r.dst = s.dst /\ r.content = s.content /\ r.r64 = s.r64 /\ r.ret = x
    /\ r.la = [[s.la EXCEPT ![x] = s.dst] EXCEPT ![y] = s.dst]
    /\ r.dirty = [[s.dirty EXCEPT ![x] = v] EXCEPT ![y] = v]

\* Both halves of n are cached, and about to be written.
LEMMA WriteKeeps ==
    ASSUME NEW s, Ready(s), NEW n \in N64,
           NEW x \in X86, Cached(s, x), s.content[x] = Low(n),
           NEW y \in X86, y = s.r64[x], NEW v \in BOOLEAN,
           NEW r, WroteBoth(s, x, y, v, r)
    PROVE  Given(s, r, x, n) /\ Kept(s, r)
<1>t. /\ s.dst \in Nat /\ s.la \in [X86 -> Nat] /\ s.content \in [X86 -> Content]
      /\ s.dirty \in [X86 -> BOOLEAN] /\ s.r64 \in [X86 -> X86 \cup {None}] /\ s.dst > 0
  BY StateTypes DEF Ready
<1>0. /\ IsState(r) /\ r.dst = s.dst /\ r.content = s.content /\ r.r64 = s.r64 /\ r.ret = x
      /\ r.la = [[s.la EXCEPT ![x] = s.dst] EXCEPT ![y] = s.dst]
      /\ r.dirty = [[s.dirty EXCEPT ![x] = v] EXCEPT ![y] = v]
  BY DEF WroteBoth
<1>1. s.content[x][1] = n /\ s.content[y][1] = n /\ s.r64[x] # None
  BY <1>t, Addresses, Names DEF Ready, Consistent, Good, Cached
<1>3. r.la \in [X86 -> Nat] /\ r.dirty \in [X86 -> BOOLEAN]
  BY <1>0, <1>t
<1>4. \A z \in X86 : /\ r.la[z] = IF z = x \/ z = s.r64[x] THEN s.dst ELSE s.la[z]
                     /\ r.dirty[z] = IF z = x \/ z = s.r64[x] THEN v ELSE s.dirty[z]
  BY <1>0, <1>t
<1>5. Good(s.dst, r.la, s.content, r.dirty, s.r64)
  <2>1. Good(s.dst, s.la, s.content, s.dirty, s.r64) /\ s.la[x] # 0
    BY DEF Ready, Consistent, Cached
  <2>2. Writes(x, s.dst, v, s.la, s.dirty, s.r64, r.la, r.dirty)
    BY <1>4 DEF Writes
  <2> QED BY <1>t, <1>1, <1>3, <2>1, <2>2, GoodWrite
<1>6. Consistent(r)
  BY <1>0, <1>5 DEF Consistent
<1>7. ASSUME NEW T, n \in T, BusyIn(s, T) PROVE BusyIn(r, T)
  BY <1>0, <1>1, <1>4, <1>7 DEF BusyIn
<1>8. Kept(s, r)
  BY <1>0, <1>4 DEF Kept
<1>9. Given(s, r, x, n)
  BY <1>0, <1>4, <1>6, <1>7 DEF Given
<1> QED BY <1>8, <1>9

LEMMA WriteHeld ==
    ASSUME NEW s, Ready(s), NEW n \in N64,
           NEW x \in X86, Cached(s, x), s.content[x] = Low(n), s.r64[x] # None,
           NEW r, r = [s EXCEPT !.la[x] = s.dst, !.la[s.r64[x]] = s.dst,
                                !.dirty[x] = TRUE, !.dirty[s.r64[x]] = TRUE, !.ret = x]
    PROVE  Given(s, r, x, n) /\ Kept(s, r)
<1> DEFINE y == s.r64[x]
           v == TRUE
<1>1. y \in X86 /\ y = s.r64[x]
  BY StateTypes DEF Ready
<1>2. WroteBoth(s, x, y, v, r)
  BY DEF Ready, IsState, WroteBoth
<1>v. v \in BOOLEAN
  OBVIOUS
<1> HIDE DEF y, v
<1> QED BY <1>1, <1>2, <1>v, WriteKeeps

\* allocate_64_register1_w and allocate_64_register2_w.
LEMMA PairWEffect ==
    ASSUME NEW s, Ready(s), NEW n \in N64, NEW T, Few(T), n \in T, BusyIn(s, T)
    PROVE  LET r == allocate_64_register_w(s, n)
           IN  Given(s, r, r.ret, n) /\ Kept(s, r)
<1> DEFINE r == allocate_64_register_w(s, n)
           H == Holders(s, Low(n))
<1>1. CASE \A x \in H : s.r64[x] = None
  <2> DEFINE t == allocate_register_w(s, Low(n))
             x == t.ret
             new == H = {}
  <2>1. r = allocate_high_w(t, n, new)
    BY <1>1 DEF allocate_64_register_w
  <2>2. /\ Given(s, t, x, n) /\ t.dirty[x] = TRUE /\ t.r64[x] = None
        /\ s.la[lru_register(s)] # s.dst /\ (\A z \in Holders(s, Low(n)) : s.r64[z] = None)
             => Kept(s, t)
    BY RegisterWEffect DEF Ready
  <2> HIDE DEF t, new
  <2>3. Kept(s, t)
    BY <1>1, <2>2, SpareAmongFew
  <2>4. Ready(t) /\ BusyIn(t, T) /\ x \in X86 /\ t.la[x] = t.dst /\ t.content[x] = Low(n)
    BY <2>2 DEF Given, Ready
  <2>5. t.la[lru_register(t)] # t.dst
    BY <2>4, SpareAmongFew
  <2>6. t.dirty[x] /\ x = t.ret
    BY <2>2
  <2>x. t.r64[x] = None /\ Given(s, t, x, n)
    BY <2>2
  <2> HIDE DEF x, r
  <2>7. Given(t, r, x, n) /\ Kept(t, r)
    BY <2>1, <2>x, <2>4, <2>5, <2>6, JoinWritten
  <2>8. Given(s, r, x, n) /\ Kept(s, r)
    BY <2>x, <2>3, <2>7, GivenThen
  <2> QED BY <2>8 DEF r, Given
<1>2. CASE ~(\A x \in H : s.r64[x] = None)
  <2> DEFINE x == CHOOSE y \in H : TRUE
  <2>1. r = [s EXCEPT !.la[x] = s.dst, !.la[s.r64[x]] = s.dst,
                      !.dirty[x] = TRUE, !.dirty[s.r64[x]] = TRUE, !.ret = x]
    BY <1>2 DEF allocate_64_register_w
  <2>2. x \in H
    BY <1>2
  <2> HIDE DEF x
  <2>3. \A z \in H : z = x
    BY <2>2 DEF Holders, Cached, Ready, Consistent, Good
  <2>4. x \in X86 /\ Cached(s, x) /\ s.content[x] = Low(n) /\ s.r64[x] # None
    BY <1>2, <2>2, <2>3 DEF Holders
  <2> HIDE DEF r, H
  <2>5. Given(s, r, x, n) /\ Kept(s, r)
    BY <2>1, <2>4, WriteHeld
  <2> QED BY <2>5 DEF r, Given
<1> QED BY <1>1, <1>2

Moves(x, y, d, la, co, di, r6, l2, c2, d2, r2) ==
    \A z \in X86 : /\ l2[z] = IF z = y THEN 0 ELSE IF z = x THEN d ELSE la[z]
                   /\ c2[z] = IF z = x THEN co[y] ELSE co[z]
                   /\ d2[z] = IF z = x THEN di[y] ELSE di[z]
                   /\ r2[z] = IF z = r6[y] THEN x ELSE IF z = x THEN r6[y] ELSE r6[z]

\* A value that the instruction uses moves to the free register x.
LEMMA MoveKeeps ==
    ASSUME NEW t, Ready(t), NEW n \in N64, NEW x \in X86, x # ESP, t.la[x] = 0,
           NEW y \in X86, t.la[y] = t.dst, t.content[y] = Low(n),
           NEW r, IsState(r), r.dst = t.dst, r.ret = x, Arrays(r.la, r.content, r.dirty, r.r64),
           Moves(x, y, t.dst, t.la, t.content, t.dirty, t.r64, r.la, r.content, r.dirty, r.r64)
    PROVE  Given(t, r, x, n)
<1>0. \A z \in X86 :
          /\ r.la[z] = IF z = y THEN 0 ELSE IF z = x THEN t.dst ELSE t.la[z]
          /\ r.content[z] = IF z = x THEN t.content[y] ELSE t.content[z]
          /\ r.dirty[z] = IF z = x THEN t.dirty[y] ELSE t.dirty[z]
          /\ r.r64[z] = IF z = t.r64[y] THEN x ELSE IF z = x THEN t.r64[y] ELSE t.r64[z]
  BY DEF Moves
<1>1. /\ r.la \in [X86 -> Nat] /\ r.content \in [X86 -> Content]
      /\ r.dirty \in [X86 -> BOOLEAN] /\ r.r64 \in [X86 -> X86 \cup {None}]
  BY DEF Arrays
<1>2. Good(t.dst, t.la, t.content, t.dirty, t.r64) /\ t.dst > 0 /\ x # y /\ t.dst \in Nat
  BY StateTypes DEF Ready, Consistent
<1>3. Good(t.dst, r.la, r.content, r.dirty, r.r64)
  BY <1>0, <1>1, <1>2, GoodMove
<1>4. Consistent(r)
  BY <1>3 DEF Consistent
<1>5. r.la[x] = t.dst /\ r.content[x] = Low(n) /\ Low(n)[1] = n
  BY <1>0, <1>2, Addresses
<1>6. ASSUME NEW T, n \in T, BusyIn(t, T) PROVE BusyIn(r, T)
  BY <1>0, <1>2, <1>5, <1>6 DEF BusyIn
<1> QED BY <1>4, <1>5, <1>6 DEF Given

Moved(t, x, y, a, r) ==
    LET m == [t.r64 EXCEPT ![x] = t.r64[y]]
    IN  /\ IsState(r) /\ r.dst = t.dst /\ r.ret = x
        /\ r.la = [[t.la EXCEPT ![x] = t.dst] EXCEPT ![y] = 0]
        /\ r.content = [t.content EXCEPT ![x] = a]
        /\ r.dirty = [t.dirty EXCEPT ![x] = t.dirty[y]]
        /\ r.r64 = IF t.r64[y] = None THEN m ELSE [m EXCEPT ![t.r64[y]] = x]

LEMMA MovedFields ==
    ASSUME NEW t, IsState(t), NEW x, NEW y, NEW a, NEW d, d = t.dst
    PROVE  LET moved == [emit(t, << <<"mov", x, y>> >>) EXCEPT
                     !.la[x] = d, !.r64[x] = t.r64[y], !.dirty[x] = t.dirty[y],
                     !.content[x] = a, !.ret = x]
               partner == IF t.r64[y] = None THEN moved ELSE [moved EXCEPT !.r64[t.r64[y]] = x]
           IN  Moved(t, x, y, a, mark_free(partner, y))
<1> DEFINE e == emit(t, << <<"mov", x, y>> >>)
           moved == [e EXCEPT
                     !.la[x] = d, !.r64[x] = t.r64[y], !.dirty[x] = t.dirty[y],
                     !.content[x] = a, !.ret = x]
           partner == IF t.r64[y] = None THEN moved ELSE [moved EXCEPT !.r64[t.r64[y]] = x]
           r == mark_free(partner, y)
<1>1. Same(t, e)
  BY EmitSame
<1> HIDE DEF e
<1>2. /\ IsState(moved) /\ moved.dst = t.dst /\ moved.ret = x
      /\ moved.la = [t.la EXCEPT ![x] = t.dst] /\ moved.content = [t.content EXCEPT ![x] = a]
      /\ moved.dirty = [t.dirty EXCEPT ![x] = t.dirty[y]]
      /\ moved.r64 = [t.r64 EXCEPT ![x] = t.r64[y]]
  BY <1>1 DEF Same, IsState
<1> HIDE DEF moved
<1>3. /\ IsState(partner) /\ partner.dst = moved.dst /\ partner.ret = x
      /\ partner.la = moved.la /\ partner.content = moved.content /\ partner.dirty = moved.dirty
      /\ partner.r64 = IF t.r64[y] = None THEN moved.r64 ELSE [moved.r64 EXCEPT ![t.r64[y]] = x]
  BY <1>2 DEF IsState
<1> HIDE DEF partner
<1>4. SameButLa(partner, r) /\ r.la = [partner.la EXCEPT ![y] = 0] /\ r.ret = partner.ret
  <2>1. SameButLa(partner, r) /\ r.la = [partner.la EXCEPT ![y] = 0]
    BY <1>3, MarkFreeEffect
  <2>2. r.ret = partner.ret
    BY <1>3 DEF mark_free, IsState
  <2> QED BY <2>1, <2>2
<1> HIDE DEF r
<1>5. Moved(t, x, y, a, r)
  BY <1>2, <1>3, <1>4 DEF Moved, SameButLa
<1> QED BY <1>5 DEF r, partner, moved, e

\* allocate_register_manually of a low half.
LEMMA ManuallyEffect ==
    ASSUME NEW s, Ready(s), NEW n \in N64, NEW x \in X86, x # ESP
    PROVE  Given(s, allocate_register_manually(s, x, Low(n)), x, n)
<1> DEFINE f == free_register(s, x)
           held == Holders(f, Low(n))
           r == allocate_register_manually(s, x, Low(n))
<1>f. /\ SameButLa(s, f) /\ Consistent(f)
      /\ \A z \in X86 : f.la[z] = IF z = x \/ (Cached(s, x) /\ z = s.r64[x]) THEN 0 ELSE s.la[z]
  BY FreeEffect DEF Ready
<1>g. Ready(f)
  BY <1>f DEF SameButLa, Ready
<1>1. CASE x \in Holders(s, Low(n))
  <2>1. r = touch(s, x)
    BY <1>1 DEF allocate_register_manually
  <2>2. Cached(s, x) /\ s.content[x] = Low(n)
    BY <1>1 DEF Holders
  <2> QED BY <2>1, <2>2, TouchGives DEF Ready
<1>2. CASE x \notin Holders(s, Low(n)) /\ held = {}
  <2> DEFINE t == take(f, x, Low(n), FALSE)
  <2>1. r = load(t, x, Low(n))
    BY <1>2 DEF allocate_register_manually
  <2>2. \A z \in X86 : f.la[z] # 0 => s.content[z] # Low(n)
    BY <1>2, <1>f DEF Holders, Cached, SameButLa
  <2>3. Given(s, t, x, n)
    BY <2>2, FreeAndTake DEF Ready
  <2> HIDE DEF t, r
  <2>4. Same(t, r) /\ r.ret = t.ret
    BY <2>1, <2>3, LoadSame DEF Given
  <2>5. Given(s, r, x, n)
    BY <2>3, <2>4 DEF Given, Same, Consistent, BusyIn
  <2> QED BY <2>5 DEF r
<1>3. CASE x \notin Holders(s, Low(n)) /\ held # {}
  <2> DEFINE y == CHOOSE z \in held : TRUE
             t == touch(f, y)
             moved == [emit(t, << <<"mov", x, y>> >>) EXCEPT
                     !.la[x] = s.dst, !.r64[x] = t.r64[y], !.dirty[x] = t.dirty[y],
                     !.content[x] = Low(n), !.ret = x]
             partner == IF t.r64[y] = None THEN moved ELSE [moved EXCEPT !.r64[t.r64[y]] = x]
  <2>1. r = mark_free(partner, y)
    BY <1>3 DEF allocate_register_manually
  <2>2. y \in held
    BY <1>3
  <2> HIDE DEF y, f, r
  <2>3. y \in X86 /\ Cached(f, y) /\ f.content[y] = Low(n)
    BY <2>2 DEF Holders
  <2>4. /\ SameButLa(f, t) /\ Consistent(t)
        /\ \A z \in X86 : t.la[z] = IF z = y \/ z = f.r64[y] THEN f.dst ELSE f.la[z]
    BY <1>g, <2>3, TouchEffect DEF Ready
  <2>5. Given(f, t, y, n)
    BY <1>g, <2>3, TouchGives DEF Ready
  <2> HIDE DEF t
  <2>6. /\ Ready(t) /\ t.dst = s.dst /\ t.la[y] = t.dst /\ t.content[y] = Low(n)
        /\ t.la[x] = 0 /\ x # y /\ IsState(t)
    <3>1. Ready(t) /\ t.dst = s.dst /\ t.la[y] = t.dst /\ t.content[y] = Low(n) /\ IsState(t)
      BY <1>f, <1>g, <2>5 DEF Given, Ready, SameButLa
    <3>2. f.la[x] = 0 /\ f.la[y] # 0
      BY <1>f, <2>3 DEF Cached
    <3>3. x # f.r64[y]
      BY <1>g, <3>2, <2>3, Names DEF Ready, Consistent, Good, Cached, SameButLa
    <3> QED BY <2>4, <3>1, <3>2, <3>3
  <2>7. Moved(t, x, y, Low(n), r)
    BY <2>1, <2>6, MovedFields
  <2> HIDE DEF moved, partner
  <2>8. /\ t.dst \in Nat /\ t.la \in [X86 -> Nat] /\ t.content \in [X86 -> Content]
        /\ t.dirty \in [X86 -> BOOLEAN] /\ t.r64 \in [X86 -> X86 \cup {None}]
    BY <2>4, StateTypes
  <2> DEFINE m == [t.r64 EXCEPT ![x] = t.r64[y]]
  <2>9. /\ IsState(r) /\ r.dst = t.dst /\ r.ret = x
        /\ r.la = [[t.la EXCEPT ![x] = t.dst] EXCEPT ![y] = 0]
        /\ r.content = [t.content EXCEPT ![x] = Low(n)]
        /\ r.dirty = [t.dirty EXCEPT ![x] = t.dirty[y]]
        /\ r.r64 = IF t.r64[y] = None THEN m ELSE [m EXCEPT ![t.r64[y]] = x]
    BY <2>7 DEF Moved
  <2>10. m \in [X86 -> X86 \cup {None}] /\ \A z \in X86 : m[z] = IF z = x THEN t.r64[y] ELSE t.r64[z]
    BY <2>3, <2>8
  <2> HIDE DEF m
  <2>11. /\ r.r64 \in [X86 -> X86 \cup {None}]
         /\ \A z \in X86 : r.r64[z] = IF z = t.r64[y] THEN x ELSE IF z = x THEN t.r64[y] ELSE t.r64[z]
    <3>1. CASE t.r64[y] = None
      BY <2>9, <2>10, <3>1, Names
    <3>2. CASE t.r64[y] # None
      <4>1. t.r64[y] \in X86
        BY <2>3, <2>8, <3>2
      <4>2. r.r64 = [m EXCEPT ![t.r64[y]] = x]
        BY <2>9, <3>2
      <4> QED BY <2>10, <4>1, <4>2
    <3> QED BY <3>1, <3>2
  <2>12. Low(n) \in Content
    BY Addresses DEF Content
  <2>13. /\ r.la \in [X86 -> Nat] /\ r.content \in [X86 -> Content] /\ r.dirty \in [X86 -> BOOLEAN]
         /\ \A z \in X86 : /\ r.la[z] = IF z = y THEN 0 ELSE IF z = x THEN t.dst ELSE t.la[z]
                           /\ r.content[z] = IF z = x THEN t.content[y] ELSE t.content[z]
                           /\ r.dirty[z] = IF z = x THEN t.dirty[y] ELSE t.dirty[z]
    BY <2>3, <2>6, <2>8, <2>9, <2>12
  <2>14. Arrays(r.la, r.content, r.dirty, r.r64)
    BY <2>11, <2>13 DEF Arrays
  <2>15. Moves(x, y, t.dst, t.la, t.content, t.dirty, t.r64, r.la, r.content, r.dirty, r.r64)
    BY <2>11, <2>13 DEF Moves
  <2>16. Given(t, r, x, n)
    BY <2>3, <2>6, <2>9, <2>14, <2>15, MoveKeeps
  <2>17. \A T : n \in T /\ BusyIn(s, T) => BusyIn(r, T)
    <3>1. \A T : BusyIn(s, T) => BusyIn(f, T)
      <4>1. \A z \in X86 : f.la[z] = f.dst => s.la[z] = s.dst
        BY <1>f, <1>g DEF SameButLa, Ready
      <4> QED BY <1>f, <4>1 DEF BusyIn, SameButLa
    <3> QED BY <2>5, <2>16, <3>1 DEF Given
  <2>18. Given(s, r, x, n)
    BY <2>6, <2>16, <2>17 DEF Given
  <2> QED BY <2>18 DEF r
<1> QED BY <1>1, <1>2, <1>3

\* A free register is given to a value that is cached nowhere.
LEMMA TakeGives ==
    ASSUME NEW f, Ready(f), NEW n \in N64, NEW v \in BOOLEAN, NEW x \in X86, x # ESP, f.la[x] = 0,
           \A z \in X86 : f.la[z] # 0 => f.content[z] # Low(n)
    PROVE  Given(f, take(f, x, Low(n), v), x, n)
<1> DEFINE r == take(f, x, Low(n), v)
<1>t. /\ f.dst \in Nat /\ f.la \in [X86 -> Nat] /\ f.content \in [X86 -> Content]
      /\ f.dirty \in [X86 -> BOOLEAN] /\ f.r64 \in [X86 -> X86 \cup {None}] /\ f.dst > 0
  BY StateTypes DEF Ready
<1>a. Low(n) \in Content /\ Low(n)[1] = n
  BY Addresses DEF Content
<1>2. /\ IsState(r) /\ r.dst = f.dst /\ r.ret = x
      /\ r.la = [f.la EXCEPT ![x] = f.dst] /\ r.content = [f.content EXCEPT ![x] = Low(n)]
      /\ r.dirty = [f.dirty EXCEPT ![x] = v] /\ r.r64 = [f.r64 EXCEPT ![x] = None]
  BY TakeEffect DEF Ready
<1> HIDE DEF r
<1>3. /\ r.la \in [X86 -> Nat] /\ r.content \in [X86 -> Content]
      /\ r.dirty \in [X86 -> BOOLEAN] /\ r.r64 \in [X86 -> X86 \cup {None}]
  BY <1>t, <1>a, <1>2
<1>4. \A z \in X86 : /\ r.la[z] = IF z = x THEN f.dst ELSE f.la[z]
                     /\ r.content[z] = IF z = x THEN Low(n) ELSE f.content[z]
                     /\ r.dirty[z] = IF z = x THEN v ELSE f.dirty[z]
                     /\ r.r64[z] = IF z = x THEN None ELSE f.r64[z]
  BY <1>t, <1>2
<1>6. Good(f.dst, r.la, r.content, r.dirty, r.r64)
  <2>1. Good(f.dst, f.la, f.content, f.dirty, f.r64)
    BY DEF Ready, Consistent
  <2>2. Arrays(r.la, r.content, r.dirty, r.r64)
    BY <1>3 DEF Arrays
  <2>3. At(x, f.la, f.content, f.dirty, f.r64, r.la, r.content, r.dirty, r.r64)
    BY <1>4 DEF At
  <2>4. r.la[x] = f.dst /\ r.content[x] = Low(n) /\ r.dirty[x] = v /\ r.r64[x] = None
    BY <1>4
  <2> QED BY <1>t, <2>1, <2>2, <2>3, <2>4, GoodTake
<1>7. Consistent(r)
  BY <1>2, <1>6 DEF Consistent
<1>8. ASSUME NEW T, n \in T, BusyIn(f, T) PROVE BusyIn(r, T)
  BY <1>a, <1>2, <1>4, <1>8 DEF BusyIn
<1> QED BY <1>2, <1>4, <1>7, <1>8 DEF Given, r

\* What y holds is forgotten, its other half included.
LEMMA ForgetEffect ==
    ASSUME NEW f, Ready(f), NEW y \in X86, Cached(f, y), NEW v
    PROVE  LET r == mark_free(drop_pair(need(f, y, f.la[y] + 1, v), y, Null), y)
           IN  /\ Ready(r) /\ r.dst = f.dst /\ r.content = f.content
               /\ \A z \in X86 : r.la[z] = IF z = y \/ z = f.r64[y] THEN 0 ELSE f.la[z]
<1> DEFINE a == need(f, y, f.la[y] + 1, v)
           b == drop_pair(a, y, Null)
           r == mark_free(b, y)
<1>1. Same(f, a)
  BY NeedSame DEF Ready
<1> HIDE DEF a
<1>2. IsState(a) /\ Consistent(a)
  BY <1>1 DEF Same, Ready, Consistent
<1>3. /\ IsState(b) /\ b.dst = f.dst /\ b.content = f.content /\ b.dirty = f.dirty
      /\ Arrays(b.la, b.content, b.dirty, b.r64)
      /\ \A z \in X86 : /\ b.la[z] = IF z = f.r64[y] THEN 0 ELSE f.la[z]
                        /\ b.r64[z] = IF z = y THEN None ELSE f.r64[z]
  BY <1>1, <1>2, DropEffect DEF Same
<1> HIDE DEF b
<1>4. SameButLa(b, r) /\ r.la = [b.la EXCEPT ![y] = 0]
  BY <1>3, MarkFreeEffect
<1> HIDE DEF r
<1>5. /\ r.dst = f.dst /\ r.content = f.content /\ r.dirty = f.dirty /\ IsState(r)
      /\ r.la \in [X86 -> Nat] /\ r.r64 \in [X86 -> X86 \cup {None}]
      /\ \A z \in X86 : r.la[z] = IF z = y \/ z = f.r64[y] THEN 0 ELSE f.la[z]
      /\ \A z \in X86 : z # y => r.r64[z] = f.r64[z]
  BY <1>3, <1>4 DEF Arrays, SameButLa
<1>6. Good(f.dst, f.la, f.content, f.dirty, f.r64) /\ f.la[y] # 0
  BY DEF Ready, Consistent, Cached
<1>7. Good(f.dst, r.la, f.content, f.dirty, f.r64)
  BY <1>5, <1>6, GoodFree
<1>8. r.la[y] = 0
  BY <1>5
<1>9. Good(f.dst, r.la, f.content, f.dirty, r.r64)
  BY <1>5, <1>7, <1>8, GoodForget
<1>10. Ready(r)
  BY <1>5, <1>9 DEF Ready, Consistent
<1> QED BY <1>5, <1>10 DEF r, b, a

\* allocate_register_manually_w of a low half.
LEMMA ManuallyWEffect ==
    ASSUME NEW s, Ready(s), NEW n \in N64, NEW x \in X86, x # ESP
    PROVE  Given(s, allocate_register_manually_w(s, x, Low(n)), x, n)
<1> DEFINE f == free_register(s, x)
           held == Holders(f, Low(n))
           r == allocate_register_manually_w(s, x, Low(n))
<1>f. /\ SameButLa(s, f) /\ Consistent(f)
      /\ \A z \in X86 : f.la[z] = IF z = x \/ (Cached(s, x) /\ z = s.r64[x]) THEN 0 ELSE s.la[z]
  BY FreeEffect DEF Ready
<1>g. Ready(f)
  BY <1>f DEF SameButLa, Ready
<1>1. CASE x \in Holders(s, Low(n))
  <2> DEFINE t == touch(s, x)
             q == IF s.r64[x] = None THEN t ELSE [mark_free(t, s.r64[x]) EXCEPT !.r64[x] = None]
             v == TRUE
  <2>1. r = [q EXCEPT !.dirty[x] = v]
    BY <1>1 DEF allocate_register_manually_w
  <2>2. Cached(s, x) /\ s.content[x] = Low(n)
    BY <1>1 DEF Holders
  <2>3. Given(s, t, x, n)
    BY <2>2, TouchGives DEF Ready
  <2>4. SameButLa(s, t) /\ t.r64 = s.r64 /\ t.ret = x
    BY <2>2, TouchEffect DEF Ready, SameButLa
  <2>v. v \in BOOLEAN
    OBVIOUS
  <2> HIDE DEF t, r, v
  <2>5. Ready(t) /\ t.la[x] = t.dst /\ t.content[x] = Low(n) /\ IsState(t) /\ Consistent(t)
    BY <2>3 DEF Given, Ready
  <2>t. /\ t.dst \in Nat /\ t.la \in [X86 -> Nat] /\ t.content \in [X86 -> Content]
        /\ t.dirty \in [X86 -> BOOLEAN] /\ t.r64 \in [X86 -> X86 \cup {None}] /\ t.dst > 0
    BY <2>5, StateTypes DEF Ready
  <2>6. /\ IsState(q) /\ q.dst = t.dst /\ q.ret = x /\ q.content = t.content /\ q.dirty = t.dirty
        /\ q.la \in [X86 -> Nat] /\ q.r64 \in [X86 -> X86 \cup {None}]
        /\ \A z \in X86 : /\ q.la[z] = IF z = t.r64[x] THEN 0 ELSE t.la[z]
                          /\ q.r64[z] = IF z = x THEN None ELSE t.r64[z]
    <3>1. CASE s.r64[x] = None
      <4>1. q = t
        BY <3>1
      <4> HIDE DEF q
      <4> QED BY <2>4, <2>5, <2>t, <3>1, <4>1, Names
    <3>2. CASE s.r64[x] # None
      <4> DEFINE y == s.r64[x]
                 m == mark_free(t, y)
      <4>1. q = [m EXCEPT !.r64[x] = None]
        BY <3>2
      <4>2. y \in X86 /\ y = t.r64[x]
        BY <2>4, <2>t, <3>2
      <4> HIDE DEF y, q
      <4>3. SameButLa(t, m) /\ m.la = [t.la EXCEPT ![y] = 0] /\ m.ret = t.ret
        <5>1. SameButLa(t, m) /\ m.la = [t.la EXCEPT ![y] = 0]
          BY <2>5, MarkFreeEffect
        <5>2. m.ret = t.ret
          BY <2>5 DEF mark_free, IsState
        <5> QED BY <5>1, <5>2
      <4> HIDE DEF m
      <4>4. /\ IsState(q) /\ q.dst = m.dst /\ q.ret = m.ret /\ q.content = m.content
            /\ q.dirty = m.dirty /\ q.la = m.la /\ q.r64 = [m.r64 EXCEPT ![x] = None]
        BY <4>1, <4>3 DEF SameButLa, IsState
      <4>5. q.la = [t.la EXCEPT ![y] = 0] /\ q.r64 = [t.r64 EXCEPT ![x] = None]
        BY <4>3, <4>4 DEF SameButLa
      <4>6. /\ q.la \in [X86 -> Nat] /\ q.r64 \in [X86 -> X86 \cup {None}]
            /\ \A z \in X86 : /\ q.la[z] = IF z = t.r64[x] THEN 0 ELSE t.la[z]
                              /\ q.r64[z] = IF z = x THEN None ELSE t.r64[z]
        BY <2>t, <4>2, <4>5
      <4> QED BY <2>4, <4>3, <4>4, <4>6 DEF SameButLa
    <3> QED BY <3>1, <3>2
  <2> HIDE DEF q
  <2>7. /\ IsState(r) /\ r.dst = q.dst /\ r.ret = x /\ r.content = q.content
        /\ r.la = q.la /\ r.r64 = q.r64 /\ r.dirty = [q.dirty EXCEPT ![x] = v]
    BY <2>1, <2>6 DEF IsState
  <2>8. r.dirty \in [X86 -> BOOLEAN] /\ \A z \in X86 : r.dirty[z] = IF z = x THEN v ELSE t.dirty[z]
    BY <2>t, <2>v, <2>6, <2>7
  <2>9. Arrays(r.la, r.content, r.dirty, r.r64)
    BY <2>t, <2>6, <2>7, <2>8 DEF Arrays
  <2>x. t.r64[x] # x
    BY <2>5, <2>t, Names DEF Consistent, Good
  <2>10. Drops(x, t.dst, v, t.la, t.dirty, t.r64, r.la, r.dirty, r.r64)
    BY <2>5, <2>6, <2>7, <2>8, <2>x DEF Drops
  <2>11. t.dst \in 1 .. t.dst /\ Cached(t, x)
    BY <2>t, <2>5 DEF Cached
  <2>12. r.dst = t.dst /\ r.content = t.content
    BY <2>6, <2>7
  <2>13. Consistent(r) /\ \A T : n \in T /\ BusyIn(t, T) => BusyIn(r, T)
    BY <2>t, <2>v, <2>5, <2>7, <2>9, <2>10, <2>11, <2>12, DropKeeps
  <2>14. r.la[x] = t.dst
    BY <2>10 DEF Drops
  <2>15. Given(s, r, x, n)
    BY <2>3, <2>5, <2>7, <2>12, <2>13, <2>14 DEF Given
  <2> QED BY <2>15 DEF r
<1>2. CASE x \notin Holders(s, Low(n)) /\ held = {}
  <2>1. r = take(f, x, Low(n), TRUE)
    BY <1>2 DEF allocate_register_manually_w
  <2>2. \A z \in X86 : f.la[z] # 0 => s.content[z] # Low(n)
    BY <1>2, <1>f DEF Holders, Cached, SameButLa
  <2>3. Given(s, take(f, x, Low(n), TRUE), x, n)
    BY <2>2, FreeAndTake DEF Ready
  <2> QED BY <2>1, <2>3
<1>3. CASE x \notin Holders(s, Low(n)) /\ held # {}
  <2> DEFINE y == CHOOSE z \in held : TRUE
             e == mark_free(drop_pair(need(f, y, f.la[y] + 1, Low(n)), y, Null), y)
             v == TRUE
  <2>1. r = take(e, x, Low(n), v)
    BY <1>3 DEF allocate_register_manually_w
  <2>2. y \in held
    BY <1>3
  <2>v. v \in BOOLEAN
    OBVIOUS
  <2> HIDE DEF y, f, r, v
  <2>3. y \in X86 /\ Cached(f, y) /\ f.content[y] = Low(n)
    BY <2>2 DEF Holders
  <2>4. /\ Ready(e) /\ e.dst = f.dst /\ e.content = f.content
        /\ \A z \in X86 : e.la[z] = IF z = y \/ z = f.r64[y] THEN 0 ELSE f.la[z]
    BY <1>g, <2>3, ForgetEffect
  <2> HIDE DEF e
  <2>5. e.la[x] = 0
    BY <1>f, <2>4
  <2>6. ASSUME NEW z \in X86, e.la[z] # 0 PROVE e.content[z] # Low(n)
    <3>1. z # y /\ f.la[z] # 0 /\ f.la[y] # 0
      BY <2>3, <2>4, <2>6 DEF Cached
    <3>2. f.content[z] # f.content[y]
      BY <1>g, <2>3, <3>1 DEF Ready, Consistent, Good
    <3> QED BY <2>3, <2>4, <3>2
  <2>7. Given(e, r, x, n)
    BY <2>1, <2>4, <2>5, <2>6, <2>v, TakeGives
  <2>8. \A T : BusyIn(s, T) => BusyIn(e, T)
    <3>1. \A z \in X86 : e.la[z] = e.dst => s.la[z] = s.dst
      BY <1>f, <1>g, <2>4 DEF SameButLa, Ready
    <3> QED BY <1>f, <2>4, <3>1 DEF BusyIn, SameButLa
  <2>9. Given(s, r, x, n)
    BY <1>f, <2>4, <2>7, <2>8 DEF Given, SameButLa
  <2> QED BY <2>9 DEF r
<1> QED BY <1>1, <1>2, <1>3

-----------------------------------------------------------------------------
(* Freeing registers                                                       *)

\* Registers are freed, and nothing else changes.
LEMMA FreeBusy ==
    ASSUME NEW s, Ready(s), NEW x \in X86
    PROVE  LET r == free_register(s, x)
           IN  Ready(r) /\ r.dst = s.dst /\ \A T : BusyIn(s, T) => BusyIn(r, T)
<1> DEFINE r == free_register(s, x)
<1>1. /\ SameButLa(s, r) /\ Consistent(r)
      /\ \A z \in X86 : r.la[z] = IF z = x \/ (Cached(s, x) /\ z = s.r64[x]) THEN 0 ELSE s.la[z]
  BY FreeEffect DEF Ready
<1> HIDE DEF r
<1>2. Ready(r) /\ r.dst = s.dst /\ r.content = s.content
  BY <1>1 DEF SameButLa, Ready
<1>3. \A z \in X86 : r.la[z] = r.dst => s.la[z] = s.dst
  BY <1>1, <1>2 DEF Ready
<1>4. \A T : BusyIn(s, T) => BusyIn(r, T)
  BY <1>2, <1>3 DEF BusyIn
<1> QED BY <1>2, <1>4 DEF r

\* A register that is written over.
LEMMA TemporaryEffect ==
    ASSUME NEW s, Ready(s)
    PROVE  LET r == temporary(s)
           IN  Ready(r) /\ r.dst = s.dst /\ \A T : BusyIn(s, T) => BusyIn(r, T)
<1> DEFINE x == lru_register(s)
           f == free_register(s, x)
           r == temporary(s)
<1>1. x \in X86
  BY LruEffect DEF lru_register, Ready
<1>2. r = emit(f, << <<"wreck", {x}>> >>)
  BY DEF temporary, scratch
<1> HIDE DEF x, r
<1>3. Ready(f) /\ f.dst = s.dst /\ \A T : BusyIn(s, T) => BusyIn(f, T)
  BY <1>1, FreeBusy
<1> HIDE DEF f
<1>4. Same(f, r)
  BY <1>2, <1>3, EmitSame DEF Ready
<1>5. Ready(r) /\ r.dst = s.dst /\ \A T : BusyIn(f, T) => BusyIn(r, T)
  BY <1>3, <1>4 DEF Same, Ready, Consistent, BusyIn
<1> QED BY <1>3, <1>5 DEF r

\* The steps of free_all_registers.
Frees(f, s, n) ==
    /\ f = [x \in 0 .. n |-> f[x]]
    /\ f[0] = s
    /\ \A i \in 1 .. n : f[i] = free_register(f[i - 1], i - 1)

LEMMA FreesExist ==
    ASSUME NEW s, NEW N \in Nat
    PROVE  \E f : Frees(f, s, N)
<1> DEFINE K == {n \in 0 .. N : \E f : Frees(f, s, n)}
<1>1. 0 \in K
  <2> DEFINE f == [x \in 0 .. 0 |-> s]
  <2>1. f = [x \in 0 .. 0 |-> f[x]] /\ f[0] = s /\ \A i \in 1 .. 0 : FALSE
    OBVIOUS
  <2>2. Frees(f, s, 0)
    BY <2>1 DEF Frees
  <2> QED BY <2>2
<1>2. ASSUME NEW n \in 1 .. N, n - 1 \in K PROVE n \in K
  <2>1. PICK f : Frees(f, s, n - 1)
    BY <1>2
  <2> DEFINE y == free_register(f[n - 1], n - 1)
             g == [i \in 0 .. n |-> IF i < n THEN f[i] ELSE y]
  <2>2. n \in Nat /\ n >= 1 /\ n <= N /\ n - 1 \in 0 .. n - 1
    OBVIOUS
  <2>5. g = [i \in 0 .. n |-> g[i]]
    <3> HIDE DEF y
    <3> QED OBVIOUS
  <2>6. g[0] = s
    BY <2>1, <2>2 DEF Frees
  <2>7. ASSUME NEW i \in 1 .. n PROVE g[i] = free_register(g[i - 1], i - 1)
    <3>1. i - 1 \in 0 .. n /\ i \in 0 .. n /\ i - 1 < n
      BY <2>2
    <3>2. g[i - 1] = f[i - 1]
      BY <3>1
    <3>3. CASE i < n
      <4>1. g[i] = f[i] /\ i \in 1 .. n - 1
        BY <2>2, <3>1, <3>3
      <4> HIDE DEF g
      <4> QED BY <2>1, <3>2, <4>1 DEF Frees
    <3>4. CASE ~(i < n)
      <4>1. i = n /\ g[i] = y
        BY <2>2, <3>1, <3>4
      <4> HIDE DEF g
      <4> QED BY <3>2, <4>1
    <3> QED BY <3>3, <3>4
  <2> HIDE DEF g
  <2>8. Frees(g, s, n)
    BY <2>5, <2>6, <2>7 DEF Frees
  <2> QED BY <2>2, <2>8
<1>3. \A k \in 0 .. N : k \in K
  <2> HIDE DEF K
  <2> QED BY <1>1, <1>2, UpTo
<1> QED BY <1>3

LEMMA FreeAllFrees ==
    ASSUME NEW s
    PROVE  \E f : Frees(f, s, 8) /\ free_all_registers(s) = f[8]
<1> DEFINE N == 8
           F(f) == [x \in 0 .. N |-> IF x = 0 THEN s ELSE free_register(f[x - 1], x - 1)]
           f == CHOOSE g : g = F(g)
<1>0. N \in Nat /\ N = 8
  OBVIOUS
<1>1. free_all_registers(s) = f[N]
  BY DEF free_all_registers
<1> HIDE DEF N, F
<1>2. \E g : g = F(g)
  <2>1. PICK g : Frees(g, s, N)
    BY <1>0, FreesExist
  <2>2. ASSUME NEW x \in 0 .. N
        PROVE  g[x] = IF x = 0 THEN s ELSE free_register(g[x - 1], x - 1)
    <3>1. x = 0 \/ x \in 1 .. N
      BY <1>0
    <3> QED BY <2>1, <3>1 DEF Frees
  <2>3. g = [x \in 0 .. N |-> g[x]]
    BY <2>1 DEF Frees
  <2>4. g = F(g)
    BY <2>2, <2>3 DEF F
  <2> QED BY <2>4
<1>3. f = F(f)
  BY <1>2
<1> HIDE DEF f
<1>4. Frees(f, s, N)
  <2>1. f = [x \in 0 .. N |-> IF x = 0 THEN s ELSE free_register(f[x - 1], x - 1)]
    BY <1>3 DEF F
  <2>2. \A x \in 0 .. N : f[x] = IF x = 0 THEN s ELSE free_register(f[x - 1], x - 1)
    BY <2>1
  <2>3. 0 \in 0 .. N /\ \A x \in 1 .. N : x \in 0 .. N /\ x # 0
    BY <1>0
  <2>4. f = [x \in 0 .. N |-> f[x]]
    BY <2>1, <2>2
  <2> QED BY <2>2, <2>3, <2>4 DEF Frees
<1> QED BY <1>0, <1>1, <1>4

\* free_all_registers leaves nothing in the cache.
LEMMA FreeAllEffect ==
    ASSUME NEW s, IsState(s), Consistent(s)
    PROVE  LET r == free_all_registers(s)
           IN  IsState(r) /\ Consistent(r) /\ r.dst = s.dst /\ \A z \in X86 : r.la[z] = 0
<1>1. PICK f : Frees(f, s, 8) /\ free_all_registers(s) = f[8]
  BY FreeAllFrees
<1> DEFINE K == {n \in 0 .. 8 : /\ IsState(f[n]) /\ Consistent(f[n]) /\ f[n].dst = s.dst
                                /\ \A z \in X86 : z < n => f[n].la[z] = 0}
<1>2. 0 \in K
  <2>1. f[0] = s
    BY <1>1 DEF Frees
  <2> QED BY <2>1 DEF X86
<1>3. ASSUME NEW n \in 1 .. 8, n - 1 \in K PROVE n \in K
  <2> DEFINE t == f[n - 1]
             r == f[n]
             x == n - 1
  <2>1. x \in X86 /\ n \in 0 .. 8 /\ \A z \in X86 : z < n => z = x \/ z < n - 1
    BY DEF X86
  <2>2. r = free_register(t, x)
    BY <1>1 DEF Frees
  <2>3. IsState(t) /\ Consistent(t) /\ t.dst = s.dst /\ \A z \in X86 : z < n - 1 => t.la[z] = 0
    BY <1>3
  <2> HIDE DEF r, t, x
  <2>4. /\ SameButLa(t, r) /\ Consistent(r)
        /\ \A z \in X86 : r.la[z] = IF z = x \/ (Cached(t, x) /\ z = t.r64[x]) THEN 0 ELSE t.la[z]
    BY <2>1, <2>2, <2>3, FreeEffect
  <2>5. IsState(r) /\ r.dst = s.dst
    BY <2>3, <2>4 DEF SameButLa
  <2>6. \A z \in X86 : z < n => r.la[z] = 0
    BY <2>1, <2>3, <2>4
  <2> QED BY <2>1, <2>4, <2>5, <2>6 DEF r
<1>4. \A k \in 0 .. 8 : k \in K
  <2> HIDE DEF K
  <2> QED BY <1>2, <1>3, UpTo
<1>5. 8 \in K /\ \A z \in X86 : z < 8
  BY <1>4 DEF X86
<1> QED BY <1>1, <1>5

\* force_32 of the low half of a value.
LEMMA ForceEffect ==
    ASSUME NEW s, Ready(s), NEW n \in N64, NEW x \in X86, Cached(s, x), s.content[x] = Low(n)
    PROVE  Ready(force_32(s, x)) /\ force_32(s, x).dst = s.dst
<1> DEFINE r == force_32(s, x)
<1>1. CASE s.r64[x] = None
  <2>1. r = s
    BY <1>1 DEF force_32
  <2> QED BY <2>1
<1>2. CASE s.r64[x] # None
  <2> DEFINE y == s.r64[x]
             a == need(s, x, s.la[x] + 1, written_back(s, x))
             b == need(a, y, s.la[x] + 1, written_back(s, y))
             e == emit(b, write_back(s, x))
             m == mark_free(e, y)
             v == FALSE
  <2>1. r = [m EXCEPT !.dirty[x] = v, !.r64[x] = None]
    BY <1>2 DEF force_32
  <2>t. /\ s.dst \in Nat /\ s.la \in [X86 -> Nat] /\ s.content \in [X86 -> Content]
        /\ s.dirty \in [X86 -> BOOLEAN] /\ s.r64 \in [X86 -> X86 \cup {None}] /\ s.dst > 0
    BY StateTypes DEF Ready
  <2>2. y \in X86 /\ y = s.r64[x] /\ x # y
    BY <1>2, <2>t DEF Ready, Consistent, Good, Cached
  <2>v. v \in BOOLEAN
    OBVIOUS
  <2> HIDE DEF y, r, v
  <2>3. Same(s, a) /\ IsState(a)
    BY NeedSame DEF Ready, Same
  <2> HIDE DEF a
  <2>4. Same(a, b) /\ IsState(b)
    BY <2>3, NeedSame DEF Same
  <2> HIDE DEF b
  <2>5. Same(b, e) /\ IsState(e)
    BY <2>4, EmitSame DEF Same
  <2> HIDE DEF e
  <2>6. SameButLa(e, m) /\ m.la = [e.la EXCEPT ![y] = 0]
    BY <2>5, MarkFreeEffect
  <2> HIDE DEF m
  <2>7. /\ IsState(m) /\ m.dst = s.dst /\ m.content = s.content /\ m.dirty = s.dirty
        /\ m.r64 = s.r64 /\ m.la = [s.la EXCEPT ![y] = 0]
    BY <2>3, <2>4, <2>5, <2>6 DEF Same, SameButLa
  <2>8. /\ IsState(r) /\ r.dst = s.dst /\ r.content = s.content /\ r.la = [s.la EXCEPT ![y] = 0]
        /\ r.dirty = [s.dirty EXCEPT ![x] = v] /\ r.r64 = [s.r64 EXCEPT ![x] = None]
    BY <2>1, <2>7 DEF IsState
  <2>9. Arrays(r.la, r.content, r.dirty, r.r64)
    BY <2>t, <2>2, <2>v, <2>8 DEF Arrays
  <2>10. Drops(x, s.la[x], v, s.la, s.dirty, s.r64, r.la, r.dirty, r.r64)
    BY <2>t, <2>2, <2>v, <2>8 DEF Drops
  <2>11. s.la[x] \in 1 .. s.dst
    BY <2>t DEF Ready, Consistent, Good, Cached
  <2>12. IsState(s) /\ Consistent(s)
    BY DEF Ready
  <2>13. Consistent(r)
    BY <2>t, <2>v, <2>8, <2>9, <2>10, <2>11, <2>12, DropKeeps
  <2>14. Ready(r) /\ r.dst = s.dst
    BY <2>8, <2>13 DEF Ready
  <2> QED BY <2>14 DEF r
<1> QED BY <1>1, <1>2

\* The registers of gendsllv when the result shares ECX.
LEMMA TemporariesEffect ==
    ASSUME NEW s, Ready(s), NEW n \in N64, Cached(s, ECX), s.content[ECX] = Low(n)
    PROVE  LET t == force_32(s, ECX)
               r == two_temporaries(t, lru_register(t))
           IN  Ready(r) /\ r.dst = s.dst
<1> DEFINE t == force_32(s, ECX)
           x == lru_register(t)
           y == lru_register_exc1(t, x)
           f == free_register(t, x)
           g == free_register(f, y)
           r == two_temporaries(t, x)
<1>0. ECX \in X86
  BY Names
<1>1. Ready(t) /\ t.dst = s.dst
  BY <1>0, ForceEffect
<1> HIDE DEF t
<1>2. x \in X86
  BY <1>1, LruEffect DEF lru_register, Ready
<1> HIDE DEF x
<1>3. y \in X86
  BY <1>1, <1>2, LruEffect DEF Ready
<1>r. r = emit(g, << <<"wreck", {x, y}>> >>)
  BY DEF two_temporaries, scratch
<1> HIDE DEF y
<1>4. Ready(f) /\ f.dst = s.dst
  BY <1>1, <1>2, FreeBusy
<1> HIDE DEF f
<1>5. Ready(g) /\ g.dst = s.dst
  BY <1>3, <1>4, FreeBusy
<1> HIDE DEF g, r
<1>6. Same(g, r)
  BY <1>5, <1>r, EmitSame DEF Ready
<1>7. Ready(r) /\ r.dst = s.dst
  BY <1>5, <1>6 DEF Same, Ready, Consistent
<1> QED BY <1>7 DEF r, x, t

Empty(s) == \A z \in X86 : s.la[z] = 0

\* The result of a load is in EAX.
LEMMA StateEffect ==
    ASSUME NEW s, Ready(s), Empty(s), NEW n \in N64
    PROVE  LET r == set_register_state(s, EAX, Low(n), TRUE)
           IN  Ready(r) /\ r.dst = s.dst
<1> DEFINE r == take(s, EAX, Low(n), TRUE)
<1>1. EAX \in X86 /\ EAX # ESP
  BY Names
<1>2. s.la[EAX] = 0 /\ \A z \in X86 : s.la[z] # 0 => s.content[z] # Low(n)
  BY <1>1 DEF Empty
<1>3. Given(s, r, EAX, n)
  BY <1>1, <1>2, TakeGives
<1> QED BY <1>3 DEF Given, Ready, set_register_state

LEMMA StatePairEffect ==
    ASSUME NEW s, Ready(s), Empty(s), NEW n \in N64
    PROVE  LET r == set_64_register_state(s, EAX, ECX, n, TRUE)
           IN  Ready(r) /\ r.dst = s.dst
<1> DEFINE v == TRUE
           x == EAX
           y == ECX
           f == take(s, x, Low(n), v)
           q == take(f, y, High(n), v)
           r == pair(q, x, y)
<1>r. set_64_register_state(s, EAX, ECX, n, TRUE) = r
  BY DEF set_64_register_state
<1>0. v \in BOOLEAN /\ x \in X86 /\ x # ESP /\ y \in X86 /\ y # ESP /\ x # y
  BY Names
<1> HIDE DEF v, x, y
<1>1. s.la[x] = 0 /\ \A z \in X86 : s.la[z] # 0 => s.content[z] # Low(n)
  BY <1>0 DEF Empty
<1>2. Given(s, f, x, n)
  BY <1>0, <1>1, TakeGives
<1>i. IsState(s)
  BY DEF Ready
<1>3. /\ IsState(f) /\ f.dst = s.dst /\ f.ret = x
      /\ f.la = [s.la EXCEPT ![x] = s.dst] /\ f.content = [s.content EXCEPT ![x] = Low(n)]
      /\ f.dirty = [s.dirty EXCEPT ![x] = v] /\ f.r64 = [s.r64 EXCEPT ![x] = None]
  BY <1>0, <1>i, TakeEffect
<1>s. /\ s.dst \in Nat /\ s.la \in [X86 -> Nat] /\ s.content \in [X86 -> Content]
      /\ s.dirty \in [X86 -> BOOLEAN] /\ s.r64 \in [X86 -> X86 \cup {None}] /\ s.dst > 0
  BY StateTypes DEF Ready
<1> HIDE DEF f
<1>4. /\ f.la[y] = 0 /\ f.dirty[x] = v /\ f.r64[x] = None
  BY <1>0, <1>3, <1>s DEF Empty
<1>5. /\ Ready(f) /\ IsState(f) /\ Consistent(f) /\ f.dst = s.dst /\ f.la[x] = f.dst
      /\ f.content[x] = Low(n) /\ f.dst > 0
  BY <1>2 DEF Given, Ready
<1>6. FreedAt(f, f, y)
  BY <1>4, <1>5 DEF FreedAt, SameButLa, Cached
<1>t. /\ f.dst \in Nat /\ f.la \in [X86 -> Nat] /\ f.content \in [X86 -> Content]
      /\ f.dirty \in [X86 -> BOOLEAN] /\ f.r64 \in [X86 -> X86 \cup {None}]
  BY <1>5, StateTypes
<1>7. /\ IsState(q) /\ q.dst = f.dst /\ q.ret = y
      /\ q.la = [f.la EXCEPT ![y] = f.dst] /\ q.content = [f.content EXCEPT ![y] = High(n)]
      /\ q.dirty = [f.dirty EXCEPT ![y] = v] /\ q.r64 = [f.r64 EXCEPT ![y] = None]
  BY <1>0, <1>5, TakeEffect
<1> HIDE DEF q
<1>8. Linked(q, x, y, r)
  BY <1>7, PairFields
<1> HIDE DEF r
<1>9. /\ r.dst = f.dst /\ r.la = [f.la EXCEPT ![y] = f.dst]
      /\ r.content = [f.content EXCEPT ![y] = High(n)] /\ r.dirty = [f.dirty EXCEPT ![y] = v]
      /\ r.r64 = [[[f.r64 EXCEPT ![y] = None] EXCEPT ![x] = y] EXCEPT ![y] = x] /\ IsState(r)
  BY <1>7, <1>8 DEF Linked
<1>a. High(n) \in Content
  BY Addresses DEF Content
<1>10. Arrays(r.la, r.content, r.dirty, r.r64)
  BY <1>0, <1>a, <1>t, <1>9 DEF Arrays
<1>11. Joins(x, y, n, f.dst, f.la, f.content, f.dirty, f.r64, r.la, r.content, r.dirty, r.r64)
  BY <1>0, <1>t, <1>4, <1>9 DEF Joins
<1>12. f.la[y] # f.dst
  BY <1>4, <1>5
<1>13. Consistent(r)
  BY <1>0, <1>4, <1>5, <1>6, <1>9, <1>10, <1>11, <1>12, JoinKeeps
<1>14. Ready(r) /\ r.dst = s.dst
  BY <1>5, <1>9, <1>13 DEF Ready
<1> QED BY <1>r, <1>14

-----------------------------------------------------------------------------
(* Sequences of requests                                                   *)

Instruction == [op : Branches \cup DOMAIN recomp_ops, rd : N64, rs : N64, rt : N64]

\* The values that an instruction names.
Named(i) == {i.rd, i.rs, i.rt}

IsRun(g, i) == DOMAIN g = {"s", "i", "at"} /\ g.i = i

Emits == {"use", "use_high", "test", "test_high", "set32", "set64", "put", "call"}

LEMMA OperandEffect ==
    ASSUME NEW i \in Instruction, NEW g, IsRun(g, i), NEW o \in {"rd", "rs", "rt", "hi", "lo"}
    PROVE  Operand(g, o) \in N64 /\ (o \notin {"hi", "lo"} => Operand(g, o) \in Named(i))
<1>1. DOMAIN i = {"op", "rd", "rs", "rt"} /\ i.rd \in N64 /\ i.rs \in N64 /\ i.rt \in N64
  BY DEF Instruction
<1>2. CASE o \in {"rd", "rs", "rt"}
  BY <1>1, <1>2 DEF Operand, IsRun, Named
<1>3. CASE o \in {"hi", "lo"}
  BY <1>1, <1>3, Names DEF Operand, IsRun
<1> QED BY <1>2, <1>3

LEMMA AnsweredEffect ==
    ASSUME NEW i, NEW g, IsRun(g, i), NEW o, NEW s
    PROVE  IsRun(answered(g, o, s), i) /\ answered(g, o, s).s = s
  BY DEF IsRun, answered

\* A request that only emits code.
LEMMA PerformEmit ==
    ASSUME NEW i, NEW g, IsRun(g, i), Ready(g.s), NEW q, q[1] \in Emits
    PROVE  LET r == perform(g, q)
           IN  IsRun(r, i) /\ Same(g.s, r.s) /\ Ready(r.s)
<1> DEFINE r == perform(g, q)
           e == emit(g.s, << x86(g, q) >>)
<1>1. r = [g EXCEPT !.s = e]
  BY DEF perform, Emits
<1>2. Same(g.s, e)
  BY EmitSame DEF Ready
<1> HIDE DEF e, r
<1>3. IsRun(r, i) /\ r.s = e
  BY <1>1 DEF IsRun
<1>4. Ready(e)
  BY <1>2 DEF Same, Ready, Consistent
<1> QED BY <1>2, <1>3, <1>4 DEF r

\* The requests of all but four kinds of instruction.
FewRequests ==
    ({"register", "register_w", "pair", "pair_w"} \X {"rd", "rs", "rt"})
    \cup ((Emits \ {"call"}) \X {"rd", "rs", "rt", "hi", "lo"})
    \cup ({"temporary"} \X SUBSET {"rs", "rt"})
    \cup {<<"manually", "rs", ECX>>, <<"call">>, <<"in_memory">>, <<"free_all">>}

\* What holds between two requests: the instruction uses only what it names.
Working(g, i, d) ==
    IsRun(g, i) /\ Ready(g.s) /\ g.s.dst = d /\ BusyIn(g.s, Named(i))

LEMMA NamedFew ==
    ASSUME NEW i
    PROVE  Few(Named(i))
  BY DEF Few, Named

LEMMA AnswerWorks ==
    ASSUME NEW i, NEW g, NEW d, Working(g, i, d), NEW n \in Named(i),
           NEW t, NEW x, Given(g.s, t, x, n), NEW o
    PROVE  Working(answered(g, o, t), i, d)
<1>1. IsRun(answered(g, o, t), i) /\ answered(g, o, t).s = t
  BY AnsweredEffect DEF Working
<1>2. Ready(t) /\ t.dst = d /\ BusyIn(t, Named(i))
  BY DEF Working, Given, Ready
<1> QED BY <1>1, <1>2 DEF Working

\* free_all_registers and in_memory.
LEMMA EmptyEffect ==
    ASSUME NEW s, Ready(s)
    PROVE  /\ Ready(free_all_registers(s)) /\ Empty(free_all_registers(s))
           /\ free_all_registers(s).dst = s.dst
           /\ Ready(in_memory(s)) /\ Empty(in_memory(s)) /\ in_memory(s).dst = s.dst
<1> DEFINE f == free_all_registers(s)
           r == in_memory(s)
<1>1. r = simplify_access(f)
  BY DEF in_memory
<1>2. IsState(f) /\ Consistent(f) /\ f.dst = s.dst /\ \A z \in X86 : f.la[z] = 0
  BY FreeAllEffect DEF Ready
<1> HIDE DEF f, r
<1>3. Same(f, r)
  BY <1>1, <1>2, SimplifySame
<1>4. Ready(f) /\ Empty(f) /\ Ready(r) /\ Empty(r) /\ r.dst = s.dst
  BY <1>2, <1>3 DEF Same, Ready, Empty, Consistent
<1> QED BY <1>2, <1>4 DEF f, r

LEMMA EmptyBusy ==
    ASSUME NEW s, Ready(s), Empty(s), NEW T
    PROVE  BusyIn(s, T)
  BY DEF Ready, Empty, BusyIn

LEMMA PerformFew ==
    ASSUME NEW i \in Instruction, NEW d, NEW g, Working(g, i, d), NEW q \in FewRequests
    PROVE  Working(perform(g, q), i, d)
<1> DEFINE r == perform(g, q)
           n == Operand(g, q[2])
           s == g.s
<1>0. IsRun(g, i) /\ Ready(s) /\ s.dst = d /\ BusyIn(s, Named(i))
  BY DEF Working
<1>f. Few(Named(i))
  BY NamedFew
<1>1. CASE q \in {"register", "register_w", "pair", "pair_w"} \X {"rd", "rs", "rt"}
  <2>1. q[1] \in {"register", "register_w", "pair", "pair_w"} /\ q[2] \in {"rd", "rs", "rt"}
    BY <1>1
  <2>2. n \in N64 /\ n \in Named(i)
    BY <1>0, <2>1, OperandEffect
  <2>3. CASE q[1] = "register"
    <3> DEFINE t == allocate_register(s, Low(n))
    <3>1. r = answered(g, q[2], t)
      BY <2>3 DEF perform
    <3>2. Given(s, t, t.ret, n)
      BY <1>0, <2>2, RegisterEffect DEF Ready
    <3> HIDE DEF t, n
    <3> QED BY <2>2, <3>1, <3>2, AnswerWorks
  <2>4. CASE q[1] = "register_w"
    <3> DEFINE t == allocate_register_w(s, Low(n))
    <3>1. r = answered(g, q[2], t)
      BY <2>4 DEF perform
    <3>2. Given(s, t, t.ret, n)
      BY <1>0, <2>2, RegisterWEffect DEF Ready
    <3> HIDE DEF t, n
    <3> QED BY <2>2, <3>1, <3>2, AnswerWorks
  <2>5. CASE q[1] = "pair"
    <3> DEFINE t == allocate_64_register(s, n)
    <3>1. r = answered(g, q[2], t)
      BY <2>5 DEF perform
    <3>2. Given(s, t, t.ret, n)
      BY <1>0, <1>f, <2>2, PairEffect
    <3> HIDE DEF t, n
    <3> QED BY <2>2, <3>1, <3>2, AnswerWorks
  <2>6. CASE q[1] = "pair_w"
    <3> DEFINE t == allocate_64_register_w(s, n)
    <3>1. r = answered(g, q[2], t)
      BY <2>6 DEF perform
    <3>2. Given(s, t, t.ret, n)
      BY <1>0, <1>f, <2>2, PairWEffect
    <3> HIDE DEF t, n
    <3> QED BY <2>2, <3>1, <3>2, AnswerWorks
  <2> QED BY <2>1, <2>3, <2>4, <2>5, <2>6
<1>2. CASE q \in (Emits \ {"call"}) \X {"rd", "rs", "rt", "hi", "lo"} \/ q = <<"call">>
  <2>1. q[1] \in Emits
    BY <1>2 DEF Emits
  <2>2. IsRun(r, i) /\ Same(s, r.s) /\ Ready(r.s)
    BY <1>0, <2>1, PerformEmit
  <2> HIDE DEF r
  <2>3. r.s.dst = d /\ BusyIn(r.s, Named(i))
    BY <1>0, <2>2 DEF Same, BusyIn
  <2> QED BY <2>2, <2>3 DEF Working, r
<1>3. CASE q \in {"temporary"} \X SUBSET {"rs", "rt"}
  <2> DEFINE shared == \E o \in q[2] : g.at.rd[1] = g.at[o][1]
             t == IF shared THEN temporary(s) ELSE s
  <2>1. q[1] = "temporary"
    BY <1>3
  <2>2. r = [g EXCEPT !.s = t]
    BY <2>1 DEF perform
  <2>3. Ready(t) /\ t.dst = d /\ BusyIn(t, Named(i))
    <3>1. CASE shared
      BY <1>0, <3>1, TemporaryEffect
    <3>2. CASE ~shared
      BY <1>0, <3>2
    <3> QED BY <3>1, <3>2
  <2> HIDE DEF t, r
  <2>4. IsRun(r, i) /\ r.s = t
    BY <1>0, <2>2 DEF IsRun
  <2> QED BY <2>3, <2>4 DEF Working, r
<1>4. CASE q = <<"manually", "rs", ECX>>
  <2> DEFINE t == allocate_register_manually(s, ECX, Low(n))
  <2>1. q[1] = "manually" /\ q[2] = "rs" /\ q[3] = ECX
    BY <1>4
  <2>2. n \in N64 /\ n \in Named(i)
    BY <1>0, <2>1, OperandEffect
  <2>3. r = answered(g, q[2], t)
    BY <2>1 DEF perform
  <2>4. Given(s, t, ECX, n)
    BY <1>0, <2>2, ManuallyEffect, Names
  <2> HIDE DEF t, n
  <2> QED BY <2>2, <2>3, <2>4, AnswerWorks
<1>5. CASE q = <<"in_memory">> \/ q = <<"free_all">>
  <2> DEFINE t == r.s
  <2>1. q[1] = "in_memory" \/ q[1] = "free_all"
    BY <1>5
  <2>2. r = [g EXCEPT !.s = in_memory(s)] \/ r = [g EXCEPT !.s = free_all_registers(s)]
    BY <2>1 DEF perform
  <2>3. /\ Ready(free_all_registers(s)) /\ Empty(free_all_registers(s))
        /\ free_all_registers(s).dst = s.dst
        /\ Ready(in_memory(s)) /\ Empty(in_memory(s)) /\ in_memory(s).dst = s.dst
    BY <1>0, EmptyEffect
  <2> HIDE DEF r
  <2>4. IsRun(r, i) /\ (r.s = in_memory(s) \/ r.s = free_all_registers(s))
    BY <1>0, <2>2 DEF IsRun
  <2>5. Ready(r.s) /\ Empty(r.s) /\ r.s.dst = d
    BY <1>0, <2>3, <2>4
  <2>6. BusyIn(r.s, Named(i))
    BY <2>5, EmptyBusy
  <2> QED BY <2>4, <2>5, <2>6 DEF Working, r
<1> QED BY <1>1, <1>2, <1>3, <1>4, <1>5 DEF FewRequests

\* The steps of run.
Begin(s, i) ==
    [s |-> s, i |-> i, at |-> [o \in {"rd", "rs", "rt", "hi", "lo"} |-> <<None, None>>]]

Performs(f, s, i, requests, n) ==
    /\ f = [k \in 0 .. n |-> f[k]]
    /\ f[0] = Begin(s, i)
    /\ \A k \in 1 .. n : f[k] = perform(f[k - 1], requests[k])

LEMMA PerformsExist ==
    ASSUME NEW s, NEW i, NEW requests, NEW N \in Nat
    PROVE  \E f : Performs(f, s, i, requests, N)
<1> DEFINE K == {n \in 0 .. N : \E f : Performs(f, s, i, requests, n)}
<1>1. 0 \in K
  <2> DEFINE b == Begin(s, i)
             f == [x \in 0 .. 0 |-> b]
  <2> HIDE DEF b
  <2>1. f = [x \in 0 .. 0 |-> f[x]] /\ f[0] = b /\ \A k \in 1 .. 0 : FALSE
    OBVIOUS
  <2>2. Performs(f, s, i, requests, 0)
    BY <2>1 DEF Performs, b
  <2> QED BY <2>2
<1>2. ASSUME NEW n \in 1 .. N, n - 1 \in K PROVE n \in K
  <2>1. PICK f : Performs(f, s, i, requests, n - 1)
    BY <1>2
  <2> DEFINE y == perform(f[n - 1], requests[n])
             g == [k \in 0 .. n |-> IF k < n THEN f[k] ELSE y]
  <2>2. n \in Nat /\ n >= 1 /\ n <= N /\ n - 1 \in 0 .. n - 1
    OBVIOUS
  <2>5. g = [k \in 0 .. n |-> g[k]]
    <3> HIDE DEF y
    <3> QED OBVIOUS
  <2>6. g[0] = Begin(s, i)
    BY <2>1, <2>2 DEF Performs
  <2>7. ASSUME NEW k \in 1 .. n PROVE g[k] = perform(g[k - 1], requests[k])
    <3>1. k - 1 \in 0 .. n /\ k \in 0 .. n /\ k - 1 < n
      BY <2>2
    <3>2. g[k - 1] = f[k - 1]
      BY <3>1
    <3>3. CASE k < n
      <4>1. g[k] = f[k] /\ k \in 1 .. n - 1
        BY <2>2, <3>1, <3>3
      <4> HIDE DEF g
      <4> QED BY <2>1, <3>2, <4>1 DEF Performs
    <3>4. CASE ~(k < n)
      <4>1. k = n /\ g[k] = y
        BY <2>2, <3>1, <3>4
      <4> HIDE DEF g
      <4> QED BY <3>2, <4>1
    <3> QED BY <3>3, <3>4
  <2> HIDE DEF g
  <2>8. Performs(g, s, i, requests, n)
    BY <2>5, <2>6, <2>7 DEF Performs
  <2> QED BY <2>2, <2>8
<1>3. \A k \in 0 .. N : k \in K
  <2> HIDE DEF K
  <2> QED BY <1>1, <1>2, UpTo
<1> QED BY <1>3

LEMMA RunPerforms ==
    ASSUME NEW s, NEW i, NEW requests, Len(requests) \in Nat
    PROVE  \E f : /\ Performs(f, s, i, requests, Len(requests))
                  /\ run(s, i, requests) = f[Len(requests)].s
<1> DEFINE N == Len(requests)
           F(f) == [k \in 0 .. N |-> IF k = 0 THEN Begin(s, i) ELSE perform(f[k - 1], requests[k])]
           f == CHOOSE g : g = F(g)
<1>0. N \in Nat /\ N = Len(requests)
  OBVIOUS
<1>1. run(s, i, requests) = f[N].s
  BY DEF run, Begin
<1> HIDE DEF N, F
<1>2. \E g : g = F(g)
  <2>1. PICK g : Performs(g, s, i, requests, N)
    BY <1>0, PerformsExist
  <2>2. ASSUME NEW k \in 0 .. N
        PROVE  g[k] = IF k = 0 THEN Begin(s, i) ELSE perform(g[k - 1], requests[k])
    <3>1. k = 0 \/ k \in 1 .. N
      BY <1>0
    <3> QED BY <2>1, <3>1 DEF Performs
  <2>3. g = [k \in 0 .. N |-> g[k]]
    BY <2>1 DEF Performs
  <2>4. g = F(g)
    BY <2>2, <2>3 DEF F
  <2> QED BY <2>4
<1>3. f = F(f)
  BY <1>2
<1> HIDE DEF f
<1>4. Performs(f, s, i, requests, N)
  <2>1. f = [k \in 0 .. N |-> IF k = 0 THEN Begin(s, i) ELSE perform(f[k - 1], requests[k])]
    BY <1>3 DEF F
  <2>2. \A k \in 0 .. N : f[k] = IF k = 0 THEN Begin(s, i) ELSE perform(f[k - 1], requests[k])
    BY <2>1
  <2>3. 0 \in 0 .. N /\ \A k \in 1 .. N : k \in 0 .. N /\ k # 0
    BY <1>0
  <2>4. f = [k \in 0 .. N |-> f[k]]
    BY <2>1, <2>2
  <2> QED BY <2>2, <2>3, <2>4 DEF Performs
<1> QED BY <1>0, <1>1, <1>4

LEMMA BeginWorks ==
    ASSUME NEW s, Ready(s), NEW i, BusyIn(s, Named(i))
    PROVE  Working(Begin(s, i), i, s.dst)
  BY DEF Begin, Working, IsRun

LEMMA RunFew ==
    ASSUME NEW s, Ready(s), NEW i \in Instruction, BusyIn(s, Named(i)),
           NEW requests \in Seq(FewRequests)
    PROVE  LET r == run(s, i, requests)
           IN  Ready(r) /\ r.dst = s.dst /\ BusyIn(r, Named(i))
<1> DEFINE N == Len(requests)
<1>0. N \in Nat /\ \A k \in 1 .. N : requests[k] \in FewRequests
  OBVIOUS
<1>1. PICK f : Performs(f, s, i, requests, N) /\ run(s, i, requests) = f[N].s
  BY <1>0, RunPerforms
<1> HIDE DEF N
<1> DEFINE K == {k \in 0 .. N : Working(f[k], i, s.dst)}
<1>2. 0 \in K
  BY <1>0, <1>1, BeginWorks DEF Performs
<1>3. ASSUME NEW k \in 1 .. N, k - 1 \in K PROVE k \in K
  <2>0. k \in 0 .. N
    BY <1>0
  <2>1. f[k] = perform(f[k - 1], requests[k])
    <3> HIDE DEF K
    <3>1. \A j \in 1 .. N : f[j] = perform(f[j - 1], requests[j])
      BY <1>1 DEF Performs
    <3> QED BY <3>1
  <2>2. Working(f[k - 1], i, s.dst)
    BY <1>3
  <2>3. Working(perform(f[k - 1], requests[k]), i, s.dst)
    BY <1>0, <2>2, PerformFew
  <2> QED BY <2>0, <2>1, <2>3
<1>4. \A k \in 0 .. N : k \in K
  <2> HIDE DEF K
  <2> QED BY <1>0, <1>2, <1>3, UpTo
<1>5. Working(f[N], i, s.dst)
  BY <1>0, <1>4
<1> QED BY <1>1, <1>5 DEF Working

\* The registers of the cache are consistent between two requests.
Sound(g, i, d) == IsRun(g, i) /\ Ready(g.s) /\ g.s.dst = d

LEMMA SoundEmit ==
    ASSUME NEW i, NEW d, NEW g, Sound(g, i, d), NEW q, q[1] \in Emits
    PROVE  Sound(perform(g, q), i, d) /\ Same(g.s, perform(g, q).s)
  BY PerformEmit DEF Sound, Same

LEMMA AnswerSound ==
    ASSUME NEW i, NEW g, NEW d, Sound(g, i, d), NEW n, NEW t, NEW x, Given(g.s, t, x, n), NEW o
    PROVE  Sound(answered(g, o, t), i, d) /\ answered(g, o, t).s = t
<1>1. IsRun(answered(g, o, t), i) /\ answered(g, o, t).s = t
  BY AnsweredEffect DEF Sound
<1>2. Ready(t) /\ t.dst = d
  BY DEF Sound, Given, Ready
<1> QED BY <1>1, <1>2 DEF Sound

\* MULT and its kin.
LEMMA RunMult ==
    ASSUME NEW s, Ready(s), NEW i \in Instruction
    PROVE  LET r == run(s, i, genmult)
           IN  Ready(r) /\ r.dst = s.dst
<1> DEFINE N == 8
<1>0. /\ Len(genmult) = N /\ N \in Nat
      /\ genmult[1] = <<"manually_w", "lo", EAX>> /\ genmult[2] = <<"manually_w", "hi", EDX>>
      /\ genmult[3] = <<"register", "rs">> /\ genmult[4] = <<"register", "rt">>
      /\ \A k \in 5 .. N : genmult[k][1] \in Emits
  BY DEF genmult, Register, Use, Emits
<1>1. PICK f : Performs(f, s, i, genmult, N) /\ run(s, i, genmult) = f[N].s
  BY <1>0, RunPerforms
<1>p. f[0] = Begin(s, i) /\ \A k \in 1 .. N : f[k] = perform(f[k - 1], genmult[k])
  BY <1>1 DEF Performs
<1> DEFINE K == {k \in 0 .. N : Sound(f[k], i, s.dst)}
<1>2. 0 \in K
  <2>1. Sound(Begin(s, i), i, s.dst)
    BY DEF Begin, Sound, IsRun
  <2> QED BY <1>p, <2>1
<1>3. ASSUME NEW k \in 1 .. N, k - 1 \in K PROVE k \in K
  <2> DEFINE g == f[k - 1]
             q == genmult[k]
             n == Operand(g, q[2])
  <2>1. f[k] = perform(g, q) /\ Sound(g, i, s.dst)
    BY <1>p, <1>3
  <2>2. k \in 0 .. N /\ (k \in {1, 2, 3, 4} \/ k \in 5 .. N)
    OBVIOUS
  <2>i. IsRun(g, i) /\ Ready(g.s)
    BY <2>1 DEF Sound
  <2>s. Sound(g, i, s.dst)
    BY <2>1
  <2> HIDE DEF g
  <2>3. CASE k \in {1, 2}
    <3> DEFINE t == allocate_register_manually_w(g.s, q[3], Low(n))
    <3>1. q[1] = "manually_w" /\ q[2] \in {"lo", "hi"} /\ q[3] \in {EAX, EDX}
      BY <1>0, <2>3
    <3>2. n \in N64
      BY <2>i, <3>1, OperandEffect
    <3>3. perform(g, q) = answered(g, q[2], t)
      BY <3>1 DEF perform
    <3>4. \E x : Given(g.s, t, x, n)
      BY <2>i, <3>1, <3>2, ManuallyWEffect, Names
    <3>6. PICK x : Given(g.s, t, x, n)
      BY <3>4
    <3> HIDE DEF t, n
    <3>7. Sound(answered(g, q[2], t), i, s.dst)
      BY <2>s, <3>6, AnswerSound
    <3> QED BY <2>1, <2>2, <3>3, <3>7
  <2>4. CASE k \in {3, 4}
    <3> DEFINE t == allocate_register(g.s, Low(n))
    <3>1. q[1] = "register" /\ q[2] \in {"rs", "rt"}
      BY <1>0, <2>4
    <3>2. n \in N64
      BY <2>i, <3>1, OperandEffect
    <3>3. perform(g, q) = answered(g, q[2], t)
      BY <3>1 DEF perform
    <3>4. Given(g.s, t, t.ret, n)
      BY <2>i, <3>2, RegisterEffect DEF Ready
    <3> HIDE DEF t, n
    <3>7. Sound(answered(g, q[2], t), i, s.dst)
      BY <2>s, <3>4, AnswerSound
    <3> QED BY <2>1, <2>2, <3>3, <3>7
  <2>5. CASE k \in 5 .. N
    <3>1. q[1] \in Emits
      BY <1>0, <2>5
    <3>2. Sound(perform(g, q), i, s.dst)
      BY <2>1, <3>1, SoundEmit
    <3> QED BY <2>1, <2>2, <3>2
  <2> QED BY <2>2, <2>3, <2>4, <2>5
<1>4. \A k \in 0 .. N : k \in K
  <2> HIDE DEF K, N
  <2> QED BY <1>0, <1>2, <1>3, UpTo
<1>5. Sound(f[N], i, s.dst)
  BY <1>4
<1> QED BY <1>1, <1>5 DEF Sound

\* LW, LD and their kin.
LoadRequests(requests) ==
    /\ Len(requests) = 5 /\ requests[1] = <<"in_memory">>
    /\ requests[2][1] \in Emits /\ requests[3][1] \in Emits /\ requests[5][1] \in Emits
    /\ requests[4][1] \in {"state", "state_pair"} /\ requests[4][2] = "rd"

LEMMA RunLoad ==
    ASSUME NEW s, Ready(s), NEW i \in Instruction, NEW requests, LoadRequests(requests)
    PROVE  LET r == run(s, i, requests)
           IN  Ready(r) /\ r.dst = s.dst
<1>0. Len(requests) \in Nat /\ Len(requests) = 5
  BY DEF LoadRequests
<1>1. PICK f : Performs(f, s, i, requests, 5) /\ run(s, i, requests) = f[5].s
  BY <1>0, RunPerforms
<1>p. /\ f[0] = Begin(s, i)
      /\ f[1] = perform(f[0], requests[1]) /\ f[2] = perform(f[1], requests[2])
      /\ f[3] = perform(f[2], requests[3]) /\ f[4] = perform(f[3], requests[4])
      /\ f[5] = perform(f[4], requests[5])
  BY <1>1 DEF Performs
<1>2. Sound(f[0], i, s.dst)
  BY <1>p DEF Begin, Sound, IsRun
<1>3. Sound(f[1], i, s.dst) /\ Empty(f[1].s)
  <2> DEFINE g == f[0]
             t == in_memory(g.s)
             r == f[1]
  <2>1. r = [g EXCEPT !.s = t]
    <3>1. requests[1][1] = "in_memory"
      BY DEF LoadRequests
    <3> QED BY <1>p, <3>1 DEF perform
  <2>2. Ready(t) /\ Empty(t) /\ t.dst = s.dst
    BY <1>2, EmptyEffect DEF Sound
  <2> HIDE DEF t, r
  <2>3. IsRun(r, i) /\ r.s = t
    BY <1>2, <2>1 DEF IsRun, Sound
  <2> QED BY <2>2, <2>3 DEF Sound, r
<1>4. Sound(f[2], i, s.dst) /\ Empty(f[2].s)
  <2>1. Sound(f[2], i, s.dst) /\ Same(f[1].s, f[2].s)
    BY <1>p, <1>3, SoundEmit DEF LoadRequests
  <2> QED BY <1>3, <2>1 DEF Same, Empty
<1>5. Sound(f[3], i, s.dst) /\ Empty(f[3].s)
  <2>1. Sound(f[3], i, s.dst) /\ Same(f[2].s, f[3].s)
    BY <1>p, <1>4, SoundEmit DEF LoadRequests
  <2> QED BY <1>4, <2>1 DEF Same, Empty
<1>6. Sound(f[4], i, s.dst)
  <2> DEFINE g == f[3]
             q == requests[4]
             n == Operand(g, q[2])
             r == perform(g, q)
             t == set_register_state(g.s, EAX, Low(n), TRUE)
             u == set_64_register_state(g.s, EAX, ECX, n, TRUE)
  <2>1. q[1] \in {"state", "state_pair"} /\ q[2] = "rd" /\ f[4] = r
    BY <1>p DEF LoadRequests
  <2>2. r = answered(g, q[2], t) \/ r = answered(g, q[2], u)
    BY <2>1 DEF perform
  <2>3. IsRun(g, i) /\ Ready(g.s) /\ Empty(g.s) /\ g.s.dst = s.dst
    BY <1>5 DEF Sound
  <2>4. n \in N64
    BY <2>1, <2>3, OperandEffect
  <2> HIDE DEF n, g
  <2>5. Ready(t) /\ t.dst = s.dst
    BY <2>3, <2>4, StateEffect
  <2>6. Ready(u) /\ u.dst = s.dst
    BY <2>3, <2>4, StatePairEffect
  <2> HIDE DEF r, t, u
  <2>7. IsRun(r, i) /\ (r.s = t \/ r.s = u)
    BY <2>2, <2>3, AnsweredEffect
  <2> QED BY <2>1, <2>5, <2>6, <2>7 DEF Sound
<1>7. Sound(f[5], i, s.dst)
  BY <1>p, <1>6, SoundEmit DEF LoadRequests
<1> QED BY <1>1, <1>7 DEF Sound

\* The count of a shift is in ECX.
CountInECX(g, i) == g.s.la[ECX] = g.s.dst /\ g.s.content[ECX] = Low(i.rs)

LEMMA CountKept ==
    ASSUME NEW i, NEW d, NEW g, Working(g, i, d), CountInECX(g, i), NEW n \in Named(i),
           NEW t, NEW x, Given(g.s, t, x, n), Kept(g.s, t), NEW o
    PROVE  Working(answered(g, o, t), i, d) /\ CountInECX(answered(g, o, t), i)
<1>1. answered(g, o, t).s = t
  BY AnsweredEffect DEF Working
<1>2. Working(answered(g, o, t), i, d)
  BY AnswerWorks
<1>3. ECX \in X86 /\ t.dst = g.s.dst
  BY Names DEF Given
<1>4. t.la[ECX] = t.dst /\ t.content[ECX] = Low(i.rs)
  BY <1>3 DEF Kept, CountInECX
<1> QED BY <1>1, <1>2, <1>4 DEF CountInECX

\* DSLLV and its kin.
LEMMA RunDsllv ==
    ASSUME NEW s, Ready(s), NEW i \in Instruction, BusyIn(s, Named(i))
    PROVE  LET r == run(s, i, gendsllv)
           IN  Ready(r) /\ r.dst = s.dst
<1>0. /\ Len(gendsllv) = 8
      /\ gendsllv[1] = <<"manually", "rs", ECX>> /\ gendsllv[2] = <<"pair", "rt">>
      /\ gendsllv[3] = <<"pair_w", "rd">> /\ gendsllv[4] = <<"temporaries">>
      /\ gendsllv[5][1] \in Emits /\ gendsllv[6][1] \in Emits /\ gendsllv[7][1] \in Emits
      /\ gendsllv[8][1] \in Emits
  BY DEF gendsllv, Pair, Use, Use64, Result64, Emits
<1> HIDE DEF gendsllv
<1>l. Len(gendsllv) \in Nat
  BY <1>0
<1>1. PICK f : Performs(f, s, i, gendsllv, 8) /\ run(s, i, gendsllv) = f[8].s
  BY <1>0, <1>l, RunPerforms
<1>p. /\ f[0] = Begin(s, i)
      /\ f[1] = perform(f[0], gendsllv[1]) /\ f[2] = perform(f[1], gendsllv[2])
      /\ f[3] = perform(f[2], gendsllv[3]) /\ f[4] = perform(f[3], gendsllv[4])
      /\ f[5] = perform(f[4], gendsllv[5]) /\ f[6] = perform(f[5], gendsllv[6])
      /\ f[7] = perform(f[6], gendsllv[7]) /\ f[8] = perform(f[7], gendsllv[8])
  BY <1>1 DEF Performs
<1>f. Few(Named(i)) /\ i.rs \in N64 /\ i.rs \in Named(i)
  BY NamedFew DEF Named, Instruction
<1>2. Working(f[0], i, s.dst)
  BY <1>p, BeginWorks
<1>3. Working(f[1], i, s.dst) /\ CountInECX(f[1], i)
  <2> DEFINE g == f[0]
             q == gendsllv[1]
             n == i.rs
             t == allocate_register_manually(g.s, ECX, Low(n))
             r == f[1]
  <2>1. q[1] = "manually" /\ q[2] = "rs" /\ q[3] = ECX
    BY <1>0
  <2>2. IsRun(g, i) /\ Ready(g.s)
    BY <1>2 DEF Working
  <2>3. Operand(g, q[2]) = n
    BY <2>1, <2>2 DEF Operand, IsRun, Instruction
  <2>4. r = answered(g, q[2], t)
    BY <1>p, <2>1, <2>3 DEF perform
  <2>5. Given(g.s, t, ECX, n)
    BY <1>f, <2>2, ManuallyEffect, Names
  <2> HIDE DEF t, r, q
  <2>6. Working(r, i, s.dst)
    BY <1>2, <1>f, <2>4, <2>5, AnswerWorks
  <2>7. r.s = t
    BY <2>2, <2>4, AnsweredEffect
  <2>8. CountInECX(r, i)
    BY <2>5, <2>7 DEF Given, CountInECX
  <2> QED BY <2>6, <2>8 DEF r
<1>4. Working(f[2], i, s.dst) /\ CountInECX(f[2], i)
  <2> DEFINE g == f[1]
             q == gendsllv[2]
             n == Operand(g, q[2])
             t == allocate_64_register(g.s, n)
  <2>1. q[1] = "pair" /\ q[2] = "rt"
    BY <1>0
  <2>2. IsRun(g, i) /\ Ready(g.s) /\ BusyIn(g.s, Named(i))
    BY <1>3 DEF Working
  <2>3. n \in N64 /\ n \in Named(i)
    BY <2>1, <2>2, OperandEffect
  <2>4. f[2] = answered(g, q[2], t)
    BY <1>p, <2>1 DEF perform
  <2>5. Given(g.s, t, t.ret, n) /\ Kept(g.s, t)
    BY <1>f, <2>2, <2>3, PairEffect
  <2> HIDE DEF t, n
  <2> QED BY <1>3, <2>3, <2>4, <2>5, CountKept
<1>5. Working(f[3], i, s.dst) /\ CountInECX(f[3], i)
  <2> DEFINE g == f[2]
             q == gendsllv[3]
             n == Operand(g, q[2])
             t == allocate_64_register_w(g.s, n)
  <2>1. q[1] = "pair_w" /\ q[2] = "rd"
    BY <1>0
  <2>2. IsRun(g, i) /\ Ready(g.s) /\ BusyIn(g.s, Named(i))
    BY <1>4 DEF Working
  <2>3. n \in N64 /\ n \in Named(i)
    BY <2>1, <2>2, OperandEffect
  <2>4. f[3] = answered(g, q[2], t)
    BY <1>p, <2>1 DEF perform
  <2>5. Given(g.s, t, t.ret, n) /\ Kept(g.s, t)
    BY <1>f, <2>2, <2>3, PairWEffect
  <2> HIDE DEF t, n
  <2> QED BY <1>4, <2>3, <2>4, <2>5, CountKept
<1>6. Sound(f[4], i, s.dst)
  <2> DEFINE g == f[3]
             q == gendsllv[4]
             shared == ECX \in {g.at.rd[1], g.at.rd[2]}
             t == two_temporaries(force_32(g.s, ECX), lru_register(force_32(g.s, ECX)))
             u == IF shared THEN t ELSE g.s
             r == f[4]
  <2>1. q[1] = "temporaries"
    BY <1>0
  <2>2. IsRun(g, i) /\ Ready(g.s) /\ g.s.dst = s.dst
    BY <1>5 DEF Working
  <2>3. r = [g EXCEPT !.s = u]
    BY <1>p, <2>1 DEF perform
  <2>4. Cached(g.s, ECX) /\ g.s.content[ECX] = Low(i.rs)
    BY <1>5, <2>2, StateTypes DEF CountInECX, Cached, Ready
  <2>5. Ready(t) /\ t.dst = s.dst
    BY <1>f, <2>2, <2>4, TemporariesEffect
  <2> HIDE DEF t, shared
  <2>6. Ready(u) /\ u.dst = s.dst
    BY <2>2, <2>5
  <2> HIDE DEF u, r
  <2>7. IsRun(r, i) /\ r.s = u
    BY <2>2, <2>3 DEF IsRun
  <2> QED BY <2>6, <2>7 DEF Sound, r
<1>7. Sound(f[5], i, s.dst)
  BY <1>0, <1>p, <1>6, SoundEmit
<1>8. Sound(f[6], i, s.dst)
  BY <1>0, <1>p, <1>7, SoundEmit
<1>9. Sound(f[7], i, s.dst)
  BY <1>0, <1>p, <1>8, SoundEmit
<1>10. Sound(f[8], i, s.dst)
  BY <1>0, <1>p, <1>9, SoundEmit
<1> QED BY <1>1, <1>10 DEF Sound

-----------------------------------------------------------------------------
(* Instructions                                                            *)

LEMMA Requests ==
    /\ \A o \in {"rd", "rs", "rt"} :
          /\ Register(o) \in FewRequests /\ Pair(o) \in FewRequests /\ Use(o) \in FewRequests
          /\ <<"register_w", o>> \in FewRequests /\ <<"pair_w", o>> \in FewRequests
          /\ <<"test", o>> \in FewRequests /\ <<"test_high", o>> \in FewRequests
          /\ <<"use", o>> \in FewRequests /\ <<"use_high", o>> \in FewRequests
    /\ \A o \in {"rd", "hi", "lo"} : <<"put", o>> \in FewRequests
    /\ Result32 \in FewRequests /\ Result64 \in FewRequests
    /\ <<"temporary", {"rs"}>> \in FewRequests /\ <<"temporary", {"rs", "rt"}>> \in FewRequests
    /\ <<"manually", "rs", ECX>> \in FewRequests /\ <<"call">> \in FewRequests
    /\ <<"in_memory">> \in FewRequests /\ <<"free_all">> \in FewRequests
  BY DEF FewRequests, Emits, Register, Pair, Use, Result32, Result64

LEMMA RequestLists ==
    /\ \A o \in {"rd", "rs", "rt"} : Use64(o) \in Seq(FewRequests) /\ Test64(o) \in Seq(FewRequests)
    /\ genadd \in Seq(FewRequests) /\ gensll \in Seq(FewRequests) /\ genlui \in Seq(FewRequests)
    /\ gensllv \in Seq(FewRequests) /\ genand \in Seq(FewRequests) /\ gendsll \in Seq(FewRequests)
    /\ genslt \in Seq(FewRequests) /\ genmfhi \in Seq(FewRequests) /\ gensw \in Seq(FewRequests)
    /\ gendmultu \in Seq(FewRequests) /\ genmfc1 \in Seq(FewRequests)
    /\ genmtc1 \in Seq(FewRequests) /\ gencallinterp \in Seq(FewRequests)
    /\ << >> \in Seq(FewRequests)
<1>c. \A a, b \in Seq(FewRequests) : a \o b \in Seq(FewRequests)
  OBVIOUS
<1>1. \A o \in {"rd", "rs", "rt"} : Use64(o) \in Seq(FewRequests) /\ Test64(o) \in Seq(FewRequests)
  BY Requests DEF Use64, Test64
<1>2. genadd \in Seq(FewRequests)
  BY Requests DEF genadd
<1>3. gensll \in Seq(FewRequests) /\ genlui \in Seq(FewRequests)
  BY Requests DEF gensll, genlui
<1>4. gensllv \in Seq(FewRequests)
  BY Requests DEF gensllv
<1>5. genand \in Seq(FewRequests)
  <2>1. <<Pair("rs"), Pair("rt"), <<"pair_w", "rd">>, <<"temporary", {"rs", "rt"}>> >>
          \in Seq(FewRequests) /\ <<Result64>> \in Seq(FewRequests)
    BY Requests
  <2> QED BY <1>1, <1>c, <2>1 DEF genand
<1>6. gendsll \in Seq(FewRequests)
  <2>1. <<Pair("rt"), <<"pair_w", "rd">> >> \in Seq(FewRequests) /\ <<Result64>> \in Seq(FewRequests)
    BY Requests
  <2> QED BY <1>1, <1>c, <2>1 DEF gendsll
<1>7. genslt \in Seq(FewRequests)
  <2>1. <<Pair("rs"), Pair("rt"), <<"register_w", "rd">> >> \in Seq(FewRequests)
        /\ <<Result32>> \in Seq(FewRequests)
    BY Requests
  <2> QED BY <1>1, <1>c, <2>1 DEF genslt
<1>8. genmfhi \in Seq(FewRequests)
  <2>1. << <<"pair_w", "rd">>, Pair("rs")>> \in Seq(FewRequests) /\ <<Result64>> \in Seq(FewRequests)
    BY Requests
  <2> QED BY <1>1, <1>c, <2>1 DEF genmfhi
<1>9. gensw \in Seq(FewRequests) /\ gencallinterp \in Seq(FewRequests) /\ << >> \in Seq(FewRequests)
  BY Requests DEF gensw, gencallinterp
<1>10. gendmultu \in Seq(FewRequests)
  <2>1. << <<"in_memory">> >> \in Seq(FewRequests)
        /\ << <<"put", "lo">>, <<"put", "hi">> >> \in Seq(FewRequests)
    BY Requests
  <2> QED BY <1>1, <1>c, <2>1 DEF gendmultu
<1>11. gencheck_cop1_unusable \in Seq(FewRequests)
  <2>1. << <<"in_memory">> >> \in Seq(FewRequests)
    BY Requests
  <2> QED BY <1>9, <1>c, <2>1 DEF gencheck_cop1_unusable
<1>12. genmfc1 \in Seq(FewRequests) /\ genmtc1 \in Seq(FewRequests)
  <2>1. << <<"put", "rd">> >> \in Seq(FewRequests)
    BY Requests
  <2> QED BY <1>1, <1>11, <1>c, <2>1 DEF genmfc1, genmtc1
<1> QED BY <1>1, <1>2, <1>3, <1>4, <1>5, <1>6, <1>7, <1>8, <1>9, <1>10, <1>12

LEMMA GenerateEffect ==
    ASSUME NEW s, Ready(s), NEW i \in Instruction, i.op \notin Branches, BusyIn(s, Named(i))
    PROVE  LET r == generate(s, i)
           IN  Ready(r) /\ r.dst = s.dst
<1>1. i.op \in DOMAIN recomp_ops
  BY DEF Instruction
<1>2. i.op \in {"add", "sll", "lui", "sllv", "mult", "and", "dsll", "slt", "mfhi", "dsllv",
                "lw", "ld", "sw", "dmultu", "mfc1", "mtc1", "call", "nop"}
  BY <1>1 DEF recomp_ops
<1>3. CASE i.op \in {"add", "sll", "lui", "sllv", "and", "dsll", "slt", "mfhi", "sw", "dmultu",
                     "mfc1", "mtc1", "call", "nop"}
  <2>1. recomp_ops[i.op] \in Seq(FewRequests)
    <3>1. recomp_ops[i.op] \in {genadd, gensll, genlui, gensllv, genand, gendsll, genslt, genmfhi,
                                gensw, gendmultu, genmfc1, genmtc1, gencallinterp, << >>}
      BY <1>3 DEF recomp_ops
    <3> QED BY <3>1, RequestLists
  <2> QED BY <2>1, RunFew DEF generate
<1>4. CASE i.op = "mult"
  <2>1. recomp_ops[i.op] = genmult
    BY <1>4 DEF recomp_ops
  <2> QED BY <2>1, RunMult DEF generate
<1>5. CASE i.op = "dsllv"
  <2>1. recomp_ops[i.op] = gendsllv
    BY <1>5 DEF recomp_ops
  <2> QED BY <2>1, RunDsllv DEF generate
<1>6. CASE i.op \in {"lw", "ld"}
  <2>1. recomp_ops[i.op] = genlw \/ recomp_ops[i.op] = genld
    BY <1>6 DEF recomp_ops
  <2>2. LoadRequests(genlw) /\ LoadRequests(genld)
    BY DEF LoadRequests, genlw, genld, Result32, Result64, Emits
  <2> QED BY <2>1, <2>2, RunLoad DEF generate
<1> QED BY <1>2, <1>3, <1>4, <1>5, <1>6

\* The next instruction finds nothing in use.
LEMMA AdvanceEffect ==
    ASSUME NEW s, IsState(s), Consistent(s), NEW i
    PROVE  LET r == advance(s)
               t == [s EXCEPT !.dst = @ + 1]
           IN  /\ Ready(r) /\ r.dst = s.dst + 1 /\ BusyIn(r, Named(i))
               /\ Ready(t) /\ t.dst = s.dst + 1 /\ BusyIn(t, Named(i))
<1> DEFINE r == advance(s)
           t == [s EXCEPT !.dst = @ + 1]
<1>1. /\ IsState(r) /\ r.dst = s.dst + 1 /\ r.la = s.la /\ r.content = s.content
      /\ r.dirty = s.dirty /\ r.r64 = s.r64
  BY DEF advance, IsState
<1>2. /\ IsState(t) /\ t.dst = s.dst + 1 /\ t.la = s.la /\ t.content = s.content
      /\ t.dirty = s.dirty /\ t.r64 = s.r64
  BY DEF IsState
<1> HIDE DEF r, t
<1>3. Good(s.dst, s.la, s.content, s.dirty, s.r64)
  BY DEF Consistent
<1>4. Good(s.dst + 1, s.la, s.content, s.dirty, s.r64) /\ s.dst + 1 > 0
      /\ \A z \in X86 : s.la[z] # s.dst + 1
  BY <1>3 DEF Good
<1>5. Ready(r) /\ Ready(t)
  BY <1>1, <1>2, <1>4 DEF Ready, Consistent
<1>6. BusyIn(r, Named(i)) /\ BusyIn(t, Named(i))
  BY <1>1, <1>2, <1>4 DEF BusyIn
<1> QED BY <1>1, <1>2, <1>5, <1>6 DEF r, t

\* What a branch asks for before its slot.
LEMMA BranchRequests ==
    ASSUME NEW s, NEW i \in Instruction, i.op \in Branches
    PROVE  first_of(s, i) \in Seq(FewRequests) /\ second_of(s, i) \in Seq(FewRequests)
<1>c. \A a, b \in Seq(FewRequests) : a \o b \in Seq(FewRequests)
  OBVIOUS
<1>b. i.op \in {"beq", "beq_idle", "blez", "bltzal", "j_idle", "jal", "jr", "jalr", "beql"}
  BY DEF Branches
<1>e. << >> \in Seq(FewRequests) /\ << <<"free_all">> >> \in Seq(FewRequests)
      /\ << <<"in_memory">>, <<"test", "rs">> >> \in Seq(FewRequests)
  BY Requests
<1>1. genbeq_test(s, i) \in Seq(FewRequests)
  <2> DEFINE against(n, m) == <<Pair(n)>> \o Use64(n) \o Test64(m)
             both(n, m) == <<Pair(n), Pair(m)>> \o Use64(n) \o Use64(m)
             four == <<Register("rs"), Register("rt"), Use("rs"), Use("rt")>>
  <2>1. four \in Seq(FewRequests)
    BY Requests
  <2>2. ASSUME NEW n \in {"rs", "rt"}, NEW m \in {"rs", "rt"}
        PROVE  against(n, m) \in Seq(FewRequests) /\ both(n, m) \in Seq(FewRequests)
    <3>1. <<Pair(n)>> \in Seq(FewRequests) /\ <<Pair(n), Pair(m)>> \in Seq(FewRequests)
      BY Requests
    <3>2. Use64(n) \in Seq(FewRequests) /\ Use64(m) \in Seq(FewRequests)
          /\ Test64(m) \in Seq(FewRequests)
      BY RequestLists
    <3> QED BY <1>c, <3>1, <3>2
  <2>3. genbeq_test(s, i) \in {four, against("rt", "rs"), against("rs", "rt"),
                               both("rt", "rs"), both("rs", "rt")}
    BY DEF genbeq_test
  <2> HIDE DEF four, against, both
  <2> QED BY <2>1, <2>2, <2>3
<1>2. genblez_test(s, i) \in Seq(FewRequests) /\ genbltz_test(s, i) \in Seq(FewRequests)
  <2>1. <<Register("rs"), Use("rs")>> \in Seq(FewRequests) /\ <<Pair("rs")>> \in Seq(FewRequests)
        /\ << <<"test_high", "rs">> >> \in Seq(FewRequests)
        /\ <<Pair("rs"), <<"use_high", "rs">> >> \in Seq(FewRequests)
    BY Requests
  <2>2. Test64("rs") \in Seq(FewRequests) /\ <<Pair("rs")>> \o Use64("rs") \in Seq(FewRequests)
    BY <1>c, <2>1, RequestLists
  <2>3. genblez_test(s, i) \in Seq(FewRequests)
    BY <2>1, <2>2 DEF genblez_test
  <2>4. genbltz_test(s, i) \in Seq(FewRequests)
    BY <2>1 DEF genbltz_test
  <2> QED BY <2>3, <2>4
<1>3. genbranchlink(s, i) \in Seq(FewRequests)
  <2>1. << <<"register_w", "rd">>, Result32>> \in Seq(FewRequests)
        /\ << <<"put", "rd">> >> \in Seq(FewRequests)
        /\ << <<"pair_w", "rd">>, Result64>> \in Seq(FewRequests)
    BY Requests
  <2> QED BY <2>1 DEF genbranchlink
<1>4. first_of(s, i) \in Seq(FewRequests)
  BY <1>b, <1>e, <1>1, <1>2 DEF first_of
<1>5. second_of(s, i) \in Seq(FewRequests)
  BY <1>b, <1>e, <1>1, <1>3 DEF second_of
<1> QED BY <1>4, <1>5

LEMMA TestEffect ==
    ASSUME NEW s, Ready(s), NEW i \in Instruction, i.op \in Branches, BusyIn(s, Named(i))
    PROVE  LET r == test_of(s, i)
           IN  Ready(r) /\ r.dst = s.dst
<1> DEFINE a == run(s, i, first_of(s, i))
           b == idle(a, i)
           r == run(b, i, second_of(b, i))
<1>1. Ready(a) /\ a.dst = s.dst /\ BusyIn(a, Named(i))
  BY BranchRequests, RunFew
<1> HIDE DEF a
<1>2. Ready(b) /\ b.dst = s.dst /\ BusyIn(b, Named(i))
  <2>1. CASE i.op = "beq_idle"
    <3>1. b = temporary(a)
      BY <2>1 DEF idle, gentest_idle
    <3> HIDE DEF b
    <3> QED BY <1>1, <3>1, TemporaryEffect
  <2>2. CASE i.op = "j_idle"
    <3>1. b = emit(a, << <<"wreck", {EAX}>> >>)
      BY <2>2 DEF idle, genj_idle, scratch
    <3> HIDE DEF b
    <3>2. Same(a, b)
      BY <1>1, <3>1, EmitSame DEF Ready
    <3> QED BY <1>1, <3>2 DEF Same, Ready, Consistent, BusyIn
  <2>3. CASE i.op # "beq_idle" /\ i.op # "j_idle"
    <3>1. b = a
      BY <2>3 DEF idle
    <3> QED BY <1>1, <3>1
  <2> QED BY <2>1, <2>2, <2>3
<1>r. test_of(s, i) = r
  BY DEF test_of, then_second, a
<1> HIDE DEF b
<1>3. Ready(r) /\ r.dst = s.dst /\ BusyIn(r, Named(i))
  BY <1>2, BranchRequests, RunFew
<1> QED BY <1>r, <1>3

LEMMA BranchEffect ==
    ASSUME NEW s, IsState(s), Consistent(s), NEW i \in Instruction, i.op \in Branches,
           NEW slot \in Instruction, slot.op \notin Branches
    PROVE  IsState(compile_branch(s, i, slot)) /\ Consistent(compile_branch(s, i, slot))
<1> DEFINE a == test_of(advance(s), i)
           p == [a EXCEPT !.dst = @ + 1]
           b == free_all_registers(generate(p, slot))
           l == genjal_link(b, i)
           e == emit(l, << <<"exit">> >>)
           k == s.dst + 1
           m == [e EXCEPT !.dst = k]
           n == advance(m)
           r == free_all_registers(generate(n, slot))
<1>r. compile_branch(s, i, slot) = r
  BY DEF compile_branch, own_slot, leave_block, gendelayslot
<1>0. k \in Nat /\ k > 0
  BY StateTypes
<1>1. Ready(a)
  <2>1. Ready(advance(s)) /\ BusyIn(advance(s), Named(i))
    BY AdvanceEffect
  <2> QED BY <2>1, TestEffect
<1> HIDE DEF a, k
<1>2. Ready(p) /\ BusyIn(p, Named(slot))
  BY <1>1, AdvanceEffect DEF Ready
<1> HIDE DEF p
<1>3. Ready(b) /\ Empty(b)
  <2>1. Ready(generate(p, slot))
    BY <1>2, GenerateEffect
  <2> QED BY <2>1, EmptyEffect
<1> HIDE DEF b
<1>4. Ready(l) /\ Empty(l)
  <2> DEFINE put == << <<"put", "rd">> >>
  <2>1. CASE i.op \in {"jal", "jalr"}
    <3>1. l = run(b, i, put)
      BY <2>1 DEF genjal_link
    <3>p. put[1] = <<"put", "rd">> /\ Len(put) = 1 /\ Len(put) \in Nat
      OBVIOUS
    <3> HIDE DEF l, put
    <3>2. PICK f : Performs(f, b, i, put, 1) /\ run(b, i, put) = f[1].s
      BY <3>p, RunPerforms
    <3>3. f[0] = Begin(b, i) /\ f[1] = perform(f[0], <<"put", "rd">>)
      BY <3>2, <3>p DEF Performs
    <3>4. Sound(f[0], i, b.dst) /\ f[0].s = b
      BY <1>3, <3>3 DEF Begin, Sound, IsRun
    <3>5. <<"put", "rd">>[1] \in Emits
      BY DEF Emits
    <3>6. Sound(f[1], i, b.dst) /\ Same(b, f[1].s)
      BY <3>3, <3>4, <3>5, SoundEmit
    <3>7. Ready(l) /\ Empty(l)
      BY <1>3, <3>1, <3>2, <3>6 DEF Sound, Same, Empty
    <3> QED BY <3>7 DEF l
  <2>2. CASE i.op \notin {"jal", "jalr"}
    <3>1. l = b
      BY <2>2 DEF genjal_link
    <3> QED BY <1>3, <3>1
  <2> QED BY <2>1, <2>2
<1> HIDE DEF l
<1>5. Ready(e) /\ Empty(e)
  <2>1. Same(l, e)
    BY <1>4, EmitSame DEF Ready
  <2> HIDE DEF e
  <2> QED BY <1>4, <2>1 DEF Same, Ready, Consistent, Empty
<1> HIDE DEF e
<1>6. IsState(m) /\ Consistent(m)
  <2>1. /\ IsState(m) /\ m.dst = k /\ m.la = e.la /\ m.content = e.content
        /\ m.dirty = e.dirty /\ m.r64 = e.r64
    BY <1>5 DEF Ready, IsState
  <2>2. Good(k, e.la, e.content, e.dirty, e.r64)
    <3>1. Good(e.dst, e.la, e.content, e.dirty, e.r64) /\ \A z \in X86 : e.la[z] = 0
      BY <1>5 DEF Ready, Consistent, Empty
    <3>2. \A z \in X86 : e.la[z] <= k
      BY <1>0, <3>1
    <3> QED BY <1>0, <3>1, <3>2 DEF Good
  <2> QED BY <2>1, <2>2 DEF Consistent
<1> HIDE DEF m
<1>7. Ready(n) /\ BusyIn(n, Named(slot))
  BY <1>6, AdvanceEffect
<1> HIDE DEF n
<1>8. Ready(r)
  <2>1. Ready(generate(n, slot))
    BY <1>7, GenerateEffect
  <2> QED BY <2>1, EmptyEffect
<1> QED BY <1>r, <1>8 DEF Ready

-----------------------------------------------------------------------------
(* The block                                                               *)

\* What every step of the compiler preserves.
RInv == IsState(c) /\ Consistent(c)

LEMMA RInvInitially ==
    ASSUME Init
    PROVE  RInv
<1> DEFINE v == FALSE
<1>v. v \in BOOLEAN
  OBVIOUS
<1>1. /\ IsState(c) /\ c.dst = 0
      /\ c.la = [x \in X86 |-> 0] /\ c.content = [x \in X86 |-> Null]
      /\ c.dirty = [x \in X86 |-> v] /\ c.r64 = [x \in X86 |-> None]
  BY DEF Init, init_cache, IsState
<1> HIDE DEF v
<1>2. Good(c.dst, c.la, c.content, c.dirty, c.r64)
  BY <1>v, <1>1, Names DEF Good, Content
<1> QED BY <1>1, <1>2 DEF RInv, Consistent

LEMMA RInvPreserved ==
    ASSUME RInv, [Next]_vars
    PROVE  RInv'
<1>0. Programs \subseteq Instruction
  BY RecompilerAssumption DEF Instruction
<1>1. ASSUME NEW i \in Programs, Compile(i) PROVE RInv'
  <2>1. i \in Instruction /\ i.op \notin Branches /\ c' = generate(advance(c), i)
    BY <1>0, <1>1 DEF Compile
  <2>2. Ready(advance(c)) /\ BusyIn(advance(c), Named(i))
    BY AdvanceEffect DEF RInv
  <2>3. Ready(generate(advance(c), i))
    BY <2>1, <2>2, GenerateEffect
  <2> QED BY <2>1, <2>3 DEF RInv, Ready, IsState, Consistent
<1>2. ASSUME NEW i \in Programs, NEW slot \in Programs, CompileBranch(i, slot) PROVE RInv'
  <2>1. /\ i \in Instruction /\ i.op \in Branches /\ slot \in Instruction
        /\ slot.op \notin Branches /\ c' = compile_branch(c, i, slot)
    BY <1>0, <1>2 DEF CompileBranch
  <2>2. IsState(compile_branch(c, i, slot)) /\ Consistent(compile_branch(c, i, slot))
    BY <2>1, BranchEffect DEF RInv
  <2> QED BY <2>1, <2>2 DEF RInv, IsState, Consistent
<1>3. ASSUME Finish PROVE RInv'
  <2> DEFINE f == free_all_registers(c)
             e == emit(f, << <<"exit">> >>)
  <2>1. c' = e
    BY <1>3 DEF Finish
  <2>2. IsState(f) /\ Consistent(f)
    BY FreeAllEffect DEF RInv
  <2> HIDE DEF f
  <2>3. Same(f, e)
    BY <2>2, EmitSame
  <2>4. IsState(e) /\ Consistent(e)
    BY <2>2, <2>3 DEF Same, Consistent
  <2> HIDE DEF e
  <2> QED BY <2>1, <2>4 DEF RInv, IsState, Consistent
<1>4. CASE UNCHANGED vars
  BY <1>4 DEF vars, RInv, IsState, Consistent
<1> QED BY <1>1, <1>2, <1>3, <1>4 DEF Next

\* While a block is compiled, whatever instructions it is made of, the register
\* cache of regcache.cpp stays consistent: the halves of a value are cached and
\* modified together and know each other, no value is in two registers, no high
\* half is there without its low half, and ESP is never given away.
THEOREM RegistersConsistent == Spec => []CacheConsistent
<1>1. Init => RInv
  BY RInvInitially
<1>2. RInv /\ [Next]_vars => RInv'
  BY RInvPreserved
<1>3. RInv => CacheConsistent
  <2> SUFFICES ASSUME RInv PROVE CacheConsistent
    OBVIOUS
  <2>1. Good(c.dst, c.la, c.content, c.dirty, c.r64)
    BY DEF RInv, Consistent
  <2>2. PairsMatch(c)
    BY <2>1 DEF Good, PairsMatch, Paired, Cached
  <2>3. CachedOnce(c)
    BY <2>1 DEF Good, CachedOnce, Paired, Cached
  <2> QED BY <2>2, <2>3 DEF CacheConsistent
<1> QED BY <1>1, <1>2, <1>3, PTL DEF Spec

-----------------------------------------------------------------------------
=============================================================================
