------------------------------ MODULE BigEndian ------------------------------
(***************************************************************************)
(* What a program of the console may rely on: memories whose addresses     *)
(* name bytes, loads and stores that take the most significant byte first, *)
(* registers, transfers between memories, and save memories that keep what *)
(* was saved for each game.  A value is the sequence of its bytes, most    *)
(* significant first.                                                      *)
(*                                                                         *)
(* op is the operation that was performed last.  A cell of a save memory   *)
(* that has never been written is Absent: it may deliver anything, and may *)
(* get any value when another cell is saved.                               *)
(***************************************************************************)
EXTENDS Integers, Sequences

CONSTANT Absent

VARIABLES mem,      \* area -> address -> byte
          rt,       \* a general register of eight bytes
          fpr,      \* floating-point register -> bytes: four with FR = 0, eight with FR = 1
          fr,       \* the bit FR of Status
          llbit,    \* is a linked load pending?
          op,       \* the operation performed last
          game,     \* the game that runs
          saves     \* game -> save memory -> address -> byte or Absent

vars == <<mem, rt, fpr, fr, llbit, op, game, saves>>

Bytes(m, a, n) == [i \in 1 .. n |-> m[a + i - 1]]
Put(m, a, v) ==
    [x \in DOMAIN m |-> IF x \in a .. a + Len(v) - 1 THEN v[x - a + 1] ELSE m[x]]
First(v, n) == SubSeq(v, 1, n)
Last(v, n) == SubSeq(v, Len(v) - n + 1, Len(v))
Zero(n) == [i \in 1 .. n |-> 0]
Extended(v) == [i \in 1 .. 8 - Len(v) |-> IF v[1] >= 128 THEN 255 ELSE 0] \o v

-----------------------------------------------------------------------------
\* The register after a load of address a from memory m.
Loaded(do, r, m, a) ==
    LET left(n) == n - (a % n)       \* bytes from a to the end of its word of n bytes
        start(n) == a - (a % n)
        right(n) == (a % n) + 1      \* bytes from the start of that word to a
    IN  CASE do = "LB" -> Extended(Bytes(m, a, 1))
          [] do = "LH" -> Extended(Bytes(m, a, 2))
          [] do \in {"LW", "LL"} -> Extended(Bytes(m, a, 4))
          [] do = "LBU" -> Zero(7) \o Bytes(m, a, 1)
          [] do = "LHU" -> Zero(6) \o Bytes(m, a, 2)
          [] do = "LWU" -> Zero(4) \o Bytes(m, a, 4)
          [] do = "LD" -> Bytes(m, a, 8)
          [] do = "LWL" -> Extended(Bytes(m, a, left(4)) \o Last(r, 4 - left(4)))
          [] do = "LWR" -> IF right(4) = 4 THEN Extended(Bytes(m, start(4), 4))
                           ELSE First(r, 8 - right(4)) \o Bytes(m, start(4), right(4))
          [] do = "LDL" -> Bytes(m, a, left(8)) \o Last(r, 8 - left(8))
          [] do = "LDR" -> First(r, 8 - right(8)) \o Bytes(m, start(8), right(8))

\* The memory after a store of register r to address a.
Stored(do, r, m, a) ==
    CASE do = "SB" -> Put(m, a, Last(r, 1))
      [] do = "SH" -> Put(m, a, Last(r, 2))
      [] do \in {"SW", "SC"} -> Put(m, a, Last(r, 4))
      [] do = "SD" -> Put(m, a, r)
      [] do = "SWL" -> Put(m, a, First(Last(r, 4), 4 - (a % 4)))
      [] do = "SWR" -> Put(m, a - (a % 4), Last(r, (a % 4) + 1))
      [] do = "SDL" -> Put(m, a, First(r, 8 - (a % 8)))
      [] do = "SDR" -> Put(m, a - (a % 8), Last(r, (a % 8) + 1))

\* Floating-point register f read and written as four or as eight bytes.
Single(p, f) == Last(p[f], 4)
SetSingle(p, f, v) == [p EXCEPT ![f] = First(p[f], Len(p[f]) - 4) \o v]
Double(p, f) == IF fr THEN p[f] ELSE p[f + 1] \o p[f]
SetDouble(p, f, v) ==
    IF fr THEN [p EXCEPT ![f] = v] ELSE [p EXCEPT ![f] = Last(v, 4), ![f + 1] = First(v, 4)]

-----------------------------------------------------------------------------
Store ==
    /\ op'.do \in {"SB", "SH", "SW", "SD", "SWL", "SWR", "SDL", "SDR"}
    /\ mem' = [mem EXCEPT ![op'.area] = Stored(op'.do, rt, mem[op'.area], op'.a)]
    /\ UNCHANGED <<rt, fpr, fr, llbit, game, saves>>

Load ==
    /\ op'.do \in {"LB", "LH", "LW", "LL", "LBU", "LHU", "LWU", "LD", "LWL", "LWR", "LDL", "LDR"}
    /\ rt' = Loaded(op'.do, rt, mem[op'.area], op'.a)
    /\ llbit' = (llbit \/ op'.do = "LL")
    /\ UNCHANGED <<mem, fpr, fr, game, saves>>

\* A conditional store succeeds once after a linked load.
StoreConditional ==
    /\ op'.do = "SC"
    /\ mem' = [mem EXCEPT ![op'.area] = IF llbit THEN Stored("SC", rt, @, op'.a) ELSE @]
    /\ rt' = Zero(7) \o <<IF llbit THEN 1 ELSE 0>>
    /\ llbit' = FALSE
    /\ UNCHANGED <<fpr, fr, game, saves>>

FloatingPoint ==
    LET m == mem[op'.area]
        a == op'.a
        f == op'.f
    IN  /\ \/ /\ op'.do \in {"LWC1", "LDC1"}
              /\ fpr' = IF op'.do = "LWC1" THEN SetSingle(fpr, f, Bytes(m, a, 4))
                        ELSE SetDouble(fpr, f, Bytes(m, a, 8))
              /\ UNCHANGED <<mem, rt>>
           \/ /\ op'.do \in {"SWC1", "SDC1"}
              /\ mem' = [mem EXCEPT ![op'.area] =
                            Put(m, a, IF op'.do = "SWC1" THEN Single(fpr, f) ELSE Double(fpr, f))]
              /\ UNCHANGED <<fpr, rt>>
           \/ /\ op'.do \in {"MTC1", "DMTC1"}
              /\ fpr' = IF op'.do = "MTC1" THEN SetSingle(fpr, f, Last(rt, 4)) ELSE SetDouble(fpr, f, rt)
              /\ UNCHANGED <<mem, rt>>
           \/ /\ op'.do \in {"MFC1", "DMFC1"}
              /\ rt' = IF op'.do = "MFC1" THEN Extended(Single(fpr, f)) ELSE Double(fpr, f)
              /\ UNCHANGED <<mem, fpr>>
        /\ UNCHANGED <<fr, llbit, game, saves>>

\* A change of FR leaves the contents of the floating-point registers undefined.
ChangeFr ==
    /\ op'.do = "MTC0"
    /\ fr' = ~fr
    /\ UNCHANGED <<mem, rt, llbit, game, saves>>

\* n bytes from address s of one memory to address d of another.
Transfer ==
    /\ op'.do = "transfer"
    /\ mem' = [mem EXCEPT ![op'.to] = Put(@, op'.d, Bytes(mem[op'.from], op'.s, op'.n))]
    /\ UNCHANGED <<rt, fpr, fr, llbit, game, saves>>

\* The same with the bytes of every half word exchanged.
Swapped(v) == [i \in DOMAIN v |-> v[IF i % 2 = 1 THEN i + 1 ELSE i - 1]]
TransferSwapped ==
    /\ op'.do = "transfer_swapped"
    /\ mem' = [mem EXCEPT ![op'.to] = Put(@, op'.d, Swapped(Bytes(mem[op'.from], op'.s, op'.n)))]
    /\ UNCHANGED <<rt, fpr, fr, llbit, game, saves>>

-----------------------------------------------------------------------------
\* Save memory s becomes t when bytes v are saved from address a on.
Saved(s, t, a, v) ==
    /\ DOMAIN t = DOMAIN s
    /\ \A x \in DOMAIN s : IF x \in a .. a + Len(v) - 1 THEN t[x] = v[x - a + 1]
                           ELSE s[x] \in {Absent, t[x]}

\* The saved bytes from address a on may be delivered as v.
Delivers(s, a, v) == \A i \in DOMAIN v : s[a + i - 1] \in {Absent, v[i]}

\* All save memories except some of the running game keep what was saved.
Kept(except) ==
    /\ DOMAIN saves' = DOMAIN saves
    /\ \A g \in DOMAIN saves : \A m \in DOMAIN saves[g] :
          IF g # game THEN saves'[g][m] = saves[g][m]
          ELSE m \notin except => Saved(saves[g][m], saves'[g][m], 0, <<>>)

\* The operations on save memories, one at a time: op'.m is the save memory.
Save ==
    /\ op'.do = "save"
    /\ Kept({op'.m})
    /\ Saved(saves[game][op'.m], saves'[game][op'.m], op'.d, Bytes(mem[op'.from], op'.s, op'.n))
    /\ UNCHANGED <<mem, rt, fpr, fr, llbit, game>>

Erase ==
    /\ op'.do = "erase"
    /\ Kept({op'.m})
    /\ Saved(saves[game][op'.m], saves'[game][op'.m], op'.d, [i \in 1 .. op'.n |-> 255])
    /\ UNCHANGED <<mem, rt, fpr, fr, llbit, game>>

Deliver ==
    /\ op'.do = "deliver"
    /\ LET new == Bytes(mem'[op'.to], op'.d, op'.n)
       IN  /\ Delivers(saves[game][op'.m], op'.s, new)
           /\ mem' = [mem EXCEPT ![op'.to] = Put(@, op'.d, new)]
    /\ UNCHANGED <<rt, fpr, fr, llbit, game, saves>>

\* Commands to two devices of the serial bus in one transfer: the RAM of the
\* PIF gets what memory holds, and each device saves its field of it or
\* delivers into it, the first one first.  A missing pack delivers zeros.
Field(area, c) == Bytes(area, c.at, c.n)
Joybus ==
    /\ op'.do = "joybus"
    /\ LET pif == Put(mem.pif, 0, Bytes(mem.rdram, op'.s, op'.n))
           Delivered == {c \in op'.commands : c.cmd = "read"}
           Written == {c \in op'.commands : c.cmd = "write"}
           memories == {c.m : c \in Written} \ {"none"}
       IN  /\ \A x \in DOMAIN pif :
                 (\A c \in Delivered : x \notin c.at .. c.at + c.n - 1) => mem'.pif[x] = pif[x]
           /\ \A c \in Delivered :
                 IF c.m = "none" THEN Field(mem'.pif, c) = Zero(c.n)
                 ELSE \E s \in {saves[game][c.m], saves'[game][c.m]} : Delivers(s, c.a, Field(mem'.pif, c))
           /\ mem' = [mem EXCEPT !.pif = mem'.pif]
           /\ Kept(memories)
           /\ \A m \in memories : \A x \in DOMAIN saves[game][m] :
                 LET c == {k \in Written : k.m = m /\ x \in k.a .. k.a + k.n - 1}
                 IN  IF c = {} THEN saves[game][m][x] \in {Absent, saves'[game][m][x]}
                     ELSE \E k \in c : saves'[game][m][x] = pif[k.at + x - k.a]
    /\ UNCHANGED <<rt, fpr, fr, llbit, game>>

\* A game starts, possibly again and with its save data reset; other games keep theirs.
StartGame ==
    /\ op'.do = "start"
    /\ game' = op'.game
    /\ mem'.sd = mem.sd
    /\ \A g \in DOMAIN saves : \A m \in DOMAIN saves[g] :
          \/ saves'[g][m] = saves[g][m]
          \/ op'.wipe /\ g = game' /\ \A x \in DOMAIN saves[g][m] : saves'[g][m][x] \in {0, saves[g][m][x]}

\* Commands that change no memory.
Command == op'.do = "command" /\ UNCHANGED <<mem, rt, fpr, fr, llbit, game, saves>>

Next ==
    \/ Load \/ Store \/ StoreConditional \/ FloatingPoint \/ ChangeFr
    \/ Transfer \/ TransferSwapped
    \/ Save \/ Erase \/ Deliver \/ Joybus \/ StartGame \/ Command

Init == op = [do |-> "none"]

Spec == Init /\ [][Next]_vars

=============================================================================
