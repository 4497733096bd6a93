------------------------------- MODULE Devices -------------------------------
(***************************************************************************)
(* The devices around the emulated processor: the registers of the memory  *)
(* map through which a game starts transfers and acknowledges interrupts   *)
(* (memory/memory.cpp, memory/dma.cpp), the events that end the transfers  *)
(* (r4300/interrupt.cpp) and the delivery of interrupts to the processor   *)
(* (r4300/interrupt.cpp, exception.cpp, cop0.cpp). The game is the          *)
(* environment: any sequence of the accesses its scene allows. A step is   *)
(* an instruction, or a branch with the instruction of its delay slot, of  *)
(* the pure or the cached interpreter.                                     *)
(***************************************************************************)
EXTENDS InterruptQueue, FiniteSets

CONSTANTS
    Scenes,         \* what the games of an instance do: sets of Features
    Masks,          \* the values written to MI_INTR_MASK_REG
    SaveCounts,     \* the values of Count at which savestates are made
    Starts,         \* the values of Count at which the instance begins
    StepCycles,     \* cycles of an instruction sequence that ends in a branch
    MaxChecks,      \* how many CHECK_INT wait at most: straight-line code is short
    ViDelay, IdleViDelay,               \* vi_delay with and without a v_sync
    PiDelay, SiDelay, SpDelay,          \* delays of the other events
    AiDelays,                           \* the lengths of audio buffers
    Compares                            \* values the game writes to Compare and Count

Features == {"Mask", "Status", "VI", "PI", "SI", "AI", "SP", "DP", "Timer", "Count", "Idle",
             "Save", "Slot", "TLB"}

ASSUME DelayAssumption ==
    /\ Scenes \subseteq SUBSET Features
    /\ StepCycles \subseteq 1 .. Recent
    /\ {ViDelay, IdleViDelay, PiDelay, SiDelay, SpDelay} \cup AiDelays \subseteq 0 .. Recent
    /\ Compares \subseteq Counts /\ Starts \subseteq Counts

VARIABLES
    scene,      \* what the game does
    m,          \* the machine
    saved,      \* the savestate, or NoState
    fired,      \* history: the type of the event of the last step, NoEvent or Loaded
    missed      \* history: the queue and Count fell out of step

vars == <<scene, m, saved, fired, missed>>

\* Bits of MI_INTR_REG, and the interrupts of the processor (bits of Cause).
Sources == {"SP", "SI", "AI", "VI", "PI", "DP"}

ASSUME MasksAssumption == Masks \subseteq SUBSET Sources

RCP == "RCP"
TIMER == "TIMER"

NoState == [Count |-> CountLimit]
NoEvent == "none"
Loaded == "loaded"

-----------------------------------------------------------------------------
(* The processor's side                                                    *)

\* (core_Status & 7) == 1
Enabled(k) == k.IE /\ ~k.EXL

\* exception_general; in a delay slot the branch must not be taken, which
\* skip_jump tells it, and it has to look at the queue.
exception_general(k) ==
    [k EXCEPT !.EXL = TRUE,
              !.skip_jump = @ \/ k.delay_slot,
              !.next_interrupt = IF k.delay_slot THEN 0 ELSE @]

\* The Cause bit of the RCP follows the MI registers.
rcp_pending(k) == k.mi_intr_reg \cap k.mi_intr_mask_reg # {}

\* Mutant: no CHECK_INT is queued.
check_interrupt_cause_only(k) ==
    [k EXCEPT !.Cause = IF rcp_pending(k) THEN @ \cup {RCP} ELSE @ \ {RCP}]

check_interrupt(k) ==
    LET c == [k EXCEPT !.Cause = IF rcp_pending(k) THEN @ \cup {RCP} ELSE @ \ {RCP}]
    IN  IF Enabled(c) /\ c.Cause \cap c.IM # {} THEN push_check(c) ELSE c

raise(k, source) == [k EXCEPT !.mi_intr_reg = @ \cup {source}]
lower(k, source) == [k EXCEPT !.mi_intr_reg = @ \ {source}]

vi_delay(k) == IF k.v_sync THEN ViDelay ELSE IdleViDelay

\* Mutant: the PI stays busy.
pi_event_still_busy(k) == raise(remove_interrupt_event(k), "PI")

\* The cases of gen_interrupt that change a device and raise its interrupt.
vi_event(k) ==
    LET n == Wrap(k.next_vi + vi_delay(k))
    IN  raise(add_interrupt_event_count(
                remove_interrupt_event([k EXCEPT !.next_vi = n]), "VI_INT", n), "VI")

compare_event(k) ==
    LET r == remove_interrupt_event(k)
        later == add_interrupt_event_count([r EXCEPT !.Count = Wrap(@ + 2)],
                                           "COMPARE_INT", k.Compare)
    IN  [later EXCEPT !.Count = k.Count, !.Cause = @ \cup {TIMER}]

si_event(k) == raise([remove_interrupt_event(k) EXCEPT !.si_status = TRUE], "SI")

pi_event(k) == raise([remove_interrupt_event(k) EXCEPT !.pi_busy = FALSE], "PI")

\* A full AI begins its next buffer where the last one ended.
ai_event(k) ==
    LET at == get_event(k, "AI_INT")
        r == remove_interrupt_event(k)
    IN  raise(IF k.ai_full
              THEN add_interrupt_event_count(
                      [r EXCEPT !.ai_full = FALSE, !.ai_delay = k.ai_next],
                      "AI_INT", Wrap(at + k.ai_next))
              ELSE [r EXCEPT !.ai_busy = FALSE],
              "AI")

sp_event(k) ==
    LET r == [remove_interrupt_event(k) EXCEPT !.sp_halt = TRUE, !.sp_broke = TRUE]
    IN  IF k.sp_intr_break THEN raise(r, "SP") ELSE r

dp_event(k) == raise(remove_interrupt_event(k), "DP")

device_event(k, type) ==
    CASE type = "VI_INT" -> vi_event(k)
      [] type = "COMPARE_INT" -> compare_event(k)
      [] type = "SI_INT" -> si_event(k)
      [] type = "PI_INT" -> pi_event(k)
      [] type = "AI_INT" -> ai_event(k)
      [] type = "SP_INT" -> sp_event(k)
      [] type = "DP_INT" -> dp_event(k)

\* What gen_interrupt does after a device event. Without an interrupt of the
\* RCP it returns, whatever else is pending.
deliver(k) ==
    IF ~rcp_pending(k) THEN k
    ELSE LET c == [k EXCEPT !.Cause = @ \cup {RCP}]
         IN  IF Enabled(c) /\ c.Cause \cap c.IM # {} THEN exception_general(c) ELSE c

\* SPECIAL_INT is handled once Count has wrapped, and queued again.
special_event(k) ==
    IF k.Count > Recent THEN k
    ELSE add_interrupt_event_count(remove_interrupt_event(k), "SPECIAL_INT", 0)

gen_interrupt(k) ==
    IF k.skip_jump
    THEN [k EXCEPT !.skip_jump = FALSE, !.next_interrupt = due_of(k, Head(k.q))]
    ELSE LET type == Head(k.q).type
         IN  CASE type = "SPECIAL_INT" -> special_event(k)
               [] type = "CHECK_INT" -> exception_general(remove_interrupt_event(k))
               [] type = "SP_INT" /\ ~k.sp_intr_break -> sp_event(k)
               [] OTHER -> deliver(device_event(k, type))

look(k) == IF Noticed(k) THEN gen_interrupt(k) ELSE k

\* The type of the event that look(k) handles.
handles(k) == IF Noticed(k) /\ ~k.skip_jump THEN Head(k.q).type ELSE NoEvent

update_count(k, d) == [k EXCEPT !.Count = Wrap(@ + d)]

-----------------------------------------------------------------------------

Machine(start) ==
    LET bare == [Count |-> start, Compare |-> 0, q |-> << >>, next_interrupt |-> 0,
                 SPECIAL_done |-> TRUE, next_vi |-> Wrap(start + ViDelay), v_sync |-> TRUE,
                 mi_intr_reg |-> {}, mi_intr_mask_reg |-> {}, Cause |-> {},
                 IM |-> {RCP, TIMER}, IE |-> FALSE, EXL |-> FALSE,
                 skip_jump |-> FALSE, delay_slot |-> FALSE,
                 pi_busy |-> FALSE, si_status |-> FALSE,
                 ai_busy |-> FALSE, ai_full |-> FALSE, ai_delay |-> 0, ai_next |-> 0,
                 sp_halt |-> TRUE, sp_broke |-> FALSE, sp_intr_break |-> FALSE]
    IN  add_interrupt_event_count(
            add_interrupt_event_count(bare, "VI_INT", bare.next_vi), "SPECIAL_INT", 0)

\* init_interrupt, and a game that has enabled the interrupts of a mask.
Init ==
    /\ scene \in Scenes
    /\ \E start \in Starts, mask \in Masks :
            m = [Machine(start) EXCEPT !.mi_intr_mask_reg = mask, !.IE = TRUE]
    /\ saved = NoState
    /\ fired = NoEvent
    /\ missed = FALSE

\* The time of an event came before Count wrapped, and it was not handled.
Overslept(k) == \E i \in DOMAIN k.q : Due(k, k.q[i]) /\ k.q[i].count > k.Count

becomes(k) == m' = k /\ missed' = (missed \/ Overslept(k))

Leaves(k) ==
    /\ Cardinality(places(k, "CHECK_INT")) <= MaxChecks
    /\ UNCHANGED <<scene, saved>>

\* The instruction leaves the machine in state k.
Instruction(k) == becomes(k) /\ Leaves(k)

\* The same for one that may make next_interrupt disagree with the queue.
Untimely(k, when) == m' = k /\ missed' = (missed \/ when \/ Overslept(k)) /\ Leaves(k)

-----------------------------------------------------------------------------
(* Branches                                                                *)

\* J, BEQ, ...: time passes, then the queue is looked at.
Branch(d) ==
    LET k == update_count(m, d)
    IN  Instruction(look(k)) /\ fired' = handles(k)

\* J_IDLE and the other branches of an idle loop skip to the next event, in
\* steps of two cycles in this scale (four in the code).
J_IDLE ==
    LET skip == Minus(m.next_interrupt, m.Count)
    IN  /\ "Idle" \in scene
        /\ skip > 1 /\ skip < Half
        /\ Instruction(update_count(m, skip - (skip % 2)))
        /\ fired' = NoEvent

\* A handler of the exception has branches before its ERET.
ERET ==
    LET k == check_interrupt([m EXCEPT !.EXL = FALSE])
    IN  /\ m.EXL
        /\ Instruction(look(k))
        /\ fired' = handles(k)

-----------------------------------------------------------------------------
(* Coprocessor 0                                                           *)

\* An instruction that looks at the queue, followed by the end of the branch
\* if it stands in a delay slot.
LooksAtQueue(k) ==
    \/ Instruction(look(k)) /\ fired' = handles(k)
    \/ /\ "Slot" \in scene
       /\ LET s == [look([k EXCEPT !.delay_slot = TRUE]) EXCEPT !.delay_slot = FALSE]
          IN  /\ Instruction(look(s))
              /\ fired' = IF handles(k) = NoEvent THEN handles(s) ELSE handles(k)

MTC0_Status(ie, exl) ==
    /\ "Status" \in scene
    /\ LooksAtQueue(check_interrupt([m EXCEPT !.IE = ie, !.EXL = exl]))

MTC0_Compare(c) ==
    /\ "Timer" \in scene
    /\ Untimely([add_interrupt_event_count(remove_event(m, "COMPARE_INT"), "COMPARE_INT", c)
                     EXCEPT !.Compare = c, !.Cause = @ \ {TIMER}],
                Head(m.q).type = "COMPARE_INT")
    /\ fired' = NoEvent

MTC0_Count(c) ==
    LET k == look(m)
    IN  /\ "Count" \in scene
        /\ ~missed                     \* bound: one write of Count
        /\ Untimely([translate_event_queue(k, c) EXCEPT !.Count = c], TRUE)
        /\ fired' = handles(m)

\* The exception of an access to an address that is not mapped: the pending
\* bits of Cause are overwritten. In a delay slot the branch goes on.
TLB_refill_exception(slot) ==
    LET k == [m EXCEPT !.Cause = {}, !.EXL = TRUE,
                       !.skip_jump = slot, !.next_interrupt = IF slot THEN 0 ELSE @]
    IN  /\ "TLB" \in scene
        /\ slot => "Slot" \in scene
        /\ Instruction(IF slot THEN look(k) ELSE k)
        /\ fired' = NoEvent

-----------------------------------------------------------------------------
(* Registers of the devices                                                *)

Acknowledged(k) == Instruction(check_interrupt(k)) /\ fired' = NoEvent

Stored(k) == Instruction(k) /\ fired' = NoEvent

\* A game waits for the end of a transfer before it starts another one, as the
\* access queues of its operating system make it do.
Free(type) == ~Queued(m, type)

write_mi_mask(mask) ==
    /\ "Mask" \in scene
    /\ LooksAtQueue(check_interrupt([m EXCEPT !.mi_intr_mask_reg = mask]))

\* MI_INIT_MODE_REG acknowledges the interrupt of the DP.
write_mi_mode == "DP" \in scene /\ Acknowledged(lower(m, "DP"))

\* VI_CURRENT_REG
write_vi_current == Acknowledged(lower(m, "VI"))

\* Mutant: the write restarts a frame that is over.
write_vi_v_sync_restarts ==
    LET n == Wrap(m.next_vi + vi_delay(m))
    IN  /\ "VI" \in scene
        /\ Stored(IF Head(m.q).type = "VI_INT" /\ Due(m, Head(m.q))
                  THEN add_interrupt_event_count(
                          remove_interrupt_event([m EXCEPT !.next_vi = n]), "VI_INT", n)
                  ELSE [m EXCEPT !.v_sync = ~@])

\* VI_V_SYNC_REG
write_vi_v_sync == "VI" \in scene /\ Stored([m EXCEPT !.v_sync = ~@])

\* AI_LEN_REG: the buffer is played, or waits behind the one that is.
write_ai_len(delay) ==
    /\ "AI" \in scene
    /\ Stored(IF m.ai_busy
              THEN [m EXCEPT !.ai_next = delay, !.ai_full = TRUE]
              ELSE [add_interrupt_event(m, "AI_INT", delay)
                        EXCEPT !.ai_delay = delay, !.ai_busy = TRUE])

write_ai_status == "AI" \in scene /\ Acknowledged(lower(m, "AI"))

\* PI_RD_LEN_REG, PI_WR_LEN_REG: dma_pi_read, dma_pi_write
dma_pi ==
    /\ "PI" \in scene /\ Free("PI_INT")
    /\ Stored(add_interrupt_event([m EXCEPT !.pi_busy = TRUE], "PI_INT", PiDelay))

write_pi_status(clear) ==
    "PI" \in scene /\ Acknowledged(IF clear THEN lower(m, "PI") ELSE m)

\* dma_si_write, and dma_si_read when no savestate work is done in it
dma_si ==
    /\ "SI" \in scene /\ Free("SI_INT")
    /\ Stored(add_interrupt_event(m, "SI_INT", SiDelay))

write_si_status ==
    "SI" \in scene /\ Acknowledged([lower(m, "SI") EXCEPT !.si_status = FALSE])

\* SP_STATUS_REG: the game sets or clears the interrupt, or starts a task, of
\* graphics (SP_INT and DP_INT) or of another kind.
write_sp_interrupt(on) ==
    /\ "SP" \in scene
    /\ Acknowledged(IF on THEN raise(m, "SP") ELSE lower(m, "SP"))

write_sp_intr_break(on) == "SP" \in scene /\ Stored([m EXCEPT !.sp_intr_break = on])

start_task(graphics) ==
    LET run == [m EXCEPT !.sp_halt = FALSE, !.sp_broke = FALSE,
                         !.mi_intr_reg = @ \ (IF graphics THEN {"SP", "DP"} ELSE {"SP"})]
        sp == add_interrupt_event(run, "SP_INT", SpDelay)
    IN  /\ "SP" \in scene /\ Free("SP_INT")
        /\ graphics => "DP" \in scene /\ Free("DP_INT")
        /\ Stored(IF graphics THEN add_interrupt_event(sp, "DP_INT", SpDelay) ELSE sp)

\* DPC_END_REG: the list is processed at once.
write_dp_end == "DP" \in scene /\ Acknowledged(raise(m, "DP"))

-----------------------------------------------------------------------------
(* Savestates, which are made and restored inside dma_si_read              *)

\* generate_savestate runs before the SI_INT of the transfer is queued.
save ==
    /\ "Save" \in scene /\ "SI" \in scene /\ Free("SI_INT")
    /\ saved = NoState /\ m.Count \in SaveCounts
    /\ saved' = m
    /\ becomes(add_interrupt_event(m, "SI_INT", SiDelay))
    /\ UNCHANGED scene
    /\ fired' = NoEvent

\* savestates_load_immediate_impl: the queue is rebuilt under the Count of
\* before, then the registers are restored; the transfer the savestate was made
\* in is finished, and dma_si_read does not do it again (g_st_skip_dma).
load ==
    LET queue == load_eventqueue_infos(m, saved.q)
        k == [saved EXCEPT !.q = queue.q, !.SPECIAL_done = queue.SPECIAL_done,
                           !.skip_jump = m.skip_jump]
        skip == get_event(k, "SI_INT") = 0
        f == IF skip THEN add_interrupt_event(k, "SI_INT", SiDelay) ELSE k
    IN  /\ "Save" \in scene /\ saved # NoState /\ Free("SI_INT")
        /\ becomes(IF skip THEN f ELSE add_interrupt_event(f, "SI_INT", SiDelay))
        /\ UNCHANGED <<scene, saved>>
        /\ fired' = Loaded

-----------------------------------------------------------------------------

Next ==
    \/ \E d \in StepCycles : Branch(d)
    \/ J_IDLE
    \/ ERET
    \/ \E ie, exl \in BOOLEAN : MTC0_Status(ie, exl)
    \/ \E c \in Compares : MTC0_Compare(c) \/ MTC0_Count(c)
    \/ \E slot \in BOOLEAN : TLB_refill_exception(slot)
    \/ \E mask \in Masks : write_mi_mask(mask)
    \/ write_mi_mode
    \/ write_vi_current
    \/ write_vi_v_sync
    \/ \E delay \in AiDelays : write_ai_len(delay)
    \/ write_ai_status
    \/ dma_pi
    \/ \E clear \in BOOLEAN : write_pi_status(clear)
    \/ dma_si
    \/ write_si_status
    \/ \E on \in BOOLEAN : write_sp_interrupt(on) \/ write_sp_intr_break(on)
    \/ \E graphics \in BOOLEAN : start_task(graphics)
    \/ write_dp_end
    \/ save
    \/ load

Spec == Init /\ [][Next]_vars

\* The game goes on executing branches, which it always can: time passes.
TimePasses == m'.Count # m.Count

FairSpec == Spec /\ []<><<TimePasses>>_vars

-----------------------------------------------------------------------------
(* Properties                                                              *)

Transfers == EventTypes \ {"CHECK_INT", "SPECIAL_INT", "COMPARE_INT"}

\* An interrupt of the RCP that is pending, unmasked and enabled is never
\* forgotten: a CHECK_INT is queued, in front, until the exception is taken,
\* whichever order of register writes, transfers, masks and returns from
\* exceptions led there (check_interrupt, gen_interrupt).
NoLostInterrupt ==
    Enabled(m) /\ RCP \in m.IM /\ rcp_pending(m) =>
        /\ Queued(m, "CHECK_INT")
        /\ missed \/ Head(m.q).type = "CHECK_INT"

\* There is always exactly one next vertical interrupt, at next_vi, and one
\* SPECIAL_INT that waits for the wrap of Count (gen_interrupt queues both
\* again), also after a savestate was loaded. A game that writes Count moves the
\* event and not next_vi (translate_event_queue).
OneNextVi ==
    /\ Cardinality(places(m, "SPECIAL_INT")) = 1
    /\ Cardinality(places(m, "VI_INT")) = 1
    /\ "Count" \in scene \/ get_event(m, "VI_INT") = m.next_vi

\* Audio and cartridge transfers end: a device is busy exactly while the event
\* that ends its transfer is queued, and a second audio buffer waits only
\* behind a first (write_ai, dma_pi_read, dma_pi_write, gen_interrupt).
BusyUntilEvent ==
    /\ Cardinality(places(m, "AI_INT")) = (IF m.ai_busy THEN 1 ELSE 0)
    /\ m.ai_full => m.ai_busy
    /\ Cardinality(places(m, "PI_INT")) = (IF m.pi_busy THEN 1 ELSE 0)
    /\ Cardinality(places(m, "SI_INT")) <= 1

\* Frames keep coming: the vertical interrupt is raised again and again
\* (gen_interrupt re-queues VI_INT), unless savestates are loaded for ever
\* or Count wrapped at a bad moment.
FramesKeepComing == []<>(fired = "VI_INT") \/ []<>(fired = Loaded) \/ <>missed

-----------------------------------------------------------------------------
(* The devices implement a calendar: what is pending is the queue without  *)
(* the entries that are no transfers or frames.                            *)

pending(k) ==
    {[what |-> e.type, due |-> e.count] : e \in {x \in ToSet(k.q) : x.type \in Transfers}}

Calendar == INSTANCE EventCalendar WITH
    now <- m.Count,
    agenda <- pending(m),
    kept <- IF saved = NoState THEN NoState ELSE [now |-> saved.Count, agenda |-> pending(saved)],
    void <- missed,
    NotKept <- NoState

\* Every step of the devices is a step of the calendar, which an event leaves
\* only when its time has come and the earliest first.
CalendarSpec == Calendar!Spec
=============================================================================
