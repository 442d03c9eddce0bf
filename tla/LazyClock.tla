------------------------------ MODULE LazyClock -------------------------------
(***************************************************************************)
(* The clock of one machine in src/runtime/runtime_bus_bridge.cpp: cycles  *)
(* are counted with every instruction, and the devices ticked only when    *)
(* their next event is due or the guest accesses a device register.        *)
(***************************************************************************)
EXTENDS Devices

CONSTANTS
    Costs,      \* cycles of an instruction, or of an idle loop
    WakeDelay   \* kIrqWakeDelayCycles

ASSUME CostsAssumption == Costs \subseteq Nat \ {0} /\ WakeDelay \in Nat

VARIABLES
    dev,        \* the devices, as of the last time they were ticked
    masked,     \* the processor's interrupt mask, CPSR bit 7
    seen,       \* what the last step read, if it was a read
    pending,    \* g_pending_cycles: cycles the devices are behind
    budget      \* g_event_budget: cycles until the next event

vars == <<dev, masked, seen, pending, budget>>

Init ==
    /\ dev = PowerOn /\ masked = TRUE /\ seen = Nothing
    /\ pending = 0 /\ budget = 0

-----------------------------------------------------------------------------
(* A clock is the devices with the two counters, as the runtime's functions  *)
(* pass them on.                                                             *)

Clock == [dev |-> dev, pending |-> pending, budget |-> budget]
Flushed(k) == [k EXCEPT !.dev = Ticked(k.dev, k.pending), !.pending = 0]
Rescheduled(k) == [k EXCEPT !.budget = Horizon(k.dev)]

(* drain_dma_steal() *)
Drained(k) ==
    IF k.dev.steal = 0 THEN k
    ELSE LET now == Flushed([k EXCEPT !.dev.steal = 0])
         IN  Rescheduled([now EXCEPT !.dev = Ticked(now.dev, k.dev.steal)])

Advanced(k, cycles) ==
    LET later == [k EXCEPT !.pending = @ + cycles, !.budget = @ - cycles]
    IN  IF later.budget <= 0 THEN Rescheduled(Flushed(later)) ELSE later

(* The wake from a halt lets kIrqWakeDelayCycles pass for the devices. *)
Woken(k) ==
    LET now == Flushed([k EXCEPT !.dev.halted = FALSE])
    IN  Rescheduled([now EXCEPT !.dev = Ticked(now.dev, WakeDelay)])

Becomes(k) == dev' = k.dev /\ pending' = k.pending /\ budget' = k.budget

(* runtime_tick(cycles) *)
Tick(start, cycles) ==
    LET k == Drained(Advanced(start, cycles))
    IN  /\ IF IrqPending(k.dev) /\ ~masked
           THEN Becomes(IF k.dev.halted THEN Woken(k) ELSE k) /\ masked' = TRUE
           ELSE Becomes(k) /\ UNCHANGED masked
        /\ seen' = Nothing

-----------------------------------------------------------------------------
(* The guest. *)

Instruction(cycles) == ~dev.halted /\ Tick(Clock, cycles)

(* Mutant: a read does not catch up. *)
Read_Stale ==
    /\ ~dev.halted
    /\ Becomes(Clock)
    /\ seen' = Sight(dev)
    /\ UNCHANGED masked

(* A load from a device register: runtime_mmio_catch_up() and the value. *)
Read ==
    /\ ~dev.halted
    /\ Becomes(Flushed(Clock))
    /\ seen' = Sight(dev')
    /\ UNCHANGED masked

(* A store: runtime_mmio_catch_up(), the store, runtime_resync_horizon(). *)
Write ==
    /\ ~dev.halted
    /\ LET now == Flushed(Clock)
       IN  \E d \in Stored(now.dev) : Becomes(Rescheduled(Drained([now EXCEPT !.dev = d])))
    /\ UNCHANGED masked /\ seen' = Nothing

(* The guest enables interrupts in CPSR; one that is pending waits for the
   next tick. *)
Unmask ==
    /\ ~dev.halted /\ masked
    /\ masked' = FALSE /\ seen' = Nothing
    /\ UNCHANGED <<dev, pending, budget>>

(* A store to HALTCNT, then the cycles of the instruction. *)
Halt(cycles) ==
    /\ ~dev.halted
    /\ LET now == Flushed(Clock)
       IN  Tick(Rescheduled(Drained([now EXCEPT !.dev.halted = TRUE])), cycles)

(* Mutant: the last period may end on the event. *)
Periods_Up(period) == budget \div period

Periods(period) == (budget - 1) \div period

(* runtime_idle_backedge() of a loop that is proved idle. *)
Elide(period) ==
    /\ ~dev.halted /\ budget > period
    /\ LET skipped == Periods(period) * period
       IN  Becomes([Clock EXCEPT !.pending = @ + skipped, !.budget = @ - skipped])
    /\ UNCHANGED masked /\ seen' = Nothing

(* pump_idle(): the chunk is taken from the devices as they were left. *)
Idle == dev.halted /\ Tick(Clock, IdleChunk(dev))

Next ==
    \/ Read \/ Write \/ Unmask \/ Idle
    \/ \E c \in Costs : Instruction(c) \/ Halt(c) \/ Elide(c)

Spec == Init /\ [][Next]_vars

-----------------------------------------------------------------------------
(* Properties. *)

(* "Fires NO events: between flushes g_pending_cycles < g_event_budget"
   (runtime_bus_bridge.cpp:756): a catch-up never reaches the next event, and
   the budget promises no more time than is left until then. *)
CatchUpFiresNothing ==
    /\ pending < Horizon(dev)
    /\ budget <= Horizon(dev) - pending

(* "materializing a batched delta is bit-identical to per-instruction
   ticking" (runtime_bus_bridge.cpp:713): devices, interrupts taken and values
   read are those of a machine that ticks its devices with every instruction
   and every idle chunk. *)
Now == Ticked(dev, pending)
Eager == INSTANCE EagerClock WITH dev <- Now
IsEager == Eager!EagerSpec

(* "Pump the devices for the latency window ... then vector, matching the
   oracle exactly" (runtime_bus_bridge.cpp:852-855): a halted machine wakes at
   the end of the cycle in which its interrupt became pending, as
   tools/bios_smoke does, and not in the middle of an idle chunk. *)
WakesPromptly ==
    [][dev.halted /\ ~dev'.halted =>
          ~IrqPending(Ticked(dev, pending + IdleChunk(dev) - 1))]_vars
=============================================================================
