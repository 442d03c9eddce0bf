----------------------------- MODULE EagerClock -------------------------------
(***************************************************************************)
(* What the clock of one machine promises: the devices are ticked with     *)
(* every instruction, and the processor sees them as they are now.  What   *)
(* devices there are and what time does to them is a parameter.            *)
(***************************************************************************)
EXTENDS Integers

CONSTANTS
    Ticked(_, _),   \* the devices some cycles later
    Horizon(_),     \* cycles until their next event, Line at the most
    Stored(_),      \* what a store of the guest can make of them
    Sight(_),       \* what a load of the guest shows of them
    IrqPending(_),  \* do they ask for an interrupt that is enabled
    PowerOn, Nothing, Line,
    Costs,          \* cycles of an instruction, or of an idle loop
    WakeDelay       \* kIrqWakeDelayCycles

VARIABLES
    dev,        \* the devices
    masked,     \* the processor's interrupt mask, CPSR bit 7
    seen        \* what the last step read, if it was a read

eagerVars == <<dev, masked, seen>>

(* Cycles a DMA has stolen pass for all devices. *)
Charged(d) == Ticked([d EXCEPT !.steal = 0], d.steal)

(* After an instruction: a pending interrupt is taken, out of a halt late. *)
Settles(d) ==
    IF IrqPending(d) /\ ~masked
    THEN /\ dev' = IF d.halted THEN Ticked([d EXCEPT !.halted = FALSE], WakeDelay) ELSE d
         /\ masked' = TRUE
    ELSE dev' = d /\ UNCHANGED masked

Passes(d, cycles) == Settles(Charged(Ticked(d, cycles))) /\ seen' = Nothing

Init == dev = PowerOn /\ masked = TRUE /\ seen = Nothing

Instruction(cycles) == ~dev.halted /\ Passes(dev, cycles)

Read == ~dev.halted /\ seen' = Sight(dev) /\ UNCHANGED <<dev, masked>>

Write ==
    /\ ~dev.halted
    /\ \E d \in Stored(dev) : dev' = Charged(d)
    /\ UNCHANGED masked /\ seen' = Nothing

Unmask == ~dev.halted /\ masked /\ masked' = FALSE /\ seen' = Nothing /\ UNCHANGED dev

(* The instruction that stores to HALTCNT, its own cycles included. *)
Halt(cycles) == ~dev.halted /\ Passes(Charged([dev EXCEPT !.halted = TRUE]), cycles)

(* Some iterations of a loop that nothing disturbs: no event in them. *)
Loop(period) ==
    /\ ~dev.halted
    /\ \E n \in 1 .. Line : n * period < Horizon(dev) /\ dev' = Ticked(dev, n * period)
    /\ UNCHANGED masked /\ seen' = Nothing

(* A halted machine, advanced by any chunk no longer than a line. *)
Idle == dev.halted /\ \E cycles \in 1 .. Line : Passes(dev, cycles)

Works ==
    \/ Read \/ Write \/ Unmask
    \/ \E c \in Costs : Instruction(c) \/ Halt(c) \/ Loop(c)

EagerSpec == Init /\ [][Works \/ Idle]_eagerVars
=============================================================================
