---------------------------- MODULE CableSession -----------------------------
(***************************************************************************)
(* The owner of the cable: run_until of                                    *)
(* src/runtime/multiplayer_session.cpp, the scheduler that interleaves     *)
(* whole consoles on one timeline.  A pass lets every CPU that is not      *)
(* ahead execute, picks the next instant at which something happens, ticks *)
(* the devices of every machine up to it, and moves the session clock.     *)
(* Machine i is cable port i.                                              *)
(*                                                                         *)
(* A program is any sequence of instructions: each takes some cycles and   *)
(* may write a serial register or halt.  The display of a machine has an   *)
(* event every EventPeriod cycles: it may raise an interrupt and start a   *)
(* timed DMA, which writes serial registers while devices are being        *)
(* ticked.                                                                 *)
(***************************************************************************)
EXTENDS LinkHub

CONSTANTS
    Slices,         \* native_slices_: batch instructions that touch no device
    Lookahead,      \* 63 cycles, the longest batch
    WakeLatency,    \* 4 cycles from an interrupt to the halted CPU running
    Costs,          \* cycles of one instruction; 0 is an interrupt entry
    EventPeriod,    \* cycles between two display events
    FrameCycles,    \* cycles of one run_frame
    ZeroPassLimit,  \* 1024 passes without progress are an error
    Enabled,        \* IE: interrupts that wake each machine
    Registers,      \* register traffic of the programs: see Write
    MaxCycle        \* bound on the session clock

Irqs == {"serial", "display"}

ASSUME LookaheadAssumption ==
    /\ Lookahead \in Nat \ {0}
    /\ \A high, low \in BOOLEAN : Lookahead < MultiCycles[high][low]
    /\ \A width \in Widths, fast \in BOOLEAN : Lookahead < NormalCycles[width][fast]
ASSUME TimingAssumption ==
    /\ Slices \in BOOLEAN
    /\ WakeLatency \in Nat \ {0} /\ EventPeriod \in Nat \ {0}
    /\ FrameCycles \in Nat \ {0} /\ ZeroPassLimit \in Nat /\ MaxCycle \in Nat
    /\ Costs \in SUBSET Nat
    /\ Enabled \in [Ports -> SUBSET Irqs]
ASSUME RegistersAssumption ==
    /\ Registers.values \subseteq Control \X Halves
    /\ Registers.modes \subseteq RcntModes
    /\ Registers.words \subseteq Word

VARIABLES
    clock,      \* cycle_: every device has been ticked up to here
    target,     \* argument of run_until
    phase,      \* where run_until is: "idle" between two calls
    turn,       \* machine the loop of the phase is at
    delta,      \* cycles the devices are being ticked by
    zeroPasses, \* zero_cycle_passes
    timing,     \* timing.cycles: where each CPU is
    halted,     \* machines in HALT
    displayIf,  \* machines whose display interrupt is pending
    began,      \* when the last instruction of each CPU began (history)
    broken      \* scheduler throws, besides those of the hub

cpuVars == <<timing, halted, displayIf, began>>
loopVars == <<clock, target, phase, turn, delta, zeroPasses, broken>>
vars == <<hubVars, cpuVars, loopVars>>

SessionTypeOK ==
    /\ TypeOK
    /\ clock \in Nat /\ target \in Nat /\ delta \in Nat /\ zeroPasses \in Nat
    /\ phase \in {"idle", "cpu", "devices", "display"}
    /\ turn \in 0 .. PortCount
    /\ timing \in [Ports -> Nat] /\ began \in [Ports -> Nat]
    /\ halted \subseteq Ports /\ displayIf \subseteq Ports
    /\ broken \in {"none", "stalled", "debt"}

SessionInit ==
    /\ Init
    /\ clock = 0 /\ target = 0 /\ phase = "idle" /\ turn = 0
    /\ delta = 0 /\ zeroPasses = 0 /\ broken = "none"
    /\ timing = [p \in Ports |-> 0] /\ began = [p \in Ports |-> 0]
    /\ halted = {} /\ displayIf = {}

Running == fault = "none" /\ broken = "none"

-----------------------------------------------------------------------------
(* run_frame: the next call of run_until. *)
RunFrame ==
    /\ Running /\ phase = "idle" /\ clock + FrameCycles <= MaxCycle
    /\ target' = clock + FrameCycles
    /\ phase' = "cpu" /\ turn' = 0 /\ zeroPasses' = 0
    /\ UNCHANGED <<hubVars, cpuVars, clock, delta, broken>>

-----------------------------------------------------------------------------
(* The CPU pass, in manifest order. *)

Awaited(i) == \/ "serial" \in Enabled[i] /\ i \in serialIf
              \/ "display" \in Enabled[i] /\ i \in displayIf

UntilDisplay(t) == EventPeriod - (t % EventPeriod)
UntilSerial(i) == link.finish - cycle[i]

(* Mutant: the cable's completion is left out. *)
DeviceEvents_NoCable == {clock + UntilDisplay(clock)}

(* The next instant of a device of any machine. *)
DeviceEvents == {clock + UntilDisplay(clock)}
                  \cup {clock + UntilSerial(i) : i \in IF Active THEN Ports ELSE {}}

(* Mutant: a batch runs past a device event it knows of. *)
BeforeDeadline_NoEvents(t) == t < clock + Lookahead /\ t < target

(* A batch begins no instruction at or after its deadline. *)
BeforeDeadline(t) ==
    /\ t < clock + Lookahead /\ t < target
    /\ \A event \in DeviceEvents : t < event

CpuTurn(i) == Running /\ phase = "cpu" /\ turn = i /\ i \in Ports

NextTurn == turn' = turn + 1
            /\ UNCHANGED <<clock, target, phase, delta, zeroPasses, broken>>

(* Mutant: a halted CPU is skipped whatever interrupt is pending. *)
Skip_Oversleeps(i) ==
    /\ CpuTurn(i)
    /\ timing[i] > clock \/ i \in halted
    /\ NextTurn
    /\ UNCHANGED <<hubVars, cpuVars>>

Skip(i) ==
    /\ CpuTurn(i)
    /\ timing[i] > clock \/ (i \in halted /\ ~Awaited(i))
    /\ NextTurn
    /\ UNCHANGED <<hubVars, cpuVars>>

Wake(i) ==
    /\ CpuTurn(i)
    /\ timing[i] <= clock /\ i \in halted /\ Awaited(i)
    /\ halted' = halted \ {i}
    /\ timing' = [timing EXCEPT ![i] = clock + WakeLatency]
    /\ NextTurn
    /\ UNCHANGED <<hubVars, displayIf, began>>

Ready(i) == CpuTurn(i) /\ timing[i] <= clock /\ i \notin halted

Takes(i, start, cost) ==
    /\ timing' = [timing EXCEPT ![i] = start + cost]
    /\ began' = [began EXCEPT ![i] = start]

(* Instructions that touch no device: one, or a batch whose last instruction
   begins before the deadline. *)
Compute(i) ==
    /\ Ready(i)
    /\ \E cost \in Costs, start \in clock .. target :
          /\ start = clock \/ (Slices /\ BeforeDeadline(start))
          /\ Takes(i, start, cost)
    /\ NextTurn
    /\ UNCHANGED <<hubVars, halted, displayIf>>

(* A device access is always the first instruction of its dispatch, so it
   takes place at the session clock. *)
WriteSerial(i) ==
    /\ Ready(i)
    /\ Write(i, Registers.values, Registers.modes, Registers.words)
    /\ \E cost \in Costs \ {0} : Takes(i, clock, cost)
    /\ NextTurn
    /\ UNCHANGED <<halted, displayIf>>

Halt(i) ==
    /\ Ready(i)
    /\ halted' = halted \cup {i}
    /\ \E cost \in Costs \ {0} : Takes(i, clock, cost)
    /\ NextTurn
    /\ UNCHANGED <<hubVars, displayIf>>

AcknowledgeDisplay(i) ==
    /\ Ready(i) /\ i \in displayIf
    /\ displayIf' = displayIf \ {i}
    /\ \E cost \in Costs \ {0} : Takes(i, clock, cost)
    /\ NextTurn
    /\ UNCHANGED <<hubVars, halted>>

-----------------------------------------------------------------------------
(* Choosing the next instant. *)

(* Mutant: the instants at which the CPUs stand are left out. *)
Instants_NoCpu == {target} \cup DeviceEvents

Instants == {target} \cup DeviceEvents \cup {timing[i] : i \in Ports \ halted}

(* Mutant: passes without progress are not counted. *)
Schedule_NeverStalls ==
    /\ Running /\ phase = "cpu" /\ turn = PortCount
    /\ turn' = 0
    /\ \E next \in Instants :
          /\ \A instant \in Instants : next <= instant
          /\ \/ next = clock /\ UNCHANGED <<phase, delta>>
             \/ next > clock /\ delta' = next - clock /\ phase' = "devices"
    /\ UNCHANGED <<hubVars, cpuVars, clock, target, zeroPasses, broken>>

Schedule ==
    /\ Running /\ phase = "cpu" /\ turn = PortCount
    /\ turn' = 0
    /\ \E next \in Instants :
          /\ \A instant \in Instants : next <= instant
          /\ \/ /\ next = clock
                /\ zeroPasses' = zeroPasses + 1
                /\ broken' = IF zeroPasses' > ZeroPassLimit THEN "stalled" ELSE broken
                /\ UNCHANGED <<phase, delta>>
             \/ /\ next < clock
                /\ zeroPasses' = 0 /\ broken' = "debt"
                /\ UNCHANGED <<phase, delta>>
             \/ /\ next > clock
                /\ zeroPasses' = 0 /\ delta' = next - clock /\ phase' = "devices"
                /\ UNCHANGED broken
    /\ UNCHANGED <<hubVars, cpuVars, clock, target>>

-----------------------------------------------------------------------------
(* The device pass, in manifest order: tick_devices ticks the serial endpoint
   of a machine before its display. *)

(* Mutant: the devices of a halted machine are not ticked. *)
TickDevices_SkipsHalted(i) ==
    /\ Running /\ phase = "devices" /\ turn = i /\ i \in Ports
    /\ IF i \in halted THEN UNCHANGED hubVars ELSE Tick(i, delta)
    /\ turn' = turn + 1
    /\ UNCHANGED <<cpuVars, clock, target, phase, delta, zeroPasses, broken>>

TickDevices(i) ==
    /\ Running /\ phase = "devices" /\ turn = i /\ i \in Ports
    /\ Tick(i, delta)
    /\ IF (clock + delta) % EventPeriod = 0
       THEN phase' = "display" /\ UNCHANGED turn
       ELSE turn' = turn + 1 /\ UNCHANGED phase
    /\ UNCHANGED <<cpuVars, clock, target, delta, zeroPasses, broken>>

(* The display event of machine i: run_timed_dma, then the interrupt.  A DMA
   that writes a serial register also steals cycles from the CPU. *)
DisplayEvent(i) ==
    /\ Running /\ phase = "display" /\ turn = i /\ i \in Ports
    /\ phase' = "devices" /\ turn' = turn + 1
    /\ \/ UNCHANGED <<hubVars, timing, displayIf>>
       \/ displayIf' = displayIf \cup {i} /\ UNCHANGED <<hubVars, timing>>
       \/ /\ Write(i, Registers.values, Registers.modes, Registers.words)
          /\ \E stolen \in Costs \ {0} : timing' = [timing EXCEPT ![i] = @ + stolen]
          /\ UNCHANGED displayIf
    /\ UNCHANGED <<halted, began, clock, target, delta, zeroPasses, broken>>

EndPass ==
    /\ Running /\ phase = "devices" /\ turn = PortCount
    /\ clock' = clock + delta /\ turn' = 0 /\ delta' = 0
    /\ phase' = IF clock' < target THEN "cpu" ELSE "idle"
    /\ UNCHANGED <<hubVars, cpuVars, target, zeroPasses, broken>>

-----------------------------------------------------------------------------
Pass ==
    \/ Schedule
    \/ EndPass
    \/ \E i \in Ports :
          \/ Skip(i) \/ Wake(i)
          \/ Compute(i) \/ WriteSerial(i) \/ Halt(i) \/ AcknowledgeDisplay(i)
          \/ TickDevices(i) \/ DisplayEvent(i)

SessionNext == RunFrame \/ Pass

(* run_until loops until it is done or throws, and the host goes on calling
   run_frame: every step that is possible is eventually taken. *)
SessionSpec == SessionInit /\ [][SessionNext]_vars
FairSession == SessionSpec /\ WF_vars(SessionNext)

-----------------------------------------------------------------------------
(* Properties. *)

(* The scheduler keeps its contract with the hub (gba_link_hub.h:14): it stops
   at every endpoint's next event, so no port ticks across a completion, and
   no CPU is left behind the session clock.  The throws at
   gba_link_hub.cpp:178 and multiplayer_session.cpp:236 are unreachable. *)
NeverCrosses == fault # "crossed" /\ broken # "debt"

(* A start written by a CPU finds every machine at the same instant, so it
   never throws.  Only a timed DMA, which runs while devices are being ticked
   one machine after the other, meets the rendezvous check. *)
CpuStartsAtRendezvous == fault = "rendezvous" => phase = "devices"

(* "Bounded lookahead is less than the shortest supported cable transfer, so a
   peer cannot create a previously unknown completion IRQ behind a machine's
   execution" (docs/MULTIPLAYER.md:404): no CPU has begun an instruction at or
   after the instant at which the transfer in flight will complete. *)
NoInterruptBehind == Active => \A i \in Ports : began[i] < link.finish

(* Between two frames, where the netplay host takes its snapshots, the state
   passes every check of GbaMultiplayerSession::load_state (cpp:328, 335) and
   of the hub's: whatever is saved can be restored. *)
BoundaryLoads ==
    phase = "idle" /\ Running =>
        /\ \A i \in Ports : cycle[i] = clock
        /\ \A i \in Ports : i \in halted \/ clock <= timing[i]
        /\ LoadAccepts

(* A transfer that can finish inside the bound is completed or dropped. *)
TransferEnds ==
    (Active /\ link.finish <= MaxCycle) ~> (~Active \/ ~Running)

(* A halted machine with an enabled interrupt pending gets its CPU back, soon
   after the clock has reached where its CPU stands; a DMA may push that back,
   but by less than the time between two of them. *)
Settles(i) == clock + delta + 2 * EventPeriod < MaxCycle
              /\ timing[i] + 2 * EventPeriod < MaxCycle

HaltedWakes ==
    \A i \in Ports :
        (i \in halted /\ Awaited(i) /\ Settles(i))
            ~> (i \notin halted \/ ~Awaited(i) \/ ~Running)
=============================================================================
