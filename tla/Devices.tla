------------------------------- MODULE Devices --------------------------------
(***************************************************************************)
(* The clocked devices of one machine, as tick_devices of                  *)
(* src/runtime/runtime_bus_bridge.cpp advances them: timers, the picture's *)
(* lines, the serial port without a partner, and a DMA channel that steals *)
(* cycles.  Sound, the other DMA channels and what a line shows are left   *)
(* out; the sound FIFOs ask for DMA at a timer's overflow only.            *)
(*                                                                         *)
(* Everything here is a function of a value d of all the devices.          *)
(***************************************************************************)
EXTENDS Integers, FiniteSetsExt

CONSTANTS
    Prescale,       \* kPrescale: cycles of a timer's tick, by its select bits
    Overflow,       \* 0x10000
    Visible, Line,  \* cycles of a line before its HBlank, and in all
    VisibleLines, Lines,
    SioCycles,      \* duration of a serial transfer
    DmaCost,        \* dma_transfer_cost of the channel's transfer
    Controls,       \* what the guest stores to the timers' control: Control records
    Reloads, Stats, Serials, Dmas   \* and to the other registers

Timers == {0, 1}
Irqs == {"vblank", "hblank", "vcount", "timer0", "timer1", "serial", "dma"}
Control == [on : BOOLEAN, cascade : BOOLEAN, select : DOMAIN Prescale, irq : BOOLEAN]
Stat == [irqs : SUBSET {"vblank", "hblank", "vcount"}, compare : 0 .. Lines - 1]
Serial == [busy : BOOLEAN, internal : BOOLEAN, irq : BOOLEAN]
Dma == [on : BOOLEAN, start : {"now", "vblank", "hblank"}, repeat : BOOLEAN, irq : BOOLEAN]

ASSUME DevicesAssumption ==
    /\ 0 \in DOMAIN Prescale /\ Prescale \in [DOMAIN Prescale -> Nat \ {0}]
    /\ Overflow \in Nat \ {0} /\ Reloads \subseteq 0 .. Overflow - 1
    /\ Line \in Nat /\ Visible \in 1 .. Line - 1
    /\ Lines \in Nat /\ VisibleLines \in 1 .. Lines - 1
    /\ SioCycles \in Nat \ {0} /\ DmaCost \in Nat \ {0}
    /\ Controls \subseteq Control /\ Stats \subseteq Stat
    /\ Serials \subseteq Serial /\ Dmas \subseteq Dma

(* The devices: registers, and where each of them is in its period. *)
Device ==
    [control : [Timers -> Control], reload : [Timers -> 0 .. Overflow - 1],
     counter : [Timers -> 0 .. Overflow - 1], accum : [Timers -> Nat],
     dot : 0 .. Line - 1, line : 0 .. Lines - 1, stat : Stat,
     serial : Serial, left : 0 .. SioCycles, dma : Dma, steal : Nat,
     ie : SUBSET Irqs, if : SUBSET Irqs, halted : BOOLEAN]

(* At reset every register is 0. *)
Off == [on |-> FALSE, cascade |-> FALSE, select |-> 0, irq |-> FALSE]
PowerOn ==
    [control |-> [t \in Timers |-> Off], reload |-> [t \in Timers |-> 0],
     counter |-> [t \in Timers |-> 0], accum |-> [t \in Timers |-> 0],
     dot |-> 0, line |-> 0, stat |-> [irqs |-> {}, compare |-> 0],
     serial |-> [busy |-> FALSE, internal |-> FALSE, irq |-> FALSE], left |-> 0,
     dma |-> [on |-> FALSE, start |-> "now", repeat |-> FALSE, irq |-> FALSE],
     steal |-> 0, ie |-> {}, if |-> {}, halted |-> FALSE]

-----------------------------------------------------------------------------
(* Cycles until the next event of each device. *)

Cascades(d, t) == t > 0 /\ d.control[t].cascade
Clocked(d) == {t \in Timers : d.control[t].on /\ ~Cascades(d, t)}

UntilOverflow(d, t) ==
    Max({1, (Overflow - d.counter[t]) * Prescale[d.control[t].select] - d.accum[t]})

UntilTimer(d) == {UntilOverflow(d, t) : t \in Clocked(d)}
UntilSerial(d) == IF d.left > 0 THEN {d.left} ELSE {}
UntilPicture(d) == {IF d.dot < Visible THEN Visible - d.dot ELSE Line - d.dot}

Horizon(d) == Min(UntilPicture(d) \cup UntilTimer(d) \cup UntilSerial(d))

(* The idle pump of src/runtime/runtime.cpp does not ask the serial port. *)
IdleChunk(d) == Min(UntilPicture(d) \cup UntilTimer(d))

-----------------------------------------------------------------------------
(* A chunk of c <= Horizon(d) cycles, device by device. *)

Raise(d, irq, wanted) == IF wanted THEN [d EXCEPT !.if = @ \cup {irq}] ELSE d

(* A timer that is ticked n times overflows this often and ends here. *)
Past(d, t, n) == n - (Overflow - d.counter[t])
Period(d, t) == Overflow - d.reload[t]
Overflows(d, t, n) == IF Past(d, t, n) < 0 THEN 0 ELSE 1 + Past(d, t, n) \div Period(d, t)
Counted(d, t, n) == IF Past(d, t, n) < 0 THEN d.counter[t] + n
                    ELSE d.reload[t] + (Past(d, t, n) % Period(d, t))

TimerTicks(d, t, c) ==
    IF t \in Clocked(d) THEN (d.accum[t] + c) \div Prescale[d.control[t].select] ELSE 0

TickTimer(d, t, c, n) ==
    Raise([d EXCEPT !.counter[t] = Counted(d, t, n),
                    !.accum[t] = IF t \in Clocked(d)
                                 THEN (@ + c) % Prescale[d.control[t].select] ELSE @],
          IF t = 0 THEN "timer0" ELSE "timer1",
          d.control[t].irq /\ Overflows(d, t, n) > 0)

(* tick_timers(): timer 1 may count the overflows of timer 0. *)
TickTimers(d, c) ==
    LET first == TimerTicks(d, 0, c)
        second == IF d.control[1].on /\ Cascades(d, 1) THEN Overflows(d, 0, first)
                  ELSE TimerTicks(d, 1, c)
    IN  TickTimer(TickTimer(d, 0, c, first), 1, c, second)

(* tick_sio() *)
TickSerial(d, c) ==
    IF d.left = 0 THEN d
    ELSE IF c < d.left THEN [d EXCEPT !.left = @ - c]
    ELSE Raise([d EXCEPT !.left = 0, !.serial.busy = FALSE], "serial", d.serial.irq)

(* A transfer of the channel; its last one unless it repeats. *)
RunDma(d) ==
    Raise([d EXCEPT !.steal = @ + DmaCost, !.dma.on = d.dma.repeat], "dma", d.dma.irq)
RunTimedDma(d, start) == IF d.dma.on /\ d.dma.start = start THEN RunDma(d) ELSE d

(* GbaPpu::tick and what tick_devices does with its events. *)
TickPicture(d, c) ==
    LET dot == (d.dot + c) % Line
        line == IF d.dot + c = Line THEN (d.line + 1) % Lines ELSE d.line
        moved == [d EXCEPT !.dot = dot, !.line = line]
        hblank == dot = Visible
        vblank == line = VisibleLines /\ dot = 0
        served == IF hblank /\ line < VisibleLines THEN RunTimedDma(moved, "hblank")
                  ELSE IF vblank THEN RunTimedDma(moved, "vblank") ELSE moved
        asked == {i \in d.stat.irqs : \/ i = "vblank" /\ vblank
                                      \/ i = "hblank" /\ hblank
                                      \/ i = "vcount" /\ dot = 0 /\ line = d.stat.compare}
    IN  [served EXCEPT !.if = @ \cup asked]

Chunk(d, c) == TickPicture(TickSerial(TickTimers(d, c), c), c)

(* tick_devices(n): chunk by chunk, none of them beyond the next event. *)
After[n \in Nat] ==
    [d \in Device |->
        IF n = 0 THEN d
        ELSE LET c == Min({n, Horizon(d)}) IN After[n - c][Chunk(d, c)]]
Ticked(d, n) == After[n][d]

(* What a read shows: the counter of a timer, the line, the display status. *)
Sight(d) == <<d.counter[0], d.line, d.dot >= Visible>>

Nothing == <<>>

IrqPending(d) == d.ie \cap d.if # {}

-----------------------------------------------------------------------------
(* What one store of the guest to a device register makes of d; every other  *)
(* register keeps no time.                                                   *)

StoreReload(d) == {[d EXCEPT !.reload[t] = v] : t \in Timers, v \in Reloads}

(* A timer starts from its reload value. *)
StoreControl(d) ==
    {LET set == [d EXCEPT !.control[t] = v]
     IN  IF v.on /\ ~d.control[t].on
         THEN [set EXCEPT !.counter[t] = d.reload[t], !.accum[t] = 0] ELSE set
        : t \in Timers, v \in Controls}

StoreStat(d) == {[d EXCEPT !.stat = v] : v \in Stats}

(* A transfer in flight is neither stopped nor started anew. *)
StoreSerial(d) ==
    {LET starts == v.busy /\ ~d.serial.busy /\ v.internal /\ d.left = 0
     IN  [d EXCEPT !.serial = v, !.left = IF starts THEN SioCycles ELSE @]
        : v \in Serials}

StoreDma(d) ==
    {LET set == [d EXCEPT !.dma = v]
     IN  IF v.on /\ ~d.dma.on /\ v.start = "now" THEN RunDma(set) ELSE set : v \in Dmas}

StoreEnable(d) == {[d EXCEPT !.ie = v] : v \in {{}, Irqs}}
Acknowledge(d) == {[d EXCEPT !.if = @ \ {i}] : i \in d.if}

Stored(d) ==
    StoreReload(d) \cup StoreControl(d) \cup StoreStat(d) \cup StoreSerial(d)
    \cup StoreDma(d) \cup StoreEnable(d) \cup Acknowledge(d)
=============================================================================
