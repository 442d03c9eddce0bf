------------------------------- MODULE LinkHub -------------------------------
(***************************************************************************)
(* The serial cable of src/gba/gba_link_hub.cpp: up to four ports share    *)
(* one transfer.  A port has its own clock, its SIOCNT and RCNT mode bits, *)
(* a send word and receive words; the hub has the transfer in flight.      *)
(*                                                                         *)
(* The owner of the hub drives it: it writes registers for a port, ticks a *)
(* port's clock, plugs and unplugs machines.  Spec lets the owner do these *)
(* in any order; CableSession is the owner the program really has.         *)
(*                                                                         *)
(* A C++ throw is the value of "fault": it ends the behaviour, as it ends  *)
(* run_until and the netplay match above it.                               *)
(***************************************************************************)
EXTENDS Integers

CONSTANTS
    PortCount,      \* count_: machines on this cable
    Byte, Ones,     \* values of a byte, and 0xff among them
    MultiCycles,    \* kTransferCycles for this port count, by bit 1, then bit 0 of SIOCNT
    NormalCycles    \* duration of a normal transfer, by width, then clock

Ports == 0 .. PortCount - 1
Widths == {"n8", "n32"}

ASSUME PortCountAssumption == PortCount \in 2..4
ASSUME ByteAssumption == Ones \in Byte
ASSUME MultiCyclesAssumption ==
    MultiCycles \in [BOOLEAN -> [BOOLEAN -> Nat \ {0}]]
ASSUME NormalCyclesAssumption ==
    NormalCycles \in [Widths -> [BOOLEAN -> Nat \ {0}]]

(***************************************************************************)
(* A 16-bit word is two bytes.  SIOCNT keeps the bits the hub looks at:    *)
(* the mode (bits 12, 13), BUSY, IRQ enable, bit 0 (internal clock, or low *)
(* baud bit) and bit 1 (fast clock, or high baud bit).  RCNT keeps bits 14 *)
(* and 15; without bit 15 the port is serial whatever bit 14 is.           *)
(***************************************************************************)
Word == [hi: Byte, lo: Byte]
AllOnes == [hi |-> Ones, lo |-> Ones]
Modes == Widths \cup {"multi", "uart"}
Control == [mode: Modes, busy: BOOLEAN, irq: BOOLEAN,
            internal: BOOLEAN, fast: BOOLEAN]
RcntModes == {"serial", "serial1", "gpio", "joybus"}
Serial(mode) == mode \in {"serial", "serial1"}
Kinds == Widths \cup {"none", "multi"}
Faults == {"none", "rendezvous", "uart", "conflict", "crossed"}

VARIABLES
    cycle,      \* Port::cycle
    control,    \* Port::control
    rcnt,       \* Port::rcnt
    send,       \* Port::send
    receive,    \* Port::receive; slots past PortCount always read 0xffff
    connected,  \* ports whose endpoint has a machine
    link,       \* the transfer in flight
    serialIf,   \* ports whose machine has IF bit 7 set
    fault       \* the exception thrown, "none" while there is none

portVars == <<control, rcnt, send, receive>>
hubVars == <<cycle, control, rcnt, send, receive, connected, link, serialIf, fault>>

(* active_ is kind # "none"; normal_bits_ is 8 or 32 for the normal kinds and
   0 for "multi".  The code assigns the two together.  data is transfer_ or
   normal_data_: a 32-bit datum is two words, the others use the first. *)
Transfer == [kind: Kinds, start: Nat, finish: Nat, mask: SUBSET Ports,
             data: [Ports -> Word \X Word]]
NoTransfer == [kind |-> "none", start |-> 0, finish |-> 0, mask |-> {},
               data |-> [p \in Ports |-> <<AllOnes, AllOnes>>]]

TypeOK ==
    /\ cycle \in [Ports -> Nat]
    /\ control \in [Ports -> Control]
    /\ rcnt \in [Ports -> RcntModes]
    /\ send \in [Ports -> Word]
    /\ receive \in [Ports -> [Ports -> Word]]
    /\ connected \subseteq Ports
    /\ link \in Transfer
    /\ serialIf \subseteq Ports
    /\ fault \in Faults

ResetControl == [mode |-> "n8", busy |-> FALSE, irq |-> FALSE,
                 internal |-> FALSE, fast |-> FALSE]

Init ==
    /\ cycle = [p \in Ports |-> 0]
    /\ control = [p \in Ports |-> ResetControl]
    /\ rcnt = [p \in Ports |-> "gpio"]
    /\ send = [p \in Ports |-> AllOnes]
    /\ receive = [p \in Ports |-> [s \in Ports |-> AllOnes]]
    /\ connected = Ports
    /\ link = NoTransfer
    /\ serialIf = {}
    /\ fault = "none"

-----------------------------------------------------------------------------
(* What the hub reads off its state. *)

Active == link.kind # "none"
InMultiplayer(r, c) == Serial(r) /\ c.mode = "multi"
InNormal(r, c) == Serial(r) /\ c.mode \in Widths
Multiplayer(i) == InMultiplayer(rcnt[i], control[i])
Normal(i) == InNormal(rcnt[i], control[i])
Synchronized == \A i \in Ports : cycle[i] = cycle[0]

(* SIOCNT of every port once cancel() has dropped the transfer: the ports
   armed in a normal transfer lose BUSY. *)
Disarmed ==
    IF link.kind \in Widths
    THEN [p \in Ports |-> IF p \in link.mask
                          THEN [control[p] EXCEPT !.busy = FALSE]
                          ELSE control[p]]
    ELSE control

-----------------------------------------------------------------------------
(* Starting a transfer.  The operators take SIOCNT as it stands at that point
   of the register write. *)

(* What a port puts on a normal cable: the low byte of send, or the two data
   words.  The bytes above an 8-bit datum are never read. *)
Offered(i, width) ==
    IF width = "n8" THEN <<[AllOnes EXCEPT !.lo = send[i].lo], AllOnes>>
                    ELSE <<receive[i][0], receive[i][1]>>

NormalTransfer(ctl) ==
    LET width == ctl[0].mode
        Takes(p) == p \in connected /\ Serial(rcnt[p]) /\ ctl[p].mode = width
    IN  [kind |-> width, start |-> cycle[0],
         finish |-> cycle[0] + NormalCycles[width][ctl[0].fast],
         mask |-> {p \in Ports : Takes(p) /\ ctl[p].busy},
         data |-> [p \in Ports |-> IF Takes(p) THEN Offered(p, width)
                                   ELSE <<AllOnes, AllOnes>>]]

MultiTransfer(ctl) ==
    [kind |-> "multi", start |-> 0,
     finish |-> cycle[0] + MultiCycles[ctl[0].fast][ctl[0].internal],
     mask |-> {}, data |-> [p \in Ports |-> <<send[p], AllOnes>>]]

(* start(): silently nothing unless every port is connected in multiplayer
   mode.  Otherwise all words are latched and all receive words blanked. *)
StartMulti(ctl, base) ==
    IF connected = Ports /\ \A p \in Ports : InMultiplayer(rcnt[p], ctl[p])
    THEN /\ link' = MultiTransfer(ctl)
         /\ receive' = [p \in Ports |-> [s \in Ports |-> AllOnes]]
    ELSE link' = base /\ UNCHANGED receive

(* Mutant: BUSY held high counts as another clock edge. *)
StartNormal_HeldBusyIsEdge(i, ctl, base) ==
    \/ /\ ~Synchronized
       /\ fault' = "rendezvous" /\ link' = base
    \/ /\ Synchronized /\ i # 0
       /\ link' = base /\ UNCHANGED fault
    \/ /\ Synchronized /\ i = 0 /\ base.kind = "none"
       /\ link' = NormalTransfer(ctl) /\ UNCHANGED fault
    \/ /\ Synchronized /\ i = 0 /\ base.kind # "none"
       /\ link' = base
       /\ fault' = IF base.kind = ctl[0].mode /\ cycle[0] = base.start
                   THEN fault ELSE "conflict"

(* start_normal(port), base being the transfer in flight. *)
StartNormal(i, ctl, base) ==
    \/ /\ ~Synchronized
       /\ fault' = "rendezvous" /\ link' = base
    \/ /\ Synchronized
       /\ i # 0 \/ (base.kind \in Widths /\ 0 \in base.mask)
       /\ link' = base /\ UNCHANGED fault
    \/ /\ Synchronized /\ i = 0 /\ base.kind = "none"
       /\ link' = NormalTransfer(ctl) /\ UNCHANGED fault
    \/ /\ Synchronized /\ i = 0
       /\ base.kind # "none" /\ ~(base.kind \in Widths /\ 0 \in base.mask)
       /\ LET agrees == /\ base.kind = ctl[0].mode
                        /\ cycle[0] = base.start
                        /\ base.finish - base.start
                             = NormalCycles[ctl[0].mode][ctl[0].fast]
          IN  /\ link' = IF agrees THEN [base EXCEPT !.mask = @ \cup {0}] ELSE base
              /\ fault' = IF agrees THEN fault ELSE "conflict"

-----------------------------------------------------------------------------
(* Endpoint::write16.  "half" is the byte mask: the low byte of SIOCNT holds
   BUSY and the clock bits, the high byte the mode and IRQ enable. *)
Halves == {"both", "low", "high"}

Merged(old, value, half) ==
    [mode     |-> IF half = "low" THEN old.mode ELSE value.mode,
     irq      |-> IF half = "low" THEN old.irq ELSE value.irq,
     busy     |-> IF half = "high" THEN old.busy ELSE value.busy,
     internal |-> IF half = "high" THEN old.internal ELSE value.internal,
     fast     |-> IF half = "high" THEN old.fast ELSE value.fast]

(* A mode change drops the transfer in flight, and so does clearing BUSY of a
   port armed in a normal one. *)
Interrupts(i, reg) ==
    \/ reg.mode # control[i].mode
    \/ link.kind \in Widths /\ i \in link.mask /\ ~reg.busy

WriteControl(i, value, half) ==
    LET reg   == Merged(control[i], value, half)
        drop  == Interrupts(i, reg)
        base  == IF drop THEN NoTransfer ELSE link
        rest  == IF drop THEN Disarmed ELSE control
        whole == [rest EXCEPT ![i] = reg]
        \* reg &= 0x7003: BUSY is never stored in multiplayer mode
        multi == [rest EXCEPT ![i] = [reg EXCEPT !.busy = FALSE]]
        start == half # "high" /\ value.busy
    IN  /\ UNCHANGED <<cycle, rcnt, send, connected, serialIf>>
        /\ \/ /\ InNormal(rcnt[i], reg)
              /\ control' = whole /\ UNCHANGED receive
              /\ IF start /\ reg.internal
                 THEN StartNormal(i, whole, base)
                 ELSE link' = base /\ UNCHANGED fault
           \/ /\ ~InNormal(rcnt[i], reg) /\ ~InMultiplayer(rcnt[i], reg)
              /\ control' = whole /\ link' = base /\ UNCHANGED receive
              /\ fault' = IF start /\ Serial(rcnt[i]) THEN "uart" ELSE fault
           \/ /\ InMultiplayer(rcnt[i], reg)
              /\ ~(i = 0 /\ start /\ base.kind = "none")
              /\ control' = multi /\ link' = base /\ UNCHANGED <<receive, fault>>
           \/ /\ InMultiplayer(rcnt[i], reg)
              /\ i = 0 /\ start /\ base.kind = "none" /\ Synchronized
              /\ control' = multi /\ StartMulti(multi, base) /\ UNCHANGED fault
           \/ /\ InMultiplayer(rcnt[i], reg)
              /\ i = 0 /\ start /\ base.kind = "none" /\ ~Synchronized
              /\ control' = [rest EXCEPT ![i] = control[i]]
              /\ fault' = "rendezvous" /\ link' = base /\ UNCHANGED receive

(* Mutant: a mode change through RCNT leaves the transfer in flight. *)
WriteRcnt_KeepsTransfer(i, mode) ==
    /\ rcnt' = [rcnt EXCEPT ![i] = mode]
    /\ UNCHANGED <<cycle, control, send, receive, connected, link, serialIf, fault>>

WriteRcnt(i, mode) ==
    /\ rcnt' = [rcnt EXCEPT ![i] = mode]
    /\ IF mode # rcnt[i]
       THEN control' = Disarmed /\ link' = NoTransfer
       ELSE UNCHANGED <<control, link>>
    /\ UNCHANGED <<cycle, send, receive, connected, serialIf, fault>>

WriteSend(i, word) ==
    /\ send' = [send EXCEPT ![i] = word]
    /\ UNCHANGED <<cycle, control, rcnt, receive, connected, link, serialIf, fault>>

(* 0x120 and 0x122 are the 32-bit datum in normal mode, read-only otherwise. *)
WriteData(i, slot, word) ==
    /\ slot \in {0, 1}
    /\ Normal(i) /\ control[i].mode = "n32"
    /\ receive' = [receive EXCEPT ![i][slot] = word]
    /\ UNCHANGED <<cycle, control, rcnt, send, connected, link, serialIf, fault>>

-----------------------------------------------------------------------------
(* Time.  complete_if_ready() delivers when the last port reaches finish. *)

(* The datum port i receives in a normal transfer: its lower neighbour's if
   that one was armed too, all ones otherwise. *)
Shifted(i) == IF i > 0 /\ i - 1 \in link.mask THEN link.data[i - 1]
                                              ELSE <<AllOnes, AllOnes>>

(* Mutant: the words of a ring are read when it completes. *)
Complete_LiveWords ==
    /\ receive' = IF link.kind = "multi" THEN [p \in Ports |-> send] ELSE receive
    /\ serialIf' = serialIf \cup {p \in connected : control[p].irq}
    /\ link' = NoTransfer
    /\ UNCHANGED <<send, control>>

Complete ==
    LET done == IF link.kind = "multi" THEN Ports ELSE link.mask
    IN  /\ send' = [p \in Ports |->
                IF link.kind = "n8" /\ p \in done
                THEN [send[p] EXCEPT !.lo = Shifted(p)[1].lo] ELSE send[p]]
        /\ receive' = [p \in Ports |->
                CASE link.kind = "multi" -> [s \in Ports |-> link.data[s][1]]
                  [] link.kind = "n32" /\ p \in done ->
                        [receive[p] EXCEPT ![0] = Shifted(p)[1], ![1] = Shifted(p)[2]]
                  [] OTHER -> receive[p]]
        /\ control' = [p \in Ports |->
                IF link.kind \in Widths /\ p \in done
                THEN [control[p] EXCEPT !.busy = FALSE] ELSE control[p]]
        /\ serialIf' = serialIf \cup {p \in done \cap connected : control[p].irq}
        /\ link' = NoTransfer

Tick(i, n) ==
    IF Active /\ cycle[i] + n > link.finish
    THEN /\ fault' = "crossed"
         /\ UNCHANGED <<cycle, control, rcnt, send, receive, connected, link, serialIf>>
    ELSE /\ cycle' = [cycle EXCEPT ![i] = @ + n]
         /\ IF Active /\ \A p \in Ports : cycle'[p] = link.finish
            THEN Complete
            ELSE UNCHANGED <<control, send, receive, link, serialIf>>
         /\ UNCHANGED <<rcnt, connected, fault>>

-----------------------------------------------------------------------------
(* set_serial_device: connection_changed() drops the transfer.  The IF bit
   belongs to the machine, which keeps it; a program clears it by hand. *)
Plug(i) ==
    /\ connected' = IF i \in connected THEN connected \ {i} ELSE connected \cup {i}
    /\ control' = Disarmed /\ link' = NoTransfer
    /\ UNCHANGED <<cycle, rcnt, send, receive, serialIf, fault>>

AcknowledgeIrq(i) ==
    /\ i \in serialIf
    /\ serialIf' = serialIf \ {i}
    /\ UNCHANGED <<cycle, control, rcnt, send, receive, connected, link, fault>>

Write(i, values, modes, words) ==
    /\ i \in connected
    /\ \/ \E v \in values : WriteControl(i, v[1], v[2])
       \/ \E mode \in modes : WriteRcnt(i, mode)
       \/ \E word \in words : WriteSend(i, word)
       \/ \E slot \in {0, 1}, word \in words : WriteData(i, slot, word)
       \/ AcknowledgeIrq(i)

Next ==
    /\ fault = "none"
    /\ \E i \in Ports :
          \/ Write(i, Control \X Halves, RcntModes, Word)
          \/ Plug(i)
          \/ \E n \in Nat \ {0} : Tick(i, n)

Spec == Init /\ [][Next]_hubVars

-----------------------------------------------------------------------------
(* Properties. *)

(* Every state the hub reaches passes the checks of its own load_state: a
   snapshot taken at any moment, in the middle of a transfer included, can be
   restored (gba_link_hub.cpp:242-264; "mid-transfer snapshot/replay
   identity", docs/MULTIPLAYER.md:86). *)
ClocksWithinTransfer ==
    Active => /\ \A p \in Ports : cycle[p] <= link.finish
              /\ \E p \in Ports : cycle[p] # link.finish

RingIsWhole ==
    link.kind = "multi" => connected = Ports /\ \A p \in Ports : Multiplayer(p)

ArmedPortsHold ==
    link.kind \in Widths =>
        /\ link.mask # {}
        /\ \E fast \in BOOLEAN :
              link.finish = link.start + NormalCycles[link.kind][fast]
        /\ \A p \in link.mask :
              /\ p \in connected /\ cycle[p] >= link.start
              /\ Serial(rcnt[p]) /\ control[p].mode = link.kind
              /\ control[p].busy

LoadAccepts ==
    /\ ClocksWithinTransfer
    /\ RingIsWhole
    /\ ArmedPortsHold
    /\ link.kind = "none" => link = NoTransfer

(* Data moves between machines as CableExchange says, and in no other way. *)
ExchangeKind == CASE link.kind = "multi" -> "ring" [] link.kind = "n8" -> "byte"
                  [] link.kind = "n32" -> "long" [] OTHER -> "none"
Participants == CASE link.kind = "multi" -> Ports [] link.kind = "none" -> {}
                  [] OTHER -> link.mask

Exchange == INSTANCE CableExchange WITH
    regs <- [p \in Ports |-> [send |-> send[p], receive |-> receive[p]]],
    pending <- serialIf,
    exchange <- [kind |-> ExchangeKind, who |-> Participants,
                 data |-> [p \in Participants |-> link.data[p]]]

(* gba_link_hub.cpp implements the exchange: every participant gets, at one
   instant, the words latched when the transfer began, whatever was written
   since; a dropped transfer delivers nothing and raises no interrupt. *)
ExchangesData == Exchange!Spec

(* The throw at gba_link_hub.cpp:136 guards a case no register traffic can
   produce: port zero is the only clock driver and is armed in every normal
   transfer, so no second, disagreeing driver ever meets a transfer. *)
NoClockConflict == fault # "conflict"
=============================================================================
