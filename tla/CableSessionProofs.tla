------------------------- MODULE CableSessionProofs --------------------------
(***************************************************************************)
(* What the cable guarantees for every number of ports, every duration     *)
(* table and every sequence of register writes, ticks and (un)plugs, and   *)
(* that this is the exchange that CableExchange promises; and that the     *)
(* session scheduler drives the cable correctly, for every duration table  *)
(* longer than the lookahead, every cost of instructions and every         *)
(* program.                                                                *)
(***************************************************************************)
EXTENDS CableSession, TLAPS

-----------------------------------------------------------------------------
(* The hub, whoever calls it.                                                *)

(* Port zero, the only clock driver, is armed in every normal transfer. *)
DriverArmed == link.kind \in Widths => 0 \in link.mask

HubInv == TypeOK /\ LoadAccepts /\ DriverArmed /\ NoClockConflict

(* LoadAccepts and DriverArmed of a transfer l, for port states given one by
   one: a register write passes through states that no variable holds. *)
Sound(l, ctl) ==
    /\ l.kind # "none" =>
          /\ \A p \in Ports : cycle[p] <= l.finish
          /\ \E p \in Ports : cycle[p] # l.finish
    /\ l.kind = "multi" =>
          connected = Ports /\ \A p \in Ports : InMultiplayer(rcnt[p], ctl[p])
    /\ l.kind \in Widths =>
          /\ 0 \in l.mask
          /\ \E fast \in BOOLEAN : l.finish = l.start + NormalCycles[l.kind][fast]
          /\ \A p \in l.mask :
                /\ p \in connected /\ cycle[p] >= l.start
                /\ Serial(rcnt[p]) /\ ctl[p].mode = l.kind /\ ctl[p].busy
    /\ l.kind = "none" => l = NoTransfer

USE DEF Ports, Widths, Kinds, Modes, RcntModes, Serial, Faults, Halves

-----------------------------------------------------------------------------
(* Types of the helpers. *)

LEMMA PortZero == 0 \in Ports /\ 1 \in Ports
BY PortCountAssumption

LEMMA AllOnesType == AllOnes \in Word
BY ByteAssumption DEF AllOnes, Word

LEMMA NoTransferType == NoTransfer \in Transfer
BY AllOnesType DEF NoTransfer, Transfer

LEMMA MergedType ==
    ASSUME NEW old \in Control, NEW value \in Control, NEW half \in Halves
    PROVE  Merged(old, value, half) \in Control
BY DEF Merged, Control

LEMMA DisarmedType ==
    ASSUME TypeOK
    PROVE  Disarmed \in [Ports -> Control]
BY ZenonT(30) DEF Disarmed, TypeOK, Control

(* Dropping a transfer changes nothing of a port's SIOCNT but BUSY. *)
LEMMA DisarmedMode ==
    ASSUME TypeOK, NEW p \in Ports
    PROVE  /\ Disarmed[p].mode = control[p].mode
           /\ Disarmed[p].internal = control[p].internal
BY DEF Disarmed, TypeOK, Control

LEMMA OfferedType ==
    ASSUME TypeOK, NEW p \in Ports, NEW width \in Widths
    PROVE  Offered(p, width) \in Word \X Word
<1>1. [AllOnes EXCEPT !.lo = send[p].lo] \in Word
  BY AllOnesType DEF TypeOK, Word
<1>2. receive[p][0] \in Word /\ receive[p][1] \in Word
  BY PortZero DEF TypeOK
<1> QED BY <1>1, <1>2, AllOnesType DEF Offered

LEMMA NormalTransferType ==
    ASSUME TypeOK, NEW ctl \in [Ports -> Control], ctl[0].mode \in Widths
    PROVE  /\ NormalTransfer(ctl) \in Transfer
           /\ NormalTransfer(ctl).kind = ctl[0].mode
           /\ NormalTransfer(ctl).start = cycle[0]
           /\ NormalTransfer(ctl).finish
                = cycle[0] + NormalCycles[ctl[0].mode][ctl[0].fast]
           /\ NormalCycles[ctl[0].mode][ctl[0].fast] \in Nat \ {0}
           /\ \A p \in Ports : p \in NormalTransfer(ctl).mask
                <=> /\ p \in connected /\ Serial(rcnt[p])
                    /\ ctl[p].mode = ctl[0].mode /\ ctl[p].busy
<1> DEFINE width == ctl[0].mode
           takes(p) == p \in connected /\ Serial(rcnt[p]) /\ ctl[p].mode = width
           data == [p \in Ports |-> IF takes(p) THEN Offered(p, width)
                                    ELSE <<AllOnes, AllOnes>>]
<1>1. cycle[0] \in Nat /\ ctl[0].fast \in BOOLEAN
  BY PortZero DEF TypeOK, Control
<1>2. NormalCycles[width][ctl[0].fast] \in Nat \ {0}
  BY <1>1, NormalCyclesAssumption
<1>3. data \in [Ports -> Word \X Word]
  BY OfferedType, AllOnesType
<1>4. NormalTransfer(ctl) =
        [kind |-> width, start |-> cycle[0],
         finish |-> cycle[0] + NormalCycles[width][ctl[0].fast],
         mask |-> {p \in Ports : takes(p) /\ ctl[p].busy}, data |-> data]
  BY DEF NormalTransfer
<1> HIDE DEF data
<1>5. NormalTransfer(ctl) \in Transfer
  <2>1. cycle[0] + NormalCycles[width][ctl[0].fast] \in Nat
    BY <1>1, <1>2
  <2> QED BY <1>1, <1>3, <1>4, <2>1 DEF Transfer
<1> QED
  BY <1>2, <1>4, <1>5

LEMMA MultiTransferType ==
    ASSUME TypeOK, NEW ctl \in [Ports -> Control]
    PROVE  /\ MultiTransfer(ctl) \in Transfer
           /\ MultiTransfer(ctl).kind = "multi"
           /\ MultiTransfer(ctl).finish > cycle[0]
<1>1. cycle[0] \in Nat /\ ctl[0].fast \in BOOLEAN /\ ctl[0].internal \in BOOLEAN
  BY PortZero DEF TypeOK, Control
<1>2. MultiCycles[ctl[0].fast][ctl[0].internal] \in Nat \ {0}
  BY <1>1, MultiCyclesAssumption
<1>3. [p \in Ports |-> <<send[p], AllOnes>>] \in [Ports -> Word \X Word]
  BY AllOnesType DEF TypeOK
<1> QED
  BY <1>1, <1>2, <1>3 DEF MultiTransfer, Transfer

-----------------------------------------------------------------------------
(* How Sound is established. *)

LEMMA SoundIsInvariant ==
    /\ LoadAccepts /\ DriverArmed => Sound(link, control)
    /\ Sound(link, control) => LoadAccepts /\ DriverArmed
BY DEF Sound, LoadAccepts, DriverArmed, ClocksWithinTransfer, RingIsWhole,
       ArmedPortsHold, Active, Multiplayer

LEMMA SoundNextState ==
    Sound(link, control)' <=> (LoadAccepts /\ DriverArmed)'
BY DEF Sound, LoadAccepts, DriverArmed, ClocksWithinTransfer, RingIsWhole,
       ArmedPortsHold, Active, Multiplayer

LEMMA SoundIdle ==
    ASSUME NEW ctl
    PROVE  Sound(NoTransfer, ctl)
BY DEF Sound, NoTransfer

LEMMA SoundNormal ==
    ASSUME TypeOK, Synchronized, NEW ctl \in [Ports -> Control],
           0 \in connected, InNormal(rcnt[0], ctl[0]), ctl[0].busy
    PROVE  Sound(NormalTransfer(ctl), ctl)
<1> DEFINE l == NormalTransfer(ctl)
<1>1. ctl[0].mode \in Widths /\ Serial(rcnt[0])
  BY DEF InNormal
<1>2. \A p \in Ports : cycle[p] = cycle[0] /\ cycle[p] \in Nat
  BY DEF Synchronized, TypeOK
<1>3. l.mask \subseteq Ports
  BY <1>1, NormalTransferType DEF Transfer
<1>4. ctl[0].fast \in BOOLEAN
  BY PortZero DEF Control
<1>5. /\ l.kind = ctl[0].mode /\ l.start = cycle[0]
      /\ l.finish = l.start + NormalCycles[l.kind][ctl[0].fast]
      /\ NormalCycles[l.kind][ctl[0].fast] \in Nat \ {0}
      /\ \A p \in Ports : p \in l.mask <=>
            /\ p \in connected /\ Serial(rcnt[p])
            /\ ctl[p].mode = l.kind /\ ctl[p].busy
  BY <1>1, NormalTransferType
<1> HIDE DEF l
<1>6. \A p \in Ports : cycle[p] <= l.finish /\ cycle[p] # l.finish
  BY <1>2, <1>5, PortZero
<1>7. 0 \in l.mask
  BY <1>1, <1>5, PortZero
<1>8. l.kind # "none" /\ l.kind # "multi"
  BY <1>1, <1>5
<1>9. \A p \in l.mask : cycle[p] >= l.start
  BY <1>2, <1>3, <1>5, PortZero
<1>10. \E fast \in BOOLEAN : l.finish = l.start + NormalCycles[l.kind][fast]
  BY <1>4, <1>5
<1>11. \A p \in l.mask : /\ p \in connected /\ Serial(rcnt[p])
                         /\ ctl[p].mode = l.kind /\ ctl[p].busy
  BY <1>3, <1>5
<1>12. Sound(l, ctl)
  BY <1>6, <1>7, <1>8, <1>9, <1>10, <1>11, PortZero DEF Sound
<1> QED BY <1>12 DEF l

LEMMA SoundMulti ==
    ASSUME TypeOK, Synchronized, NEW ctl \in [Ports -> Control],
           connected = Ports, \A p \in Ports : InMultiplayer(rcnt[p], ctl[p])
    PROVE  Sound(MultiTransfer(ctl), ctl)
<1>1. \A p \in Ports : cycle[p] = cycle[0] /\ cycle[p] \in Nat
  BY DEF Synchronized, TypeOK
<1>2. MultiTransfer(ctl).finish \in Nat
  BY MultiTransferType DEF Transfer
<1> QED
  BY <1>1, <1>2, PortZero, MultiTransferType DEF Sound

(* A SIOCNT write that does not start anything leaves a sound transfer, or
   none: what would contradict the transfer in flight drops it. *)
LEMMA SoundKept ==
    ASSUME HubInv, NEW i \in Ports, NEW reg \in Control, NEW stored \in Control,
           stored.mode = reg.mode,
           reg.mode \in Widths => stored.busy = reg.busy,
           NEW base, base = IF Interrupts(i, reg) THEN NoTransfer ELSE link,
           NEW rest, rest = IF Interrupts(i, reg) THEN Disarmed ELSE control
    PROVE  /\ base \in Transfer
           /\ [rest EXCEPT ![i] = stored] \in [Ports -> Control]
           /\ Sound(base, [rest EXCEPT ![i] = stored])
<1>1. rest \in [Ports -> Control]
  BY DisarmedType DEF HubInv, TypeOK
<1>2. base \in Transfer
  BY NoTransferType DEF HubInv, TypeOK
<1>3. CASE Interrupts(i, reg)
  BY <1>1, <1>2, <1>3, SoundIdle
<1>4. CASE ~Interrupts(i, reg)
  <2>1. Sound(link, control)
    BY SoundIsInvariant DEF HubInv
  <2>2. base = link /\ rest = control
    BY <1>4
  <2>3. reg.mode = control[i].mode
    BY <1>4 DEF Interrupts
  <2>4. link.kind \in Widths /\ i \in link.mask => reg.busy
    BY <1>4 DEF Interrupts
  <2>5. \A p \in Ports : [rest EXCEPT ![i] = stored][p].mode = control[p].mode
    BY <1>1, <2>2, <2>3
  <2>6. link.mask \subseteq Ports
    BY DEF HubInv, TypeOK, Transfer
  <2>7. ASSUME link.kind \in Widths, NEW p \in link.mask
        PROVE  [rest EXCEPT ![i] = stored][p].busy
    BY <1>1, <2>1, <2>2, <2>3, <2>4, <2>6, <2>7 DEF Sound
  <2> QED
    BY <1>1, <1>2, <2>1, <2>2, <2>5, <2>6, <2>7 DEF Sound, InMultiplayer
<1> QED BY <1>3, <1>4

-----------------------------------------------------------------------------
(* One lemma per action. *)

LEMMA WriteControlStep ==
    ASSUME HubInv, NEW i \in connected, NEW value \in Control, NEW half \in Halves,
           WriteControl(i, value, half)
    PROVE  HubInv'
<1> DEFINE reg   == Merged(control[i], value, half)
           base  == IF Interrupts(i, reg) THEN NoTransfer ELSE link
           rest  == IF Interrupts(i, reg) THEN Disarmed ELSE control
           whole == [rest EXCEPT ![i] = reg]
           quiet == [reg EXCEPT !.busy = FALSE]
           multi == [rest EXCEPT ![i] = quiet]
           start == half # "high" /\ value.busy
<1>a. TypeOK /\ i \in Ports /\ control[i] \in Control
  BY DEF HubInv, TypeOK
<1>b. reg \in Control /\ (start => reg.busy)
  BY <1>a, MergedType DEF Merged
<1>c. rest \in [Ports -> Control] /\ whole[i] = reg /\ multi[i] = quiet
  BY <1>a, DisarmedType DEF TypeOK
<1>d. /\ base \in Transfer
      /\ whole \in [Ports -> Control] /\ Sound(base, whole)
  BY <1>a, <1>b, SoundKept
<1>e. ASSUME reg.mode = "multi"
      PROVE  multi \in [Ports -> Control] /\ Sound(base, multi)
  <2>1. quiet \in Control /\ quiet.mode = reg.mode
    BY <1>b DEF Control
  <2> HIDE DEF quiet, reg
  <2> QED BY <1>a, <1>b, <1>e, <2>1, SoundKept
<1>f. UNCHANGED <<cycle, rcnt, send, connected, serialIf>>
  BY DEF WriteControl
<1> SUFFICES /\ control' \in [Ports -> Control] /\ link' \in Transfer
             /\ receive' \in [Ports -> [Ports -> Word]]
             /\ fault' \in Faults \ {"conflict"}
             /\ Sound(link', control')
  <2>1. Sound(link, control)'
    BY <1>f DEF Sound
  <2>2. TypeOK'
    BY <1>a, <1>f DEF TypeOK
  <2> QED
    BY <2>1, <2>2, SoundNextState DEF HubInv, NoClockConflict
<1>g. fault \in Faults \ {"conflict"} /\ receive \in [Ports -> [Ports -> Word]]
  BY DEF HubInv, TypeOK, NoClockConflict
<1>1. CASE /\ InNormal(rcnt[i], reg)
           /\ control' = whole /\ UNCHANGED receive
           /\ start /\ reg.internal
           /\ StartNormal(i, whole, base)
  <2>1. CASE ~Synchronized /\ fault' = "rendezvous" /\ link' = base
    BY <1>1, <1>d, <1>g, <2>1
  <2>2. CASE link' = base /\ UNCHANGED fault
    BY <1>1, <1>d, <1>g, <2>2
  <2>3. CASE /\ Synchronized /\ i = 0
             /\ link' = NormalTransfer(whole) /\ UNCHANGED fault
    <3>1. InNormal(rcnt[0], whole[0]) /\ whole[0].busy /\ whole[0].mode \in Widths
      BY <1>1, <1>b, <1>c, <2>3 DEF InNormal
    <3>2. Sound(NormalTransfer(whole), whole)
      BY <1>a, <1>d, <2>3, <3>1, SoundNormal
    <3>3. NormalTransfer(whole) \in Transfer
      BY <1>a, <1>d, <3>1, NormalTransferType
    <3> QED BY <1>1, <1>d, <1>g, <2>3, <3>2, <3>3
  \* a transfer in flight that port zero is not armed in would be a ring,
  \* and port zero has just left multiplayer mode
  <2>4. CASE /\ i = 0 /\ base.kind # "none"
             /\ ~(base.kind \in Widths /\ 0 \in base.mask)
    <3>1. base.kind = "multi"
      BY <1>d, <2>4 DEF Sound, Transfer
    <3>2. InMultiplayer(rcnt[0], whole[0])
      BY <1>d, <3>1, PortZero DEF Sound
    <3> QED BY <1>1, <1>c, <2>4, <3>2 DEF InMultiplayer, InNormal
  <2> HIDE DEF reg, base, whole, start
  <2> QED BY <1>1, <2>1, <2>2, <2>3, <2>4 DEF StartNormal
<1>2. CASE link' = base /\ control' = whole /\ UNCHANGED <<receive, fault>>
  BY <1>2, <1>d, <1>g
<1>3. CASE /\ control' = whole /\ link' = base /\ UNCHANGED receive
           /\ fault' = IF start /\ Serial(rcnt[i]) THEN "uart" ELSE fault
  BY <1>3, <1>d, <1>g
<1>4. CASE /\ InMultiplayer(rcnt[i], reg)
           /\ control' = multi /\ link' = base /\ UNCHANGED <<receive, fault>>
  BY <1>4, <1>d, <1>e, <1>g DEF InMultiplayer
<1>5. CASE /\ InMultiplayer(rcnt[i], reg) /\ Synchronized
           /\ control' = multi /\ StartMulti(multi, base) /\ UNCHANGED fault
  <2>1. multi \in [Ports -> Control] /\ Sound(base, multi)
    BY <1>5, <1>e DEF InMultiplayer
  <2>2. CASE connected = Ports /\ \A p \in Ports : InMultiplayer(rcnt[p], multi[p])
    <3>1. link' = MultiTransfer(multi)
      BY <1>5, <2>2 DEF StartMulti
    <3>2. receive' = [p \in Ports |-> [s \in Ports |-> AllOnes]]
      BY <1>5, <2>2 DEF StartMulti
    <3>3. Sound(MultiTransfer(multi), multi) /\ MultiTransfer(multi) \in Transfer
      BY <1>5, <1>a, <2>1, <2>2, SoundMulti, MultiTransferType
    <3> QED BY <1>5, <1>g, <2>1, <3>1, <3>2, <3>3, AllOnesType
  <2>3. CASE ~(connected = Ports /\ \A p \in Ports : InMultiplayer(rcnt[p], multi[p]))
    <3>1. link' = base /\ UNCHANGED receive
      BY <1>5, <2>3 DEF StartMulti
    <3> QED BY <1>5, <1>d, <1>g, <2>1, <3>1
  <2> QED BY <2>2, <2>3
<1>6. CASE /\ InMultiplayer(rcnt[i], reg) /\ base.kind = "none"
           /\ control' = [rest EXCEPT ![i] = control[i]]
           /\ fault' = "rendezvous" /\ link' = base /\ UNCHANGED receive
  <2>1. base = NoTransfer
    BY <1>6, <1>d DEF Sound
  <2>2. control' \in [Ports -> Control]
    BY <1>6, <1>a, <1>c
  <2> QED BY <1>6, <1>d, <1>g, <2>1, <2>2, SoundIdle
<1>7. \/ /\ InNormal(rcnt[i], reg)
         /\ control' = whole /\ UNCHANGED receive
         /\ IF start /\ reg.internal THEN StartNormal(i, whole, base)
                                     ELSE link' = base /\ UNCHANGED fault
      \/ /\ control' = whole /\ link' = base /\ UNCHANGED receive
         /\ fault' = IF start /\ Serial(rcnt[i]) THEN "uart" ELSE fault
      \/ /\ InMultiplayer(rcnt[i], reg)
         /\ control' = multi /\ link' = base /\ UNCHANGED <<receive, fault>>
      \/ /\ InMultiplayer(rcnt[i], reg) /\ Synchronized
         /\ control' = multi /\ StartMulti(multi, base) /\ UNCHANGED fault
      \/ /\ InMultiplayer(rcnt[i], reg) /\ base.kind = "none"
         /\ control' = [rest EXCEPT ![i] = control[i]]
         /\ fault' = "rendezvous" /\ link' = base /\ UNCHANGED receive
  BY Zenon DEF WriteControl
<1> HIDE DEF base, rest, whole, multi, start, quiet, reg
<1> QED BY <1>1, <1>2, <1>3, <1>4, <1>5, <1>6, <1>7

LEMMA WriteRcntStep ==
    ASSUME HubInv, NEW i \in Ports, NEW mode \in RcntModes, WriteRcnt(i, mode)
    PROVE  HubInv'
<1>1. CASE mode # rcnt[i]
  <2>1. control' = Disarmed /\ link' = NoTransfer
    BY <1>1 DEF WriteRcnt
  <2>2. TypeOK'
    BY <2>1, DisarmedType, NoTransferType DEF HubInv, TypeOK, WriteRcnt
  <2>3. Sound(link, control)'
    BY <2>1 DEF Sound, NoTransfer
  <2> QED BY <2>2, <2>3, SoundNextState DEF HubInv, NoClockConflict, WriteRcnt
<1>2. CASE mode = rcnt[i]
  BY <1>2 DEF HubInv, TypeOK, WriteRcnt, LoadAccepts, DriverArmed, NoClockConflict,
     ClocksWithinTransfer, RingIsWhole, ArmedPortsHold, Active, Multiplayer
<1> QED BY <1>1, <1>2

(* The actions that touch neither clocks, modes nor the transfer. *)
LEMMA QuietStep ==
    ASSUME HubInv, TypeOK',
           UNCHANGED <<cycle, control, rcnt, connected, link, fault>>
    PROVE  HubInv'
BY DEF HubInv, LoadAccepts, DriverArmed, NoClockConflict,
   ClocksWithinTransfer, RingIsWhole, ArmedPortsHold, Active, Multiplayer

LEMMA DataStep ==
    ASSUME HubInv, NEW i \in Ports, NEW word \in Word, NEW slot \in {0, 1},
           WriteSend(i, word) \/ WriteData(i, slot, word) \/ AcknowledgeIrq(i)
    PROVE  HubInv'
<1>1. TypeOK /\ slot \in Ports
  BY PortZero DEF HubInv
<1>2. TypeOK'
  <2>1. CASE WriteSend(i, word)
    BY <1>1, <2>1 DEF TypeOK, WriteSend
  <2>2. CASE WriteData(i, slot, word)
    <3>1. receive' \in [Ports -> [Ports -> Word]]
      BY <1>1, <2>2 DEF TypeOK, WriteData
    <3> QED BY <1>1, <2>2, <3>1 DEF TypeOK, WriteData
  <2>3. CASE AcknowledgeIrq(i)
    BY <1>1, <2>3 DEF TypeOK, AcknowledgeIrq
  <2> QED BY <2>1, <2>2, <2>3
<1> QED BY <1>2, QuietStep DEF WriteSend, WriteData, AcknowledgeIrq

LEMMA PlugStep ==
    ASSUME HubInv, NEW i \in Ports, Plug(i)
    PROVE  HubInv'
<1>1. TypeOK'
  BY DisarmedType, NoTransferType DEF HubInv, TypeOK, Plug
<1>2. Sound(link, control)'
  BY DEF Plug, Sound, NoTransfer
<1> QED BY <1>1, <1>2, SoundNextState DEF HubInv, NoClockConflict, Plug

LEMMA ShiftedType ==
    ASSUME TypeOK, NEW p \in Ports
    PROVE  Shifted(p) \in Word \X Word
BY AllOnesType DEF Shifted, TypeOK, Transfer

LEMMA CompleteType ==
    ASSUME TypeOK, Complete, UNCHANGED <<rcnt, connected, fault>>,
           cycle' \in [Ports -> Nat]
    PROVE  TypeOK'
<1>1. link' \in Transfer
  BY NoTransferType DEF Complete
<1>2. serialIf' \subseteq Ports
  BY DEF Complete, TypeOK, Transfer
<1>3. control' \in [Ports -> Control]
  BY ZenonT(30) DEF Complete, TypeOK, Control
<1>4. send' \in [Ports -> Word]
  <2>1. ASSUME NEW p \in Ports
        PROVE  [send[p] EXCEPT !.lo = Shifted(p)[1].lo] \in Word
    BY ShiftedType DEF TypeOK, Word
  <2> QED BY <2>1 DEF Complete, TypeOK
<1>5. receive' \in [Ports -> [Ports -> Word]]
  <2>1. [s \in Ports |-> link.data[s][1]] \in [Ports -> Word]
    BY DEF TypeOK, Transfer
  <2>2. ASSUME NEW p \in Ports
        PROVE  [receive[p] EXCEPT ![0] = Shifted(p)[1], ![1] = Shifted(p)[2]]
                 \in [Ports -> Word]
    <3>1. Shifted(p)[1] \in Word /\ Shifted(p)[2] \in Word
      BY ShiftedType
    <3>2. receive[p] \in [Ports -> Word]
      BY DEF TypeOK
    <3> QED BY <3>1, <3>2, PortZero
  <2> QED BY <2>1, <2>2 DEF Complete, TypeOK
<1> QED BY <1>1, <1>2, <1>3, <1>4, <1>5 DEF TypeOK

LEMMA TickStep ==
    ASSUME HubInv, NEW i \in Ports, NEW n \in Nat \ {0}, Tick(i, n)
    PROVE  HubInv'
<1>1. CASE Active /\ cycle[i] + n > link.finish
  <2>1. UNCHANGED <<cycle, control, rcnt, send, receive, connected, link, serialIf>>
        /\ fault' = "crossed"
    BY <1>1 DEF Tick
  <2> QED BY <2>1 DEF HubInv, TypeOK, LoadAccepts, DriverArmed, NoClockConflict,
        ClocksWithinTransfer, RingIsWhole, ArmedPortsHold, Active, Multiplayer
<1>2. CASE ~(Active /\ cycle[i] + n > link.finish)
  <2>1. /\ cycle' = [cycle EXCEPT ![i] = @ + n]
        /\ UNCHANGED <<rcnt, connected, fault>>
        /\ IF Active /\ \A p \in Ports : cycle'[p] = link.finish
           THEN Complete
           ELSE UNCHANGED <<control, send, receive, link, serialIf>>
    BY <1>2 DEF Tick
  <2>2. cycle' \in [Ports -> Nat] /\ \A p \in Ports : cycle'[p] >= cycle[p]
    BY <2>1 DEF HubInv, TypeOK
  <2>3. CASE Active /\ \A p \in Ports : cycle'[p] = link.finish
    <3>1. TypeOK'
      BY <2>1, <2>2, <2>3, CompleteType DEF HubInv
    <3>2. link' = NoTransfer
      BY <2>1, <2>3 DEF Complete
    <3>3. Sound(link, control)'
      BY <3>2 DEF Sound, NoTransfer
    <3> QED BY <2>1, <3>1, <3>3, SoundNextState DEF HubInv, NoClockConflict
  <2>4. CASE ~(Active /\ \A p \in Ports : cycle'[p] = link.finish)
    <3>1. UNCHANGED <<control, send, receive, link, serialIf>>
      BY <2>1, <2>4
    <3>2. TypeOK'
      BY <2>1, <2>2, <3>1 DEF HubInv, TypeOK
    <3>3. link.kind # "none" => \A p \in Ports : cycle'[p] <= link.finish
      <4>1. link.finish \in Nat /\ cycle[i] \in Nat
        BY DEF HubInv, TypeOK, Transfer
      <4>2. link.kind # "none" => \A p \in Ports : cycle[p] <= link.finish
        BY DEF HubInv, LoadAccepts, ClocksWithinTransfer, Active
      <4>3. link.kind # "none" => cycle[i] + n <= link.finish
        BY <1>2, <4>1 DEF Active
      <4>4. \A p \in Ports : cycle'[p] = IF p = i THEN cycle[i] + n ELSE cycle[p]
        BY <2>1 DEF HubInv, TypeOK
      <4> QED BY <4>2, <4>3, <4>4
    <3>4. ASSUME link.kind \in Widths
          PROVE  \A p \in link.mask : cycle'[p] >= link.start
      <4>1. link.mask \subseteq Ports /\ link.start \in Nat
        BY DEF HubInv, TypeOK, Transfer
      <4>2. \A p \in Ports : cycle[p] \in Nat /\ cycle'[p] \in Nat
        BY <2>2 DEF HubInv, TypeOK
      <4> QED BY <2>2, <3>4, <4>1, <4>2 DEF HubInv, LoadAccepts, ArmedPortsHold
    <3>5. Sound(link, control)
      BY SoundIsInvariant DEF HubInv
    <3>6. Sound(link, control)'
      BY <2>1, <2>4, <3>1, <3>3, <3>4, <3>5 DEF Sound, Active
    <3> QED BY <2>1, <3>2, <3>6, SoundNextState DEF HubInv, NoClockConflict
  <2> QED BY <2>3, <2>4
<1> QED BY <1>1, <1>2

-----------------------------------------------------------------------------
(* The cable's guarantees. *)

LEMMA HubInvInit == Init => HubInv
<1> SUFFICES ASSUME Init PROVE HubInv
  OBVIOUS
<1>1. TypeOK
  BY AllOnesType, NoTransferType DEF Init, TypeOK, ResetControl, Control
<1>2. Sound(link, control)
  BY SoundIdle DEF Init
<1> QED BY <1>1, <1>2, SoundIsInvariant DEF HubInv, NoClockConflict, Init

LEMMA WriteStep ==
    ASSUME HubInv, NEW i \in Ports, NEW values \in SUBSET (Control \X Halves),
           NEW modes \in SUBSET RcntModes, NEW words \in SUBSET Word,
           Write(i, values, modes, words)
    PROVE  HubInv'
<1>1. ASSUME NEW v \in values, WriteControl(i, v[1], v[2]) PROVE HubInv'
  <2>1. v[1] \in Control /\ v[2] \in Halves /\ i \in connected
    BY DEF Write
  <2> QED BY <1>1, <2>1, WriteControlStep
<1>2. ASSUME NEW mode \in modes, WriteRcnt(i, mode) PROVE HubInv'
  BY <1>2, WriteRcntStep
<1>3. ASSUME NEW word \in words, WriteSend(i, word) PROVE HubInv'
  BY <1>3, DataStep
<1>4. ASSUME NEW slot \in {0, 1}, NEW word \in words, WriteData(i, slot, word)
      PROVE  HubInv'
  BY <1>4, DataStep
<1>5. ASSUME AcknowledgeIrq(i) PROVE HubInv'
  BY <1>5, AllOnesType, DataStep
<1> QED BY <1>1, <1>2, <1>3, <1>4, <1>5 DEF Write

LEMMA HubInvStep == HubInv /\ [Next]_hubVars => HubInv'
<1> SUFFICES ASSUME HubInv, [Next]_hubVars PROVE HubInv'
  OBVIOUS
<1>1. ASSUME NEW i \in Ports, Write(i, Control \X Halves, RcntModes, Word)
      PROVE  HubInv'
  BY <1>1, WriteStep
<1>2. ASSUME NEW i \in Ports, Plug(i) PROVE HubInv'
  BY <1>2, PlugStep
<1>3. ASSUME NEW i \in Ports, NEW n \in Nat \ {0}, Tick(i, n) PROVE HubInv'
  BY <1>3, TickStep
<1>4. CASE UNCHANGED hubVars
  BY <1>4 DEF hubVars, HubInv, TypeOK, LoadAccepts, DriverArmed, NoClockConflict,
     ClocksWithinTransfer, RingIsWhole, ArmedPortsHold, Active, Multiplayer
<1> QED BY <1>1, <1>2, <1>3, <1>4 DEF Next

THEOREM HubInvariant == Spec => []HubInv
BY HubInvInit, HubInvStep, PTL DEF Spec

(* Every state of the cable has the types the code gives it. *)
THEOREM HubTypes == Spec => []TypeOK
BY HubInvariant, PTL DEF HubInv

(* A snapshot of the cable, taken at any moment, passes the checks of
   load_state: saving cannot produce a state that a rollback then refuses. *)
THEOREM HubSnapshotsLoad == Spec => []LoadAccepts
BY HubInvariant, PTL DEF HubInv

(* The throw for disagreeing clock drivers is dead code. *)
THEOREM HubNoConflict == Spec => []NoClockConflict
BY HubInvariant, PTL DEF HubInv

-----------------------------------------------------------------------------
(* The refinement of CableExchange: its steps, told by what the hub does.    *)

(* What CableExchange sees of the hub: its registers, and the transfer. *)
CableRegisters == [p \in Ports |-> [send |-> send[p], receive |-> receive[p]]]
CableTransfer == [kind |-> ExchangeKind, who |-> Participants,
                  data |-> [p \in Participants |-> link.data[p]]]

LEMMA SameFlight ==
    ASSUME UNCHANGED link
    PROVE  UNCHANGED CableTransfer
BY DEF CableTransfer, ExchangeKind, Participants

LEMMA IsStutter ==
    ASSUME UNCHANGED <<send, receive, serialIf, link>>
    PROVE  UNCHANGED Exchange!vars
<1>1. UNCHANGED CableTransfer
  BY SameFlight
<1> QED BY <1>1 DEF Exchange!vars, CableTransfer

LEMMA IsAbort ==
    ASSUME UNCHANGED <<send, receive, serialIf>>, link' = NoTransfer
    PROVE  Exchange!Abort
<1>1. CableTransfer' = Exchange!Idle
  BY DEF CableTransfer, Exchange!Idle, NoTransfer, ExchangeKind, Participants
<1> QED BY <1>1 DEF Exchange!Abort, CableTransfer

LEMMA IsLocal ==
    ASSUME TypeOK, TypeOK', NEW i \in Ports, UNCHANGED <<link, serialIf>>,
           \A p \in Ports : p # i => send'[p] = send[p] /\ receive'[p] = receive[p]
    PROVE  Exchange!Local(i)
<1>1. CableRegisters' = [CableRegisters EXCEPT ![i] = CableRegisters'[i]]
  BY DEF CableRegisters
<1>2. CableRegisters'[i] \in [send : Word, receive : [Ports -> Word]]
  BY DEF CableRegisters, TypeOK
<1>3. UNCHANGED CableTransfer
  BY SameFlight
<1> QED BY <1>1, <1>2, <1>3 DEF Exchange!Local, Exchange!Word, Word, CableRegisters, CableTransfer

LEMMA IsAcknowledge ==
    ASSUME NEW i \in Ports, UNCHANGED <<send, receive, link>>, serialIf' = serialIf \ {i}
    PROVE  Exchange!Acknowledge(i)
<1>1. UNCHANGED CableTransfer
  BY SameFlight
<1> QED BY <1>1 DEF Exchange!Acknowledge, CableTransfer

(* start() of a ring: every word latched, every receive word blanked. *)
LEMMA IsBeginRing ==
    ASSUME NEW ctl, link' = MultiTransfer(ctl), UNCHANGED <<send, serialIf>>,
           receive' = [p \in Ports |-> [s \in Ports |-> AllOnes]]
    PROVE  Exchange!BeginRing
<1>1. CableTransfer' = [kind |-> "ring", who |-> Ports,
                   data |-> [p \in Ports |-> <<send[p], AllOnes>>]]
  <2>1. ExchangeKind' = "ring" /\ Participants' = Ports
    BY DEF ExchangeKind, Participants, MultiTransfer
  <2>2. [p \in Ports |-> link'.data[p]] = [p \in Ports |-> <<send[p], AllOnes>>]
    BY DEF MultiTransfer
  <2> QED BY <2>1, <2>2 DEF CableTransfer
<1>2. CableRegisters' = [p \in Ports |-> [send |-> CableRegisters[p].send,
                                     receive |-> [s \in Ports |-> AllOnes]]]
  BY DEF CableRegisters
<1>3. \A p \in Ports : CableRegisters[p].send = send[p]
  BY DEF CableRegisters
<1> QED BY <1>1, <1>2, <1>3
  DEF Exchange!BeginRing, Exchange!AllOnes, AllOnes, CableRegisters, CableTransfer

(* start_normal() of a chain: the armed ports' data as they stand. *)
LEMMA IsBeginChain ==
    ASSUME TypeOK, NEW ctl \in [Ports -> Control], ctl[0].mode \in Widths,
           0 \in NormalTransfer(ctl).mask,
           link' = NormalTransfer(ctl), UNCHANGED <<send, receive, serialIf>>
    PROVE  \E kind \in {"byte", "long"} : Exchange!BeginChain(kind)
<1> DEFINE width == ctl[0].mode
           kind == IF width = "n8" THEN "byte" ELSE "long"
           who == NormalTransfer(ctl).mask
           given == [p \in who |-> IF kind = "byte"
                                   THEN <<[AllOnes EXCEPT !.lo = CableRegisters[p].send.lo], AllOnes>>
                                   ELSE <<CableRegisters[p].receive[0], CableRegisters[p].receive[1]>>]
<1>1. who \in SUBSET Ports /\ 0 \in who
  BY NormalTransferType DEF Transfer
<1>2. \A p \in who : NormalTransfer(ctl).data[p] = Offered(p, width)
  BY DEF NormalTransfer
<1>3. ExchangeKind' = kind /\ Participants' = who
  <2>1. link'.kind = width /\ width \in {"n8", "n32"} /\ link'.mask = who
    BY NormalTransferType
  <2> HIDE DEF width, who
  <2>2. CASE width = "n8"
    BY <2>1, <2>2 DEF ExchangeKind, Participants
  <2>3. CASE width = "n32"
    BY <2>1, <2>3 DEF ExchangeKind, Participants
  <2> QED BY <2>1, <2>2, <2>3
<1>4. ASSUME NEW p \in who
      PROVE  Offered(p, width) = given[p]
  <2>1. p \in Ports
    BY <1>1
  <2>2. CableRegisters[p].send = send[p] /\ CableRegisters[p].receive = receive[p]
    BY <2>1 DEF CableRegisters
  <2> QED BY <2>2 DEF Offered
<1>5. [p \in who |-> link'.data[p]] = given
  BY <1>2, <1>4
<1>6. CableTransfer' = [kind |-> kind, who |-> who, data |-> given]
  BY <1>3, <1>5 DEF CableTransfer
<1>7. kind \in {"byte", "long"} /\ who \in (SUBSET Ports) \ {{}}
  BY <1>1
<1>8. Exchange!BeginChain(kind)
  <2> HIDE DEF who, kind
  <2> QED BY <1>6, <1>7
    DEF Exchange!BeginChain, Exchange!LowByte, Exchange!AllOnes, AllOnes, CableRegisters, CableTransfer
<1> QED BY <1>7, <1>8

(* complete_if_ready(): everybody's share at once. *)
LEMMA IsDeliver ==
    ASSUME HubInv, Active, Complete
    PROVE  Exchange!Deliver
<1>0. link.kind \in {"multi", "n8", "n32"} /\ link.mask \subseteq Ports
  <2>1. link \in Transfer
    BY DEF HubInv, TypeOK
  <2>2. link.mask \in SUBSET Ports /\ link.kind \in Kinds
    BY <2>1 DEF Transfer
  <2>3. link.kind # "none"
    BY DEF Active
  <2> QED BY <2>2, <2>3
<1>1. CableTransfer # Exchange!Idle
  BY <1>0 DEF CableTransfer, Exchange!Idle, ExchangeKind
<1>2. CableTransfer' = Exchange!Idle
  BY DEF CableTransfer, Exchange!Idle, NoTransfer, ExchangeKind, Participants, Complete
<1>3. Participants = IF link.kind = "multi" THEN Ports ELSE link.mask
  BY <1>0 DEF Participants
<1>4. serialIf \subseteq serialIf' /\ serialIf' \subseteq serialIf \cup Participants
  BY <1>3 DEF Complete
<1>5. ASSUME NEW p \in Ports
      PROVE  Exchange!Below(p) = Shifted(p) \/ link.kind = "multi"
  <2>1. CASE link.kind # "multi"
    <3>1. Participants = link.mask
      BY <1>3, <2>1
    <3>2. p - 1 \in link.mask => p > 0 /\ [q \in link.mask |-> link.data[q]][p - 1] = link.data[p - 1]
      <4>1. p \in Int /\ link.mask \subseteq 0 .. PortCount - 1
        BY <1>0, PortCountAssumption
      <4> QED BY <4>1, PortCountAssumption
    <3>3. Exchange!Below(p) = IF p - 1 \in link.mask THEN [q \in link.mask |-> link.data[q]][p - 1]
                                                     ELSE <<AllOnes, AllOnes>>
      BY <3>1 DEF Exchange!Below, Exchange!AllOnes, AllOnes
    <3> QED BY <3>2, <3>3 DEF Shifted
  <2> QED BY <2>1
<1>6. ASSUME NEW p \in Ports
      PROVE  CableRegisters'[p] = IF p \in Participants THEN Exchange!Given(p) ELSE CableRegisters[p]
  <2>1. CASE link.kind = "multi"
    BY <1>3, <2>1 DEF Complete, CableRegisters, Exchange!Given, ExchangeKind
  <2>2. CASE link.kind = "n8"
    BY <1>3, <1>5, <2>2 DEF Complete, CableRegisters, Exchange!Given, ExchangeKind, Exchange!LowByte
  <2>3. CASE link.kind = "n32"
    BY <1>3, <1>5, <2>3 DEF Complete, CableRegisters, Exchange!Given, ExchangeKind
  <2> QED BY <1>0, <2>1, <2>2, <2>3
<1>7. CableRegisters' = [p \in Ports |-> IF p \in Participants THEN Exchange!Given(p)
                                                              ELSE CableRegisters[p]]
  BY <1>6 DEF CableRegisters
<1> QED BY <1>1, <1>2, <1>4, <1>7 DEF Exchange!Deliver, CableRegisters, CableTransfer

(* A write of SIOCNT starts an exchange, drops one or leaves it alone. *)
LEMMA WriteControlRefines ==
    ASSUME HubInv, NEW i \in connected, NEW value \in Control, NEW half \in Halves,
           WriteControl(i, value, half)
    PROVE  [Exchange!Next]_(Exchange!vars)
<1> DEFINE reg   == Merged(control[i], value, half)
           drop  == Interrupts(i, reg)
           base  == IF drop THEN NoTransfer ELSE link
           rest  == IF drop THEN Disarmed ELSE control
           whole == [rest EXCEPT ![i] = reg]
           multi == [rest EXCEPT ![i] = [reg EXCEPT !.busy = FALSE]]
           start == half # "high" /\ value.busy
<1>a. TypeOK /\ i \in Ports /\ control[i] \in Control
  BY DEF HubInv, TypeOK
<1>b. reg \in Control /\ (start => reg.busy)
  BY <1>a, MergedType DEF Merged
<1>c. rest \in [Ports -> Control] /\ whole[i] = reg /\ whole \in [Ports -> Control]
  BY <1>a, <1>b, DisarmedType DEF TypeOK
<1>d. UNCHANGED <<cycle, rcnt, send, connected, serialIf>>
  BY DEF WriteControl
<1>e. base.kind # "none" => base = link
  BY DEF NoTransfer
<1>1. CASE link' = base /\ UNCHANGED receive
  <2>1. link' = link \/ link' = NoTransfer
    BY <1>1
  <2> QED BY <1>1, <1>d, <2>1, IsAbort, IsStutter DEF Exchange!Next
<1>2. CASE /\ InNormal(rcnt[i], reg) /\ UNCHANGED receive
           /\ start /\ reg.internal
           /\ StartNormal(i, whole, base)
  <2>1. CASE link' = base
    BY <1>1, <1>2, <2>1
  <2>2. CASE Synchronized /\ i = 0 /\ link' = NormalTransfer(whole)
    <3>1. InNormal(rcnt[0], whole[0]) /\ whole[0].busy /\ whole[0].mode \in Widths
      BY <1>2, <1>b, <1>c, <2>2 DEF InNormal
    <3>2. 0 \in NormalTransfer(whole).mask
      BY <1>a, <1>c, <2>2, <3>1, PortZero, NormalTransferType DEF InNormal
    <3>3. \E kind \in {"byte", "long"} : Exchange!BeginChain(kind)
      <4> HIDE DEF whole
      <4> QED BY <1>2, <1>a, <1>c, <1>d, <2>2, <3>1, <3>2, IsBeginChain
    <3> QED BY <3>3 DEF Exchange!Next
  \* dead code: see NoClockConflict
  <2>3. CASE /\ i = 0 /\ base.kind # "none"
             /\ ~(base.kind \in Widths /\ 0 \in base.mask)
    <3>1. base = link /\ ~drop
      BY <1>e, <2>3 DEF NoTransfer
    <3>2. link.kind = "multi"
      <4>1. link.kind \in Kinds /\ DriverArmed
        BY <1>a DEF HubInv, TypeOK, Transfer
      <4> QED BY <2>3, <3>1, <4>1 DEF DriverArmed
    <3>3. Multiplayer(0)
      BY <3>2, PortZero DEF HubInv, LoadAccepts, RingIsWhole
    <3>4. reg.mode = control[0].mode
      BY <2>3, <3>1 DEF Interrupts
    <3> QED BY <1>2, <2>3, <3>3, <3>4 DEF Multiplayer, InMultiplayer, InNormal
  <2> HIDE DEF reg, base, whole, start, drop
  <2> QED BY <1>2, <2>1, <2>2, <2>3 DEF StartNormal
<1>3. CASE StartMulti(multi, base)
  <2>1. CASE /\ link' = MultiTransfer(multi)
             /\ receive' = [p \in Ports |-> [s \in Ports |-> AllOnes]]
    <3>1. Exchange!BeginRing
      <4> HIDE DEF multi
      <4> QED BY <1>d, <2>1, IsBeginRing
    <3> QED BY <3>1 DEF Exchange!Next
  <2> HIDE DEF reg, base, multi, start, drop
  <2> QED BY <1>1, <1>3, <2>1 DEF StartMulti
<1>4. \/ /\ InNormal(rcnt[i], reg) /\ UNCHANGED receive
         /\ IF start /\ reg.internal THEN StartNormal(i, whole, base)
                                     ELSE link' = base /\ UNCHANGED fault
      \/ link' = base /\ UNCHANGED receive
      \/ StartMulti(multi, base)
  BY Zenon DEF WriteControl
<1> HIDE DEF base, rest, whole, multi, start, reg, drop
<1> QED BY <1>1, <1>2, <1>3, <1>4

(* What the owner of the hub does is a step of CableExchange, or none. *)
LEMMA OwnerRefines ==
    ASSUME HubInv, HubInv', [Next]_hubVars
    PROVE  [Exchange!Next]_(Exchange!vars)
<1> USE DEF Exchange!Next
<1>0. TypeOK /\ TypeOK'
  BY DEF HubInv
<1>1. ASSUME NEW i \in connected, NEW v \in Control \X Halves, WriteControl(i, v[1], v[2])
      PROVE  [Exchange!Next]_(Exchange!vars)
  BY <1>1, WriteControlRefines
<1>2. ASSUME NEW i \in Ports, NEW mode \in RcntModes, WriteRcnt(i, mode)
      PROVE  [Exchange!Next]_(Exchange!vars)
  BY <1>2, IsAbort, IsStutter DEF WriteRcnt
<1>3. ASSUME NEW i \in Ports, NEW word \in Word, WriteSend(i, word)
      PROVE  [Exchange!Next]_(Exchange!vars)
  <2>1. Exchange!Local(i)
    BY <1>0, <1>3, IsLocal DEF WriteSend, TypeOK
  <2> QED BY <2>1
<1>4. ASSUME NEW i \in Ports, NEW slot \in {0, 1}, NEW word \in Word, WriteData(i, slot, word)
      PROVE  [Exchange!Next]_(Exchange!vars)
  <2>1. Exchange!Local(i)
    BY <1>0, <1>4, IsLocal DEF WriteData, TypeOK
  <2> QED BY <2>1
<1>5. ASSUME NEW i \in Ports, AcknowledgeIrq(i)
      PROVE  [Exchange!Next]_(Exchange!vars)
  BY <1>5, IsAcknowledge DEF AcknowledgeIrq
<1>6. ASSUME NEW i \in Ports, Plug(i)
      PROVE  [Exchange!Next]_(Exchange!vars)
  BY <1>6, IsAbort DEF Plug
<1>7. ASSUME NEW i \in Ports, NEW n \in Nat \ {0}, Tick(i, n)
      PROVE  [Exchange!Next]_(Exchange!vars)
  <2>1. (Active /\ Complete) \/ UNCHANGED <<send, receive, serialIf, link>>
    BY <1>7 DEF Tick
  <2> QED BY <2>1, IsDeliver, IsStutter
<1>8. CASE UNCHANGED hubVars
  BY <1>8, IsStutter DEF hubVars
<1>9. ASSUME NEW i \in Ports, Write(i, Control \X Halves, RcntModes, Word)
      PROVE  [Exchange!Next]_(Exchange!vars)
  <2>1. i \in connected
    BY <1>9 DEF Write
  <2> HIDE DEF Exchange!Next
  <2> QED BY <1>1, <1>2, <1>3, <1>4, <1>5, <1>9, <2>1 DEF Write
<1> HIDE DEF Exchange!Next
<1> QED BY <1>6, <1>7, <1>8, <1>9 DEF Next

LEMMA HubStartsExchange ==
    ASSUME Init
    PROVE  Exchange!Init
<1>1. CableTransfer = Exchange!Idle
  BY DEF Init, CableTransfer, Exchange!Idle, NoTransfer, ExchangeKind, Participants
<1>2. CableRegisters = [p \in Ports |-> [send |-> AllOnes, receive |-> [s \in Ports |-> AllOnes]]]
  BY DEF Init, CableRegisters
<1> QED BY <1>1, <1>2 DEF Init, Exchange!Init, CableTransfer, CableRegisters, Exchange!AllOnes, AllOnes

(* The hub implements CableExchange: for any number of ports, any durations and
   any traffic of registers, ticks and plugs, data moves between machines only
   in whole exchanges of what was latched when they began (complete_if_ready(),
   cancel()). *)
THEOREM HubImplementsExchange == Spec => ExchangesData
<1>1. Init => Exchange!Init
  BY HubStartsExchange
<1>2. HubInv /\ HubInv' /\ [Next]_hubVars => [Exchange!Next]_(Exchange!vars)
  BY OwnerRefines
<1> QED BY <1>1, <1>2, HubInvariant, PTL DEF Spec, Exchange!Spec, ExchangesData

-----------------------------------------------------------------------------
(* The scheduler of the session, which drives the hub.                       *)

(* How far the devices of each machine have been ticked: to the session clock
   between two passes, and one machine after the other during a pass. *)
Ticked(p) == /\ phase \in {"devices", "display"}
             /\ p < turn \/ (phase = "display" /\ p = turn)

ClocksFollow ==
    /\ \A p \in Ports : cycle[p] = IF Ticked(p) THEN clock + delta ELSE clock
    /\ phase = "display" => turn \in Ports

(* Where the pass under way will leave the session clock. *)
Horizon == IF phase \in {"devices", "display"} THEN clock + delta ELSE clock

PassIsShort ==
    /\ phase \in {"devices", "display"} => delta > 0
    /\ phase # "idle" => Horizon <= target
    /\ Active => Horizon <= link.finish
    /\ \A p \in Ports \ halted : Horizon <= timing[p]

BatchesAreShort ==
    \A p \in Ports : began[p] < clock + Lookahead /\ (Active => began[p] < link.finish)

SessionInv ==
    /\ HubInv /\ SessionTypeOK
    /\ ClocksFollow /\ PassIsShort /\ BatchesAreShort
    /\ NeverCrosses /\ CpuStartsAtRendezvous

-----------------------------------------------------------------------------
(* What one register write can do to the transfer and to the clocks. *)

Begun(l) == Synchronized /\ l.finish \in Nat /\ cycle[0] + Lookahead < l.finish

LEMMA NormalIsLong ==
    ASSUME TypeOK, Synchronized, NEW ctl \in [Ports -> Control], ctl[0].mode \in Widths
    PROVE  Begun(NormalTransfer(ctl))
<1>1. ctl[0].fast \in BOOLEAN /\ cycle[0] \in Nat
  BY PortZero DEF TypeOK, Control
<1>2. Lookahead < NormalCycles[ctl[0].mode][ctl[0].fast] /\ Lookahead \in Nat
  BY <1>1, LookaheadAssumption
<1>3. /\ NormalTransfer(ctl).finish = cycle[0] + NormalCycles[ctl[0].mode][ctl[0].fast]
      /\ NormalCycles[ctl[0].mode][ctl[0].fast] \in Nat
  BY NormalTransferType
<1> QED BY <1>1, <1>2, <1>3 DEF Begun

LEMMA MultiIsLong ==
    ASSUME TypeOK, Synchronized, NEW ctl \in [Ports -> Control]
    PROVE  Begun(MultiTransfer(ctl))
<1>1. ctl[0].fast \in BOOLEAN /\ ctl[0].internal \in BOOLEAN /\ cycle[0] \in Nat
  BY PortZero DEF TypeOK, Control
<1>2. Lookahead < MultiCycles[ctl[0].fast][ctl[0].internal] /\ Lookahead \in Nat
  BY <1>1, LookaheadAssumption
<1>3. MultiCycles[ctl[0].fast][ctl[0].internal] \in Nat
  BY <1>1, MultiCyclesAssumption
<1> QED BY <1>1, <1>2, <1>3 DEF Begun, MultiTransfer

(* A write keeps every clock; a transfer in flight after it is the one before
   it, or one that just began at a rendezvous; and it misses the rendezvous
   only if there is none. *)
WriteEffect ==
    /\ UNCHANGED cycle
    /\ Active' => (Active /\ link'.finish = link.finish) \/ Begun(link')
    /\ Synchronized => fault' \in {fault, "uart", "conflict"}
    /\ fault' \in {fault, "uart", "conflict", "rendezvous"}

LEMMA ControlEffect ==
    ASSUME HubInv, NEW i \in Ports, NEW value \in Control, NEW half \in Halves,
           WriteControl(i, value, half)
    PROVE  WriteEffect
<1> DEFINE reg   == Merged(control[i], value, half)
           base  == IF Interrupts(i, reg) THEN NoTransfer ELSE link
           rest  == IF Interrupts(i, reg) THEN Disarmed ELSE control
           whole == [rest EXCEPT ![i] = reg]
           multi == [rest EXCEPT ![i] = [reg EXCEPT !.busy = FALSE]]
<1>1. reg \in Control /\ [reg EXCEPT !.busy = FALSE] \in Control
  <2>1. reg \in Control
    BY MergedType DEF HubInv, TypeOK
  <2> HIDE DEF reg
  <2> QED BY <2>1 DEF Control
<1>2. whole \in [Ports -> Control] /\ multi \in [Ports -> Control] /\ whole[i] = reg
  BY <1>1, DisarmedType DEF HubInv, TypeOK
<1>3. base.kind # "none" => Active /\ base.finish = link.finish
  BY DEF NoTransfer, Active
<1>4. \/ /\ link' = base
         /\ fault' \in {fault, "uart", "conflict"} \/ (~Synchronized /\ fault' = "rendezvous")
      \/ /\ link'.kind = base.kind /\ link'.finish = base.finish
         /\ UNCHANGED fault
      \/ /\ Synchronized /\ UNCHANGED fault
         /\ link' = NormalTransfer(whole) /\ whole[0].mode \in Widths
      \/ Synchronized /\ UNCHANGED fault /\ link' = MultiTransfer(multi)
  <2>1. CASE InNormal(rcnt[i], reg) /\ StartNormal(i, whole, base)
    <3>1. CASE /\ Synchronized /\ i = 0
               /\ link' = NormalTransfer(whole) /\ UNCHANGED fault
      BY <2>1, <1>2, <3>1 DEF InNormal
    <3>2. CASE /\ link' \in {base, [base EXCEPT !.mask = @ \cup {0}]}
               /\ fault' \in {fault, "conflict"} /\ (link' = base \/ UNCHANGED fault)
      <4>1. base \in Transfer
        BY NoTransferType DEF HubInv, TypeOK
      <4> HIDE DEF base
      <4> QED BY <3>2, <4>1 DEF Transfer
    <3> HIDE DEF whole, base
    <3> QED BY <2>1, <3>1, <3>2 DEF StartNormal
  <2>2. CASE link' = base /\ fault' \in {fault, "uart"}
    BY <2>2
  <2>3. CASE link' = base /\ ~Synchronized /\ fault' = "rendezvous"
    BY <2>3
  <2>4. CASE Synchronized /\ StartMulti(multi, base) /\ UNCHANGED fault
    BY <2>4 DEF StartMulti
  <2>5. \/ InNormal(rcnt[i], reg) /\ StartNormal(i, whole, base)
        \/ link' = base /\ UNCHANGED fault
        \/ link' = base /\ (fault' = "uart" \/ UNCHANGED fault)
        \/ link' = base /\ ~Synchronized /\ fault' = "rendezvous"
        \/ Synchronized /\ StartMulti(multi, base) /\ UNCHANGED fault
    BY Zenon DEF WriteControl
  <2> HIDE DEF whole, base, multi, rest, reg
  <2> QED BY <2>1, <2>2, <2>3, <2>4, <2>5
<1>5. UNCHANGED cycle
  BY DEF WriteControl
<1> HIDE DEF whole, base, multi, rest, reg
<1>6. Active' => (Active /\ link'.finish = link.finish) \/ Begun(link')
  BY <1>2, <1>3, <1>4, NormalIsLong, MultiIsLong DEF HubInv, Active
<1> QED BY <1>4, <1>5, <1>6 DEF WriteEffect

LEMMA WriteHasEffect ==
    ASSUME HubInv, NEW i \in Ports,
           Write(i, Registers.values, Registers.modes, Registers.words)
    PROVE  WriteEffect
<1>1. ASSUME NEW v \in Registers.values, WriteControl(i, v[1], v[2]) PROVE WriteEffect
  BY <1>1, ControlEffect, RegistersAssumption
<1>2. ASSUME NEW mode \in Registers.modes, WriteRcnt(i, mode) PROVE WriteEffect
  BY <1>2 DEF WriteRcnt, WriteEffect, Active, NoTransfer
<1>3. ASSUME NEW word \in Registers.words, WriteSend(i, word) PROVE WriteEffect
  BY <1>3 DEF WriteSend, WriteEffect, Active
<1>4. ASSUME NEW slot \in {0, 1}, NEW word \in Registers.words, WriteData(i, slot, word)
      PROVE  WriteEffect
  BY <1>4 DEF WriteData, WriteEffect, Active
<1>5. ASSUME AcknowledgeIrq(i) PROVE WriteEffect
  BY <1>5 DEF AcknowledgeIrq, WriteEffect, Active
<1> QED BY <1>1, <1>2, <1>3, <1>4, <1>5 DEF Write

LEMMA RegistersKeepHub ==
    ASSUME HubInv, NEW i \in Ports,
           Write(i, Registers.values, Registers.modes, Registers.words)
    PROVE  HubInv'
BY WriteStep, RegistersAssumption

-----------------------------------------------------------------------------
(* One lemma per step of the scheduler. *)

LEMMA SessionInvInit == SessionInit => SessionInv
<1> SUFFICES ASSUME SessionInit PROVE SessionInv
  OBVIOUS
<1>1. HubInv
  BY HubInvInit DEF SessionInit
<1>2. SessionTypeOK
  BY <1>1, PortCountAssumption DEF HubInv, SessionInit, SessionTypeOK
<1>3. ~Active
  BY DEF SessionInit, Init, Active, NoTransfer
<1> QED
  BY <1>1, <1>2, <1>3, LookaheadAssumption
  DEF SessionInv, SessionInit, Init, ClocksFollow, Ticked, PassIsShort, Horizon,
      BatchesAreShort, NeverCrosses, CpuStartsAtRendezvous

LEMMA HubUnchanged ==
    ASSUME HubInv, UNCHANGED hubVars
    PROVE  HubInv' /\ (Active' <=> Active)
BY DEF hubVars, HubInv, TypeOK, LoadAccepts, DriverArmed, NoClockConflict,
   ClocksWithinTransfer, RingIsWhole, ArmedPortsHold, Active, Multiplayer

(* In the CPU pass every machine is at the session clock. *)
LEMMA Rendezvous ==
    ASSUME SessionInv, phase \in {"idle", "cpu"}
    PROVE  /\ Synchronized /\ \A p \in Ports : cycle[p] = clock
           /\ Active => clock < link.finish
<1>1. \A p \in Ports : cycle[p] = clock
  BY DEF SessionInv, ClocksFollow, Ticked
<1>2. Active => /\ link.finish \in Nat
                /\ \A p \in Ports : cycle[p] <= link.finish
                /\ \E p \in Ports : cycle[p] # link.finish
  BY DEF SessionInv, HubInv, TypeOK, Transfer, LoadAccepts, ClocksWithinTransfer
<1> QED BY <1>1, <1>2, PortZero DEF Synchronized, SessionInv, SessionTypeOK

LEMMA RunFrameStep ==
    ASSUME SessionInv, RunFrame
    PROVE  SessionInv'
<1>1. HubInv' /\ (Active' <=> Active) /\ UNCHANGED <<link, cycle, fault>>
  BY HubUnchanged DEF SessionInv, RunFrame, hubVars
<1>2. SessionTypeOK'
  BY <1>1, TimingAssumption, PortCountAssumption
  DEF SessionInv, SessionTypeOK, RunFrame, HubInv, cpuVars
<1>3. clock \in Nat /\ target' \in Nat /\ clock <= target'
  BY TimingAssumption DEF SessionInv, SessionTypeOK, RunFrame
<1> QED
  BY <1>1, <1>2, <1>3
  DEF SessionInv, RunFrame, cpuVars, ClocksFollow, Ticked, PassIsShort, Horizon,
      BatchesAreShort, NeverCrosses, CpuStartsAtRendezvous

(* What the steps of the CPU pass have in common: the clocks stay, and the
   machine whose turn it is moves its CPU, if at all, to the session clock or
   later. *)
LEMMA CpuPass ==
    ASSUME SessionInv, NEW i \in Ports, CpuTurn(i), NextTurn, HubInv',
           UNCHANGED cycle, fault' # "crossed", fault' # "rendezvous",
           Active' => \A p \in Ports : clock <= link'.finish /\ began'[p] < link'.finish,
           timing' \in [Ports -> Nat], began' \in [Ports -> Nat],
           halted' \subseteq Ports, displayIf' \subseteq Ports,
           \A p \in Ports : began'[p] < clock + Lookahead,
           \A p \in Ports \ halted' : clock <= timing'[p]
    PROVE  SessionInv'
<1>1. SessionTypeOK'
  BY SMTT(30), PortCountAssumption DEF SessionInv, SessionTypeOK, NextTurn, CpuTurn, HubInv
<1> QED
  BY <1>1
  DEF SessionInv, NextTurn, CpuTurn, ClocksFollow, Ticked, PassIsShort, Horizon,
      BatchesAreShort, NeverCrosses, CpuStartsAtRendezvous, Running

LEMMA CpuStays ==
    ASSUME SessionInv, phase = "cpu", UNCHANGED hubVars, Running
    PROVE  /\ HubInv' /\ UNCHANGED <<cycle, link>> /\ (Active' <=> Active)
           /\ fault' # "crossed" /\ fault' # "rendezvous"
           /\ clock \in Nat /\ timing \in [Ports -> Nat] /\ began \in [Ports -> Nat]
           /\ Active => \A p \in Ports : clock < link.finish /\ began[p] < link.finish
           /\ \A p \in Ports : began[p] < clock + Lookahead
           /\ \A p \in Ports \ halted : clock <= timing[p]
           /\ halted \subseteq Ports /\ displayIf \subseteq Ports
BY HubUnchanged, Rendezvous
DEF SessionInv, SessionTypeOK, hubVars, Running, PassIsShort, Horizon, BatchesAreShort

LEMMA SkipStep ==
    ASSUME SessionInv, NEW i \in Ports, Skip(i)
    PROVE  SessionInv'
<1>1. /\ CpuTurn(i) /\ NextTurn /\ phase = "cpu" /\ Running
      /\ UNCHANGED hubVars /\ UNCHANGED <<timing, halted, displayIf, began>>
  BY DEF Skip, CpuTurn, cpuVars
<1>2. clock \in Nat /\ (Active => link.finish \in Nat)
  BY DEF SessionInv, SessionTypeOK, HubInv, TypeOK, Transfer
<1> QED BY <1>1, <1>2, CpuStays, CpuPass

LEMMA WakeStep ==
    ASSUME SessionInv, NEW i \in Ports, Wake(i)
    PROVE  SessionInv'
<1>1. /\ CpuTurn(i) /\ NextTurn /\ phase = "cpu" /\ Running
      /\ UNCHANGED hubVars /\ UNCHANGED <<displayIf, began>>
      /\ halted' = halted \ {i}
      /\ timing' = [timing EXCEPT ![i] = clock + WakeLatency]
  BY DEF Wake, CpuTurn
<1>2. clock \in Nat /\ (Active => link.finish \in Nat) /\ WakeLatency \in Nat
  BY TimingAssumption DEF SessionInv, SessionTypeOK, HubInv, TypeOK, Transfer
<1>3. timing' \in [Ports -> Nat] /\ \A p \in Ports \ halted' : clock <= timing'[p]
  BY <1>1, <1>2, CpuStays
<1> QED BY <1>1, <1>2, <1>3, CpuStays, CpuPass

(* A CPU that executes begins its last instruction before everything that is
   known to happen, and never before the session clock. *)
LEMMA TakesStep ==
    ASSUME SessionInv, phase = "cpu", NEW i \in Ports, NEW start \in Nat, NEW cost \in Costs,
           Takes(i, start, cost), clock <= start
    PROVE  /\ timing' \in [Ports -> Nat] /\ began' \in [Ports -> Nat]
           /\ timing'[i] >= clock /\ began'[i] = start
           /\ \A p \in Ports \ {i} : timing'[p] = timing[p] /\ began'[p] = began[p]
BY TimingAssumption DEF SessionInv, SessionTypeOK, Takes

LEMMA ComputeStep ==
    ASSUME SessionInv, NEW i \in Ports, Compute(i)
    PROVE  SessionInv'
<1>1. /\ CpuTurn(i) /\ NextTurn /\ phase = "cpu" /\ Running
      /\ UNCHANGED hubVars /\ UNCHANGED <<displayIf, halted>>
  BY DEF Compute, Ready, CpuTurn
<1>2. clock \in Nat /\ (Active => link.finish \in Nat) /\ Lookahead \in Nat \ {0}
  BY LookaheadAssumption DEF SessionInv, SessionTypeOK, HubInv, TypeOK, Transfer
<1>3. PICK cost \in Costs, start \in clock .. target :
         /\ start = clock \/ BeforeDeadline(start)
         /\ Takes(i, start, cost)
  BY DEF Compute
<1>4. start < clock + Lookahead /\ (Active => start < link.finish)
  <2>1. CASE start = clock
    BY <1>1, <1>2, <2>1, CpuStays
  <2>2. CASE BeforeDeadline(start)
    <3>1. ASSUME Active PROVE start < clock + UntilSerial(i)
      BY <2>2, <3>1 DEF BeforeDeadline, DeviceEvents
    <3>2. cycle[i] = clock
      BY <1>1, Rendezvous
    <3> QED BY <1>2, <2>2, <3>1, <3>2 DEF BeforeDeadline, UntilSerial
  <2> QED BY <1>3, <2>1, <2>2
<1>5. /\ timing' \in [Ports -> Nat] /\ began' \in [Ports -> Nat]
      /\ timing'[i] >= clock /\ began'[i] = start
      /\ \A p \in Ports \ {i} : timing'[p] = timing[p] /\ began'[p] = began[p]
  <2>1. start \in Nat /\ clock <= start
    BY <1>2
  <2> QED BY <1>1, <1>3, <2>1, TakesStep
<1> QED BY SMTT(30), <1>1, <1>2, <1>4, <1>5, CpuStays, CpuPass

(* An instruction at the session clock. *)
LEMMA InstructionStep ==
    ASSUME SessionInv, NEW i \in Ports, Ready(i), NextTurn, HubInv',
           \E cost \in Costs \ {0} : Takes(i, clock, cost),
           UNCHANGED cycle, fault' # "crossed", fault' # "rendezvous",
           Active' => (Active /\ link'.finish = link.finish) \/ Begun(link'),
           halted' \in {halted, halted \cup {i}},
           displayIf' \in {displayIf, displayIf \ {i}}
    PROVE  SessionInv'
<1>1. CpuTurn(i) /\ phase = "cpu"
  BY DEF Ready, CpuTurn
<1>2. clock \in Nat /\ (Active => link.finish \in Nat) /\ Lookahead \in Nat \ {0}
  BY LookaheadAssumption DEF SessionInv, SessionTypeOK, HubInv, TypeOK, Transfer
<1>3. /\ timing' \in [Ports -> Nat] /\ began' \in [Ports -> Nat]
      /\ timing'[i] >= clock /\ began'[i] = clock
      /\ \A p \in Ports \ {i} : timing'[p] = timing[p] /\ began'[p] = began[p]
  BY <1>1, <1>2, TakesStep
<1>4. /\ \A p \in Ports : cycle[p] = clock
      /\ Active => clock < link.finish
  BY <1>1, Rendezvous
<1>5. /\ \A p \in Ports : began[p] \in Nat /\ began[p] < clock + Lookahead
      /\ Active => \A p \in Ports : began[p] < link.finish
      /\ \A p \in Ports \ halted : clock <= timing[p]
      /\ halted \subseteq Ports /\ displayIf \subseteq Ports
  BY <1>1 DEF SessionInv, SessionTypeOK, BatchesAreShort, PassIsShort, Horizon
<1>6. \A p \in Ports : began'[p] < clock + Lookahead
  BY <1>2, <1>3, <1>5
<1>7. Active' => \A p \in Ports : clock <= link'.finish /\ began'[p] < link'.finish
  <2>1. CASE Active /\ link'.finish = link.finish
    BY <1>2, <1>3, <1>4, <1>5, <2>1
  <2>2. CASE Begun(link')
    <3>1. link'.finish \in Nat /\ clock + Lookahead < link'.finish
      BY <1>4, <2>2, PortZero DEF Begun
    <3> QED BY <1>2, <1>3, <1>6, <3>1
  <2> QED BY <2>1, <2>2
<1>8. \A p \in Ports \ halted' : clock <= timing'[p]
  BY <1>2, <1>3, <1>5
<1> QED BY <1>1, <1>3, <1>5, <1>6, <1>7, <1>8, CpuPass

LEMMA WriteSerialStep ==
    ASSUME SessionInv, NEW i \in Ports, WriteSerial(i)
    PROVE  SessionInv'
<1>1. /\ Ready(i) /\ NextTurn /\ phase = "cpu" /\ Running
      /\ Write(i, Registers.values, Registers.modes, Registers.words)
      /\ \E cost \in Costs \ {0} : Takes(i, clock, cost)
      /\ halted' = halted /\ displayIf' = displayIf
  BY DEF WriteSerial, Ready, CpuTurn
<1>2. HubInv' /\ WriteEffect /\ Synchronized
  BY <1>1, RegistersKeepHub, WriteHasEffect, Rendezvous DEF SessionInv
<1>3. fault' # "crossed" /\ fault' # "rendezvous"
  BY <1>1, <1>2 DEF WriteEffect, Running
<1> QED BY <1>1, <1>2, <1>3, InstructionStep DEF WriteEffect

LEMMA OtherInstructionStep ==
    ASSUME SessionInv, NEW i \in Ports, Halt(i) \/ AcknowledgeDisplay(i)
    PROVE  SessionInv'
<1>1. /\ Ready(i) /\ NextTurn /\ phase = "cpu" /\ Running
      /\ UNCHANGED hubVars
      /\ \E cost \in Costs \ {0} : Takes(i, clock, cost)
      /\ halted' \in {halted, halted \cup {i}}
      /\ displayIf' \in {displayIf, displayIf \ {i}}
  BY DEF Halt, AcknowledgeDisplay, Ready, CpuTurn
<1>2. /\ HubInv' /\ UNCHANGED <<cycle, link>> /\ (Active' <=> Active)
      /\ fault' # "crossed" /\ fault' # "rendezvous"
  BY <1>1, CpuStays
<1> QED BY <1>1, <1>2, InstructionStep

LEMMA DisplayAhead ==
    ASSUME NEW t \in Nat
    PROVE  UntilDisplay(t) \in Nat
<1>1. EventPeriod \in Nat \ {0}
  BY TimingAssumption
<1>2. t % EventPeriod \in 0 .. EventPeriod - 1
  BY <1>1
<1> QED BY <1>1, <1>2 DEF UntilDisplay

LEMMA ScheduleStep ==
    ASSUME SessionInv, Schedule
    PROVE  SessionInv'
<1>1. /\ Running /\ phase = "cpu" /\ turn' = 0
      /\ UNCHANGED hubVars /\ UNCHANGED <<clock, target>>
      /\ UNCHANGED <<timing, halted, displayIf, began>>
  BY DEF Schedule, cpuVars
<1>2. PICK next \in Instants :
         /\ \A instant \in Instants : next <= instant
         /\ \/ /\ next = clock
               /\ zeroPasses' = zeroPasses + 1
               /\ broken' = IF zeroPasses' > ZeroPassLimit THEN "stalled" ELSE broken
               /\ UNCHANGED <<phase, delta>>
            \/ /\ next < clock
               /\ zeroPasses' = 0 /\ broken' = "debt"
               /\ UNCHANGED <<phase, delta>>
            \/ /\ next > clock
               /\ zeroPasses' = 0 /\ delta' = next - clock /\ phase' = "devices"
               /\ UNCHANGED broken
  BY DEF Schedule
<1>3. /\ clock \in Nat /\ target \in Nat /\ clock <= target
      /\ \A p \in Ports : timing[p] \in Nat /\ began[p] \in Nat
      /\ \A p \in Ports \ halted : clock <= timing[p]
      /\ \A p \in Ports : cycle[p] = clock
      /\ Active => link.finish \in Nat /\ clock < link.finish
  BY <1>1, Rendezvous
  DEF SessionInv, SessionTypeOK, PassIsShort, Horizon, HubInv, TypeOK, Transfer
<1>4. \A instant \in Instants : instant \in Nat /\ clock <= instant
  BY <1>3, DisplayAhead DEF Instants, DeviceEvents, UntilSerial
<1>5. /\ HubInv' /\ UNCHANGED <<cycle, link, fault>> /\ (Active' <=> Active)
  BY <1>1, HubUnchanged DEF SessionInv, hubVars
<1>6. Active => next <= link.finish
  <2>1. Active => clock + UntilSerial(0) \in Instants
    BY PortZero DEF Instants, DeviceEvents
  <2>2. ASSUME Active PROVE next <= clock + UntilSerial(0)
    BY <1>2, <2>1, <2>2
  <2> QED BY <1>3, <2>2, PortZero DEF UntilSerial
<1>7. \A p \in Ports \ halted : next <= timing[p]
  BY <1>2 DEF Instants
<1>8. CASE next = clock
  <2>1. SessionTypeOK'
    BY <1>1, <1>2, <1>5, <1>8, PortCountAssumption
    DEF SessionInv, SessionTypeOK, Running, HubInv
  <2>2. UNCHANGED <<phase, delta>> /\ broken' \in {"none", "stalled"}
    BY <1>1, <1>2, <1>3, <1>8 DEF Running
  <2>3. ClocksFollow'
    BY <1>1, <1>3, <1>5, <2>2 DEF ClocksFollow, Ticked
  <2>4. PassIsShort' /\ BatchesAreShort'
    BY <1>1, <1>5, <2>2 DEF SessionInv, PassIsShort, Horizon, BatchesAreShort
  <2> QED
    BY <1>1, <1>5, <2>1, <2>2, <2>3, <2>4
    DEF SessionInv, NeverCrosses, CpuStartsAtRendezvous, Running
<1>9. CASE next > clock
  <2>0. target \in Instants
    BY DEF Instants
  <2>1. zeroPasses' = 0 /\ delta' = next - clock /\ phase' = "devices" /\ UNCHANGED broken
    BY <1>2, <1>3, <1>4, <1>9
  <2>2. delta' \in Nat /\ delta' > 0 /\ clock + delta' = next
    BY <1>3, <1>4, <1>9, <2>1
  <2>3. SessionTypeOK'
    BY <1>1, <1>5, <2>1, <2>2, PortCountAssumption
    DEF SessionInv, SessionTypeOK, HubInv
  <2>4. ClocksFollow'
    BY <1>1, <1>3, <1>5, <2>1 DEF ClocksFollow, Ticked
  <2>5. PassIsShort'
    BY <1>1, <1>2, <1>5, <1>6, <1>7, <2>0, <2>1, <2>2 DEF PassIsShort, Horizon
  <2> QED
    BY <1>1, <1>5, <2>1, <2>3, <2>4, <2>5
    DEF SessionInv, BatchesAreShort, NeverCrosses, CpuStartsAtRendezvous, Running
<1> QED BY <1>3, <1>4, <1>8, <1>9

-----------------------------------------------------------------------------
(* The device pass. *)

LEMMA TickDevicesStep ==
    ASSUME SessionInv, NEW i \in Ports, TickDevices(i)
    PROVE  SessionInv'
<1>1. /\ Running /\ phase = "devices" /\ turn = i /\ Tick(i, delta)
      /\ \/ phase' = "display" /\ UNCHANGED turn
         \/ turn' = turn + 1 /\ UNCHANGED phase
      /\ UNCHANGED <<timing, halted, displayIf, began>>
      /\ UNCHANGED <<clock, target, delta, zeroPasses, broken>>
  BY DEF TickDevices, cpuVars
<1>2. /\ delta \in Nat \ {0} /\ clock \in Nat
      /\ \A p \in Ports : cycle[p] = IF p < i THEN clock + delta ELSE clock
      /\ Active => link.finish \in Nat /\ clock + delta <= link.finish
  BY <1>1
  DEF SessionInv, SessionTypeOK, ClocksFollow, Ticked, PassIsShort, Horizon,
      HubInv, TypeOK, Transfer
<1>3. HubInv'
  BY <1>1, <1>2, TickStep DEF SessionInv
<1>4. ~(Active /\ cycle[i] + delta > link.finish)
  BY <1>2
<1>5. /\ cycle' = [cycle EXCEPT ![i] = @ + delta] /\ UNCHANGED fault
      /\ link' = link \/ link' = NoTransfer
  BY <1>1, <1>4 DEF Tick, Complete
<1>6. \A p \in Ports : cycle'[p] = IF p <= i THEN clock + delta ELSE clock
  BY <1>2, <1>5 DEF SessionInv, HubInv, TypeOK
<1>7. Active' => Active /\ link' = link
  BY <1>5 DEF Active, NoTransfer
<1>8. SessionTypeOK'
  BY SMTT(30), <1>1, <1>3, PortCountAssumption DEF SessionInv, SessionTypeOK, HubInv
<1>9. ClocksFollow'
  BY <1>1, <1>6, PortCountAssumption DEF ClocksFollow, Ticked
<1>10. PassIsShort' /\ BatchesAreShort'
  BY <1>1, <1>7 DEF SessionInv, PassIsShort, Horizon, BatchesAreShort
<1> QED
  BY <1>1, <1>3, <1>5, <1>8, <1>9, <1>10
  DEF SessionInv, NeverCrosses, CpuStartsAtRendezvous, Running

LEMMA DisplayEventStep ==
    ASSUME SessionInv, NEW i \in Ports, DisplayEvent(i)
    PROVE  SessionInv'
<1>1. /\ Running /\ phase = "display" /\ turn = i
      /\ phase' = "devices" /\ turn' = i + 1
      /\ UNCHANGED <<halted, began, clock, target, delta, zeroPasses, broken>>
  BY DEF DisplayEvent
<1>2. /\ delta \in Nat \ {0} /\ clock \in Nat /\ Lookahead \in Nat
      /\ \A p \in Ports : cycle[p] = IF p <= i THEN clock + delta ELSE clock
      /\ Active => link.finish \in Nat /\ clock + delta <= link.finish
      /\ \A p \in Ports : began[p] \in Nat /\ timing[p] \in Nat
      /\ \A p \in Ports : began[p] < clock + Lookahead
      /\ \A p \in Ports \ halted : clock + delta <= timing[p]
  BY <1>1, LookaheadAssumption
  DEF SessionInv, SessionTypeOK, ClocksFollow, Ticked, PassIsShort, Horizon,
      BatchesAreShort, HubInv, TypeOK, Transfer
<1>3. /\ HubInv' /\ UNCHANGED cycle /\ fault' # "crossed"
      /\ Active' => (Active /\ link'.finish = link.finish) \/ Begun(link')
  <2>1. CASE UNCHANGED hubVars
    BY <1>1, <2>1, HubUnchanged DEF SessionInv, hubVars, Running
  <2>2. CASE Write(i, Registers.values, Registers.modes, Registers.words)
    BY <1>1, <2>2, RegistersKeepHub, WriteHasEffect DEF SessionInv, WriteEffect, Running
  <2> QED BY <2>1, <2>2 DEF DisplayEvent
<1>4. /\ timing' \in [Ports -> Nat] /\ displayIf' \subseteq Ports
      /\ \A p \in Ports : timing[p] <= timing'[p]
  <2>1. timing \in [Ports -> Nat] /\ displayIf \subseteq Ports
    BY DEF SessionInv, SessionTypeOK
  <2>2. ASSUME NEW stolen \in Costs \ {0}, timing' = [timing EXCEPT ![i] = @ + stolen]
        PROVE  timing' \in [Ports -> Nat] /\ \A p \in Ports : timing[p] <= timing'[p]
    <3>1. stolen \in Nat
      BY TimingAssumption
    <3> QED BY <2>1, <2>2, <3>1
  <2>3. displayIf' \in {displayIf, displayIf \cup {i}}
    BY DEF DisplayEvent
  <2>4. \/ timing' = timing
        \/ \E stolen \in Costs \ {0} : timing' = [timing EXCEPT ![i] = @ + stolen]
    BY DEF DisplayEvent
  <2>5. timing' \in [Ports -> Nat] /\ \A p \in Ports : timing[p] <= timing'[p]
    <3>1. CASE timing' = timing
      BY <2>1, <3>1
    <3>2. CASE \E stolen \in Costs \ {0} : timing' = [timing EXCEPT ![i] = @ + stolen]
      BY <2>2, <3>2
    <3> QED BY <2>4, <3>1, <3>2
  <2> QED BY <2>1, <2>3, <2>5
<1>5. SessionTypeOK'
  <2>1. turn' \in 0 .. PortCount
    BY <1>1, PortCountAssumption
  <2>2. TypeOK'
    BY <1>3 DEF HubInv
  <2> QED BY <1>1, <1>4, <2>1, <2>2 DEF SessionInv, SessionTypeOK
<1>6. ClocksFollow'
  BY <1>1, <1>2, <1>3 DEF ClocksFollow, Ticked
<1>7. Active' => /\ clock + delta <= link'.finish
                 /\ \A p \in Ports : began[p] < link'.finish
  <2>1. CASE Active /\ link'.finish = link.finish
    BY <1>2, <2>1 DEF SessionInv, BatchesAreShort
  <2>2. CASE Begun(link')
    <3>1. link'.finish \in Nat /\ clock + delta + Lookahead < link'.finish
      BY <1>2, <2>2, PortZero DEF Begun
    <3> QED BY <1>2, <3>1
  <2> QED BY <1>3, <2>1, <2>2
<1>8. PassIsShort' /\ BatchesAreShort'
  BY <1>1, <1>2, <1>4, <1>7 DEF SessionInv, PassIsShort, Horizon, BatchesAreShort
<1> QED
  BY <1>1, <1>3, <1>5, <1>6, <1>8
  DEF SessionInv, NeverCrosses, CpuStartsAtRendezvous, Running

LEMMA EndPassStep ==
    ASSUME SessionInv, EndPass
    PROVE  SessionInv'
<1>1. /\ Running /\ phase = "devices" /\ turn = PortCount
      /\ clock' = clock + delta /\ turn' = 0 /\ delta' = 0
      /\ phase' \in {"cpu", "idle"}
      /\ UNCHANGED hubVars /\ UNCHANGED <<timing, halted, displayIf, began>>
      /\ UNCHANGED <<target, zeroPasses, broken>>
  BY DEF EndPass, cpuVars
<1>2. HubInv' /\ UNCHANGED <<cycle, link, fault>> /\ (Active' <=> Active)
  BY <1>1, HubUnchanged DEF SessionInv, hubVars
<1>3. SessionTypeOK'
  <2>1. clock + delta \in Nat
    BY DEF SessionInv, SessionTypeOK
  <2> QED BY <1>1, <1>2, <2>1, PortCountAssumption DEF SessionInv, SessionTypeOK, HubInv
<1>4. ClocksFollow'
  <2>1. \A p \in Ports : p < turn /\ p < PortCount
    BY <1>1, PortCountAssumption
  <2>2. \A p \in Ports : cycle[p] = clock + delta
    BY <1>1, <2>1 DEF SessionInv, ClocksFollow, Ticked
  <2> QED BY <1>1, <1>2, <2>2 DEF ClocksFollow, Ticked
<1>5. PassIsShort'
  <2>1. clock \in Nat /\ delta \in Nat /\ target \in Nat /\ phase' # "idle" => clock' < target
    BY DEF SessionInv, SessionTypeOK, EndPass
  <2> QED BY <1>1, <1>2, <2>1 DEF SessionInv, PassIsShort, Horizon
<1>6. BatchesAreShort'
  <2>1. clock \in Nat /\ delta \in Nat /\ Lookahead \in Nat
        /\ \A p \in Ports : began[p] \in Nat
    BY LookaheadAssumption DEF SessionInv, SessionTypeOK
  <2> QED BY <1>1, <1>2, <2>1 DEF SessionInv, BatchesAreShort
<1> QED
  BY <1>1, <1>2, <1>3, <1>4, <1>5, <1>6
  DEF SessionInv, NeverCrosses, CpuStartsAtRendezvous, Running

LEMMA SessionInvStep == SessionInv /\ [SessionNext]_vars => SessionInv'
<1> SUFFICES ASSUME SessionInv, [SessionNext]_vars PROVE SessionInv'
  OBVIOUS
<1>1. ASSUME NEW i \in Ports,
             \/ Skip(i) \/ Wake(i)
             \/ Compute(i) \/ WriteSerial(i) \/ Halt(i) \/ AcknowledgeDisplay(i)
             \/ TickDevices(i) \/ DisplayEvent(i)
      PROVE  SessionInv'
  BY <1>1, SkipStep, WakeStep, ComputeStep, WriteSerialStep, OtherInstructionStep,
     TickDevicesStep, DisplayEventStep
<1>2. CASE UNCHANGED vars
  <2>1. UNCHANGED <<hubVars, cpuVars, loopVars>>
    BY <1>2 DEF vars
  <2>2. HubInv' /\ (Active' <=> Active) /\ UNCHANGED <<cycle, link, fault>>
    BY <2>1, HubUnchanged DEF SessionInv, hubVars
  <2>3. SessionTypeOK'
    BY <2>1, <2>2 DEF SessionInv, SessionTypeOK, HubInv, cpuVars, loopVars
  <2> QED
    BY <2>1, <2>2, <2>3
    DEF SessionInv, cpuVars, loopVars, ClocksFollow, Ticked, PassIsShort, Horizon,
        BatchesAreShort, NeverCrosses, CpuStartsAtRendezvous
<1> QED
  BY <1>1, <1>2, RunFrameStep, ScheduleStep, EndPassStep DEF SessionNext, Pass

-----------------------------------------------------------------------------
THEOREM SessionInvariant == SessionSpec => []SessionInv
BY SessionInvInit, SessionInvStep, PTL DEF SessionSpec

(* No port ever ticks across a completion and no CPU falls behind: the
   scheduler's and the hub's own checks never fire. *)
THEOREM SessionNeverCrosses == SessionSpec => []NeverCrosses
BY SessionInvariant, PTL DEF SessionInv

(* A transfer a CPU starts finds all machines at one instant. *)
THEOREM SessionCpuStarts == SessionSpec => []CpuStartsAtRendezvous
BY SessionInvariant, PTL DEF SessionInv

(* However long the lookahead, if it is shorter than every transfer then no
   completion interrupt lands behind a CPU's execution. *)
THEOREM SessionNoInterruptBehind == SessionSpec => []NoInterruptBehind
<1>1. SessionInv => NoInterruptBehind
  BY DEF SessionInv, BatchesAreShort, NoInterruptBehind
<1> QED BY <1>1, SessionInvariant, PTL

(* What is saved between two frames can be loaded again. *)
THEOREM SessionBoundaryLoads == SessionSpec => []BoundaryLoads
<1>1. SessionInv => BoundaryLoads
  BY DEF SessionInv, HubInv, ClocksFollow, Ticked, PassIsShort, Horizon, BoundaryLoads
<1> QED BY <1>1, SessionInvariant, PTL

-----------------------------------------------------------------------------
(* The scheduler as an owner of the hub.                                     *)

(* Every step of the scheduler writes registers of one machine, ticks one
   clock, or leaves the cable alone. *)
LEMMA SessionStepOfHub ==
    ASSUME SessionInv, [SessionNext]_vars
    PROVE  [Next]_hubVars
<1>1. ASSUME Running, NEW i \in Ports,
             Write(i, Registers.values, Registers.modes, Registers.words)
      PROVE  Next
  <2>1. Write(i, Control \X Halves, RcntModes, Word)
    BY <1>1, RegistersAssumption DEF Write
  <2> QED BY <1>1, <2>1 DEF Next, Running
<1>2. ASSUME NEW i \in Ports, TickDevices(i)
      PROVE  Next
  <2>1. delta \in Nat \ {0}
    BY <1>2 DEF TickDevices, SessionInv, SessionTypeOK, PassIsShort
  <2> QED BY <1>2, <2>1 DEF TickDevices, Next, Running
<1>3. ASSUME NEW i \in Ports, WriteSerial(i)
      PROVE  Next
  BY <1>1, <1>3 DEF WriteSerial, Ready, CpuTurn
<1>4. ASSUME NEW i \in Ports, DisplayEvent(i)
      PROVE  [Next]_hubVars
  BY <1>1, <1>4 DEF DisplayEvent
<1>5. ASSUME NEW i \in Ports,
             Skip(i) \/ Wake(i) \/ Compute(i) \/ Halt(i) \/ AcknowledgeDisplay(i)
      PROVE  UNCHANGED hubVars
  BY <1>5 DEF Skip, Wake, Compute, Halt, AcknowledgeDisplay
<1>6. CASE RunFrame \/ Schedule \/ EndPass
  BY <1>6 DEF RunFrame, Schedule, EndPass
<1>7. CASE UNCHANGED vars
  BY <1>7 DEF vars
<1> QED BY <1>2, <1>3, <1>4, <1>5, <1>6, <1>7 DEF SessionNext, Pass

(* The session is one of the owners that LinkHub allows: what holds of the
   cable under any owner holds in the program (run_until, tick_devices). *)
THEOREM SessionOwnsHub == SessionSpec => Spec
<1>1. SessionInit => Init
  BY DEF SessionInit
<1>2. SessionInv /\ [SessionNext]_vars => [Next]_hubVars
  BY SessionStepOfHub
<1> QED BY <1>1, <1>2, SessionInvariant, PTL DEF SessionSpec, Spec

(* The machines of a session exchange data as CableExchange says: the programs
   on them see whole exchanges or none. *)
THEOREM SessionExchanges == SessionSpec => ExchangesData
BY SessionOwnsHub, HubImplementsExchange
=============================================================================
