---------------------------- MODULE WirelessRadio -----------------------------
(***************************************************************************)
(* The radio side of src/gba/gba_wireless.cpp: adapters that host, join,   *)
(* leave and exchange payloads.  A command is what command() does with one *)
(* adapter's command word and its arguments, at the moment its last word   *)
(* has arrived; the radio serves a host some time after it asked, and a    *)
(* waiting adapter reads its notice some time after it was written.  The   *)
(* words of all this on the serial port, the identity exchange and the     *)
(* intervals are not modelled.                                             *)
(*                                                                         *)
(* An association is kept at both ends: a child has its parent and slot, a *)
(* parent has a child in each of its slots.  A payload is its size.  A     *)
(* refused command changes nothing.                                        *)
(***************************************************************************)
EXTENDS Integers, FiniteSets

CONSTANTS
    AdapterCount,   \* ports_.size()
    Programs,       \* sets of <<adapter, command>>: what the games may command
    Setups,         \* what they set up: fields of setup (command 0x17)
    Sizes,          \* payload sizes they ask for
    Masks,          \* sets of slots they disconnect
    Plugging        \* whether consoles are taken off their adapters

Adapters == 0 .. AdapterCount - 1
Slots == 0 .. 3
ChildLimit == 16    \* bytes of child_rx[slot]
HostLimit == 87     \* bytes of tx and parent_rx

ASSUME AdapterCountAssumption == AdapterCount \in 1 .. 256
ASSUME ProgramsAssumption ==
    /\ Setups \subseteq [closed: 0 .. 3, timed: BOOLEAN]
    /\ Sizes \subseteq 0 .. 127 /\ Masks \subseteq SUBSET Slots
    /\ Plugging \in BOOLEAN

Nobody == -1
NoSlot == 255

VARIABLES
    port,       \* ports_
    present,    \* adapters whose endpoint is connected
    program     \* one of Programs; it never changes

radioVars == <<port, present, program>>

(* radio is radio_at # 0; notice is notice_ready with the notice; waits is
   waiting with wait_until, timed is setup & 255 # 0; txPending and the sizes
   stand for the buffers they describe.  The size of what was taken from a
   child is whatever tx_size was. *)
Notices == {"timeout", "data", "dropped"}
Waits == {"no", "forever", "timed"}
Port == [hosting: BOOLEAN, accepting: BOOLEAN, searching: BOOLEAN,
         advertised: BOOLEAN, asleep: BOOLEAN, parent: Adapters \cup {Nobody},
         slot: Slots \cup {NoSlot}, children: [Slots -> Adapters \cup {Nobody}],
         room: 1 .. 4, timed: BOOLEAN, waits: Waits,
         notice: Notices \cup {"none"}, txSize: 0 .. HostLimit,
         txPending: BOOLEAN, radio: BOOLEAN, parentRx: 0 .. HostLimit,
         childRx: [Slots -> 0 .. HostLimit]]

RadioTypeOK == port \in [Adapters -> Port] /\ present \subseteq Adapters

NewPort == [hosting |-> FALSE, accepting |-> FALSE, searching |-> FALSE,
            advertised |-> FALSE, asleep |-> FALSE, parent |-> Nobody,
            slot |-> NoSlot, children |-> [s \in Slots |-> Nobody], room |-> 4,
            timed |-> FALSE, waits |-> "no", notice |-> "none", txSize |-> 0,
            txPending |-> FALSE, radio |-> FALSE, parentRx |-> 0,
            childRx |-> [s \in Slots |-> 0]]

RadioInit == port = [i \in Adapters |-> NewPort] /\ present = Adapters /\ program \in Programs

-----------------------------------------------------------------------------
(* Helpers on the table of all ports, as the code's member functions. *)

IsChild(i) == port[i].parent # Nobody

(* free_slot(): the first free one, if the adapter accepts children. *)
FreeSlots(i) ==
    IF port[i].accepting
    THEN {s \in Slots : s < port[i].room /\ port[i].children[s] = Nobody} ELSE {}

(* notify(): a notice not yet read is never replaced. *)
Noticed(p, what) == IF p.notice = "none" THEN [p EXCEPT !.notice = what] ELSE p

Orphaned(p) == [p EXCEPT !.parent = Nobody, !.slot = NoSlot, !.txPending = FALSE]

Leaves(i, mask) == IsChild(i) /\ port[i].slot \in mask
Dropped(i, mask) == {a \in Adapters \ {i} : \E s \in mask : port[i].children[s] = a}

(* The port of i itself. *)
Parted(i, mask) ==
    LET left == IF Leaves(i, mask) THEN Orphaned(port[i]) ELSE port[i]
    IN  [left EXCEPT !.children = [s \in Slots |-> IF s \in mask THEN Nobody ELSE @[s]],
                     !.childRx = [s \in Slots |-> IF s \in mask /\ left.children[s] # Nobody
                                                  THEN 0 ELSE @[s]]]

(* Mutant: the children are not told. *)
Disconnected_Silently(i, mask) ==
    [a \in Adapters |->
        IF a = i THEN Parted(i, mask)
        ELSE IF a \in Dropped(i, mask) THEN Orphaned(port[a])
        ELSE IF Leaves(i, mask) /\ a = port[i].parent
        THEN [port[a] EXCEPT !.children[port[i].slot] = Nobody]
        ELSE port[a]]

(* disconnect(i, mask): i leaves its parent if its slot is in the mask, and
   drops its own children in these slots, who get a notice. *)
Disconnected(i, mask) ==
    [a \in Adapters |->
        IF a = i THEN Parted(i, mask)
        ELSE IF a \in Dropped(i, mask) THEN Noticed(Orphaned(port[a]), "dropped")
        ELSE IF Leaves(i, mask) /\ a = port[i].parent
        THEN [port[a] EXCEPT !.children[port[i].slot] = Nobody]
        ELSE port[a]]

Becomes(ports) == port' = ports /\ UNCHANGED <<present, program>>

-----------------------------------------------------------------------------
(* The commands of adapter i that change something, by their code; an
   adapter asleep answers nothing until it is reset. *)

Gives(i, command) ==
    i \in present /\ <<i, command>> \in program /\ ~port[i].asleep

Stopped(p) == [p EXCEPT !.hosting = FALSE, !.accepting = FALSE, !.searching = FALSE,
                        !.advertised = FALSE]

(* After the reply to 0x25, 0x27 or 0x37 the adapter waits for a notice. *)
Waiting(p) == [p EXCEPT !.waits = IF p.timed THEN "timed" ELSE "forever"]

(* 0x10 *)
StopHost(i) ==
    /\ Gives(i, "stop")
    /\ Becomes([Disconnected(i, Slots) EXCEPT ![i] = Stopped(@)])

(* 0x16 *)
Broadcast(i) ==
    /\ Gives(i, "broadcast") /\ port[i].accepting
    /\ Becomes([port EXCEPT ![i].advertised = TRUE])

(* 0x17; its argument may set a timeout for waiting. *)
Setup(i) ==
    /\ \E setup \in Setups :
          /\ Gives(i, IF setup.timed THEN "timeout" ELSE "setup")
          /\ Becomes([port EXCEPT ![i].room = 4 - setup.closed, ![i].timed = setup.timed])

Opened(p) == [p EXCEPT !.hosting = TRUE, !.accepting = TRUE, !.advertised = TRUE,
                       !.searching = FALSE]

(* Mutant: a child may host. *)
StartHost_AnyRole(i) ==
    /\ Gives(i, "host")
    /\ Becomes([port EXCEPT ![i] = Opened(@)])

(* 0x19 *)
StartHost(i) ==
    /\ Gives(i, "host") /\ ~IsChild(i)
    /\ Becomes([port EXCEPT ![i] = Opened(@)])

(* 0x1b *)
CloseHost(i) ==
    /\ Gives(i, "close") /\ port[i].hosting /\ port[i].accepting
    /\ Becomes([port EXCEPT ![i].accepting = FALSE])

(* 0x1c *)
StartSearch(i) ==
    /\ Gives(i, "search")
    /\ Becomes([port EXCEPT ![i].searching = TRUE, ![i].accepting = FALSE])

(* 0x1e *)
EndSearch(i) ==
    /\ Gives(i, "search") /\ port[i].searching
    /\ Becomes([port EXCEPT ![i].searching = FALSE])

Joined(i, host, slot) ==
    [port EXCEPT ![i] = [@ EXCEPT !.parent = host, !.slot = slot, !.hosting = FALSE,
                                  !.accepting = FALSE, !.searching = FALSE],
                 ![host].children[slot] = i]

MayConnect(i, host) ==
    /\ Gives(i, "connect") /\ ~IsChild(i)
    /\ host # i /\ host \in present

(* Mutant: the host does not look whether its last slot is taken. *)
Connect_LastSlot(i, host) ==
    /\ MayConnect(i, host)
    /\ port[host].accepting
    /\ Becomes(Joined(i, host, port[host].room - 1))

(* 0x1f: whatever i hosted before is not disconnected. *)
Connect(i, host) ==
    /\ MayConnect(i, host)
    /\ \E slot \in FreeSlots(host) :
          /\ \A s \in FreeSlots(host) : slot <= s
          /\ Becomes(Joined(i, host, slot))

Sent(p, size) == [p EXCEPT !.txSize = size, !.txPending = TRUE,
                           !.radio = @ \/ p.hosting]

(* 0x24, and 0x25, which waits as well *)
Send(i, size) ==
    /\ port[i].hosting \/ IsChild(i)
    /\ size <= (IF IsChild(i) THEN ChildLimit ELSE HostLimit)
    /\ \/ Gives(i, "send") /\ Becomes([port EXCEPT ![i] = Sent(@, size)])
       \/ Gives(i, "exchange") /\ Becomes([port EXCEPT ![i] = Waiting(Sent(@, size))])

(* 0x26 *)
Receive(i) ==
    /\ Gives(i, "receive")
    /\ Becomes(IF IsChild(i) THEN [port EXCEPT ![i].parentRx = 0]
               ELSE [port EXCEPT ![i].childRx = [s \in Slots |-> 0]])

(* 0x27 *)
Wait(i) ==
    /\ Gives(i, "wait")
    /\ Becomes([port EXCEPT ![i] = Waiting(@)])

(* 0x30 *)
Disconnect(i, mask) ==
    /\ Gives(i, "disconnect")
    /\ Becomes(Disconnected(i, mask))

(* 0x37 *)
Resend(i) ==
    /\ Gives(i, "exchange") /\ port[i].hosting
    /\ Becomes([port EXCEPT ![i] = Waiting([@ EXCEPT !.radio = TRUE])])

(* 0x3d *)
Sleep(i) ==
    /\ Gives(i, "sleep")
    /\ Becomes([Disconnected(i, Slots) EXCEPT
          ![i] = [Stopped(@) EXCEPT !.asleep = TRUE, !.waits = "no", !.notice = "none",
                                 !.txPending = FALSE, !.radio = FALSE]])

Command(i) ==
    \/ StopHost(i) \/ Broadcast(i) \/ Setup(i) \/ StartHost(i) \/ CloseHost(i)
    \/ StartSearch(i) \/ EndSearch(i) \/ Receive(i) \/ Wait(i) \/ Resend(i) \/ Sleep(i)
    \/ \E host \in Adapters : Connect(i, host)
    \/ \E size \in Sizes : Send(i, size)
    \/ \E mask \in Masks : Disconnect(i, mask)

-----------------------------------------------------------------------------
(* transmit(i): the host's payload goes to every child, each child's waiting
   payload to the host; who got something, and the host, get a notice. *)
Taken(i) == {s \in Slots : port[i].children[s] # Nobody}

Heard(p, size) ==
    LET told == IF size > 0 THEN Noticed([p EXCEPT !.parentRx = size], "data") ELSE p
    IN  [told EXCEPT !.txPending = FALSE]

(* Mutant: the children are heard only if the host itself has sent. *)
Collected_IfSent(i) ==
    [s \in Slots |->
        IF port[i].txPending /\ s \in Taken(i) /\ port[port[i].children[s]].txPending
        THEN port[port[i].children[s]].txSize ELSE port[i].childRx[s]]

Collected(i) ==
    [s \in Slots |->
        IF s \in Taken(i) /\ port[port[i].children[s]].txPending
        THEN port[port[i].children[s]].txSize ELSE port[i].childRx[s]]

Served(i) ==
    [a \in Adapters |->
        IF a = i
        THEN Noticed([port[i] EXCEPT !.txPending = FALSE, !.childRx = Collected(i)], "data")
        ELSE IF \E s \in Taken(i) : port[i].children[s] = a
        THEN Heard(port[a], port[i].txSize)
        ELSE port[a]]

Radio(i) ==
    /\ i \in present /\ port[i].radio
    /\ LET ports == IF port[i].hosting THEN Served(i) ELSE port
       IN  Becomes([ports EXCEPT ![i].radio = FALSE])

(* The wait of i ends without an answer. *)
Timeout(i) ==
    /\ i \in present /\ port[i].waits = "timed" /\ port[i].notice = "none"
    /\ Becomes([port EXCEPT ![i] = Noticed(@, "timeout")])

(* The console of i, as the clocked end, reads and acknowledges its notice. *)
ReadNotice(i) ==
    /\ i \in present /\ port[i].waits # "no" /\ port[i].notice # "none"
    /\ Becomes([port EXCEPT ![i].waits = "no", ![i].notice = "none"])

(* reset(i): the general-purpose reset pin, or a console taken off. *)
WasReset(i) == [Disconnected(i, Slots) EXCEPT ![i] = NewPort]

Reset(i) ==
    /\ i \in present
    /\ Becomes(WasReset(i))

PlugAdapter(i) ==
    /\ Plugging
    /\ IF i \in present
       THEN present' = present \ {i} /\ port' = WasReset(i)
       ELSE present' = present \cup {i} /\ UNCHANGED port
    /\ UNCHANGED program

RadioNext ==
    \E i \in Adapters :
        \/ Command(i) \/ Radio(i) \/ Timeout(i) \/ ReadNotice(i) \/ Reset(i) \/ PlugAdapter(i)

RadioSpec == RadioInit /\ [][RadioNext]_radioVars

-----------------------------------------------------------------------------
(* Properties. *)

(* Both ends of every association agree, whoever ended or began which others:
   load_state's "inconsistent RFU association" and "inconsistent RFU child
   association" (gba_wireless.cpp:383, 395, 399), but for hosting. *)
AssociationsAgree ==
    \A j \in Adapters :
        /\ port[j].slot \in IF IsChild(j) THEN Slots ELSE {NoSlot}
        /\ \A i \in Adapters, s \in Slots :
              port[i].children[s] = j <=> (port[j].parent = i /\ port[j].slot = s)

(* Nobody is, through any number of hosts, its own parent: of every set of
   adapters one has its parent, if any, outside.  A child may keep the
   children it had as a host, so this rests on the order in which the roles
   of command() can change. *)
NoCycle ==
    \A group \in SUBSET Adapters :
        group # {} => \E i \in group : port[i].parent \notin group

(* A child that lost its parent and has no notice to read left by itself:
   disconnect() tells every child it drops. *)
DropsAreNoticed ==
    [][\A i \in Adapters :
          IsChild(i) /\ port'[i].parent = Nobody /\ port'[i].notice = "none" =>
              Command(i) \/ Reset(i) \/ PlugAdapter(i)]_radioVars

(* A child's payload that waits for the radio is taken by its host or goes
   with the association; transmit() clears tx_pending of every child. *)
NothingLost ==
    [][\A i \in Adapters :
          IsChild(i) /\ port[i].txPending /\ ~port'[i].txPending =>
              \/ port'[i].parent = Nobody
              \/ port'[port[i].parent].childRx[port[i].slot] = port[i].txSize]_radioVars

(* "Snapshot adapter parsers, pins, in-flight transfers, radio associations,
   payloads, search state and deadlines with the whole session"
   (docs/WIRELESS.md:21-22): what load_state demands of a snapshot, that who
   has children hosts (gba_wireless.cpp:398), and that what a child has to
   send and what a host took from one fit a child's packet
   (gba_wireless.cpp:384, 388). *)
SnapshotLoads ==
    \A i \in Adapters :
        /\ Taken(i) # {} => port[i].hosting
        /\ IsChild(i) => port[i].txSize <= ChildLimit
        /\ \A s \in Slots : port[i].childRx[s] <= ChildLimit
=============================================================================
