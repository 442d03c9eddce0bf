---------------------------- MODULE CableExchange ----------------------------
(***************************************************************************)
(* What the link cable promises the programs on its ports, with no clocks, *)
(* modes or registers of control: an exchange takes the data all ports     *)
(* hold at one instant, and gives every participant its share at one later *)
(* instant, or gives nobody anything.  What a program writes in between    *)
(* changes nothing of what is delivered, and an interrupt is raised only   *)
(* by the delivery.  LinkHub implements this.                              *)
(***************************************************************************)
EXTENDS Integers

CONSTANTS Ports,        \* 0 .. n - 1
          Byte, Ones    \* values of a byte, and 0xff among them

Word == [hi: Byte, lo: Byte]
AllOnes == [hi |-> Ones, lo |-> Ones]
LowByte(word, from) == [word EXCEPT !.lo = from.lo]

VARIABLES
    regs,       \* per port: its send word and its receive words
    exchange,   \* the exchange in flight
    pending     \* ports whose machine has the serial interrupt pending

vars == <<regs, exchange, pending>>

Idle == [kind |-> "none", who |-> {}, data |-> <<>>]

Init ==
    /\ regs = [p \in Ports |-> [send |-> AllOnes,
                                receive |-> [s \in Ports |-> AllOnes]]]
    /\ exchange = Idle
    /\ pending = {}

(* A program changes registers of its own port, or clears its interrupt. *)
Local(p) ==
    /\ regs' = [regs EXCEPT ![p] = regs'[p]]
    /\ regs'[p] \in [send: Word, receive: [Ports -> Word]]
    /\ UNCHANGED <<exchange, pending>>

Acknowledge(p) ==
    /\ pending' = pending \ {p}
    /\ UNCHANGED <<regs, exchange>>

(* A new exchange takes what the ports hold now and replaces one in flight,
   whose data is lost.  A ring involves every port; a chain any of them. *)
BeginRing ==
    /\ exchange' = [kind |-> "ring", who |-> Ports,
                    data |-> [p \in Ports |-> <<regs[p].send, AllOnes>>]]
    /\ regs' = [p \in Ports |-> [send |-> regs[p].send,
                                 receive |-> [s \in Ports |-> AllOnes]]]
    /\ UNCHANGED pending

BeginChain(kind) ==
    /\ \E who \in (SUBSET Ports) \ {{}} :
          exchange' = [kind |-> kind, who |-> who,
             data |-> [p \in who |->
                IF kind = "byte" THEN <<LowByte(AllOnes, regs[p].send), AllOnes>>
                ELSE <<regs[p].receive[0], regs[p].receive[1]>>]]
    /\ UNCHANGED <<regs, pending>>

(* In a ring everyone gets every word; along a chain a port gets the datum of
   the participant just below it, or all ones. *)
Below(p) == IF p - 1 \in exchange.who THEN exchange.data[p - 1]
                                      ELSE <<AllOnes, AllOnes>>

Given(p) ==
    CASE exchange.kind = "ring" ->
            [regs[p] EXCEPT !.receive = [s \in Ports |-> exchange.data[s][1]]]
      [] exchange.kind = "byte" ->
            [regs[p] EXCEPT !.send = LowByte(regs[p].send, Below(p)[1])]
      [] exchange.kind = "long" ->
            [regs[p] EXCEPT !.receive[0] = Below(p)[1], !.receive[1] = Below(p)[2]]

Deliver ==
    /\ exchange # Idle
    /\ regs' = [p \in Ports |-> IF p \in exchange.who THEN Given(p) ELSE regs[p]]
    /\ exchange' = Idle
    /\ pending \subseteq pending' /\ pending' \subseteq pending \cup exchange.who

Abort ==
    /\ exchange' = Idle
    /\ UNCHANGED <<regs, pending>>

Next ==
    \/ \E p \in Ports : Local(p) \/ Acknowledge(p)
    \/ BeginRing
    \/ \E kind \in {"byte", "long"} : BeginChain(kind)
    \/ Deliver
    \/ Abort

Spec == Init /\ [][Next]_vars
=============================================================================
