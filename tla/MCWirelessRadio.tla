--------------------------- MODULE MCWirelessRadio ----------------------------
(* Two instances of WirelessRadio in one run, told apart by their programs:   *)
(* in Roles three adapters all host, join, leave and sleep; in Payloads a     *)
(* host and a child, who keep their roles, send payloads around the limits,   *)
(* wait, the child with and without a deadline, and leave, and the third      *)
(* adapter's console stays on but commands nothing.                           *)
EXTENDS WirelessRadio

Roles ==
    Adapters \X {"stop", "search", "host", "close", "connect", "disconnect", "sleep"}
    \cup {<<0, "setup">>}

Payloads ==
    {0, 1} \X {"stop", "search", "send", "exchange", "receive", "wait", "disconnect"}
    \cup {0} \X {"host", "broadcast"} \cup {1} \X {"connect", "timeout", "sleep"}

TwoPrograms == {Roles, Payloads}
RoomSetups == [closed : {0, 3}, timed : {FALSE}] \cup {[closed |-> 0, timed |-> TRUE]}

(* The two other adapters take no slots but these. *)
TakenSlots == SUBSET {0, 1}

(* The third adapter has no part in Payloads. *)
ThirdStays == program = Payloads => port'[2] = NewPort /\ 2 \in present'
=============================================================================
