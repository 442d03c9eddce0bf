------------------------------ MODULE MCLinkHub ------------------------------
(***************************************************************************)
(* Two ports under an arbitrary owner: registers are written, clocks       *)
(* ticked one by one and machines unplugged in any order.  The writes of a *)
(* behaviour are those of a ring or those of a chain.                      *)
(***************************************************************************)
EXTENDS LinkHub, FiniteSets

CONSTANT Owners     \* what an owner does: writes, and the bounds of a behaviour
VARIABLE owner      \* one of Owners; it never changes

(* Short durations that keep the order of the real ones: a fast byte is the
   shortest transfer, a 32-bit one longer, and baud rates differ. *)
MCMultiCycles == [high \in BOOLEAN |-> [low \in BOOLEAN |-> IF high THEN 1 ELSE 2]]
MCNormalCycles == [width \in Widths |-> [fast \in BOOLEAN |->
                      (IF width = "n8" THEN 1 ELSE 2) + (IF fast THEN 0 ELSE 1)]]

Ctl(mode, busy, irq, internal, fast) ==
    [mode |-> mode, busy |-> busy, irq |-> irq,
     internal |-> internal, fast |-> fast]

(* SIOCNT writes, with the bytes written.  A ring: multiplayer starts, and
   what can end them: a normal start, a general mode, a one-byte mode change. *)
RingWrites == { <<Ctl("multi", TRUE, TRUE, FALSE, TRUE), "both">>,
                <<Ctl("n8", TRUE, TRUE, TRUE, TRUE), "both">>,
                <<Ctl("uart", TRUE, FALSE, FALSE, FALSE), "high">>,
                <<Ctl("uart", TRUE, FALSE, FALSE, FALSE), "both">> }
(* A chain: starts of both widths by the internal clock, arming for the
   external one, a one-byte disarm. *)
ChainWrites == { <<Ctl("n8", TRUE, TRUE, TRUE, TRUE), "both">>,
                 <<Ctl("n32", TRUE, TRUE, TRUE, TRUE), "both">>,
                 <<Ctl("n32", TRUE, FALSE, FALSE, FALSE), "both">>,
                 <<Ctl("n32", FALSE, TRUE, FALSE, FALSE), "low">> }
Words == { [hi |-> Ones, lo |-> "x"] }

(* cycles bounds every port's clock, unplugged the machines unplugged at once. *)
TwoOwners == { [writes |-> RingWrites, cycles |-> 3, unplugged |-> 1],
               [writes |-> ChainWrites, cycles |-> 2, unplugged |-> 0] }

MCInit == Init /\ owner \in Owners

MCNext ==
    /\ fault = "none" /\ UNCHANGED owner
    /\ \E i \in Ports :
          \/ Write(i, owner.writes, {"serial", "gpio"}, Words)
          \/ Plug(i) /\ Cardinality(Ports \ connected') <= owner.unplugged
          \/ Tick(i, 1) /\ \A p \in Ports : cycle'[p] <= owner.cycles

MCSpec == MCInit /\ [][MCNext]_<<hubVars, owner>>
=============================================================================
