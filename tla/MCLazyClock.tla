----------------------------- MODULE MCLazyClock ------------------------------
(* A small machine: lines of six cycles, two-bit timers, a DMA that steals    *)
(* two cycles, and a guest that stores to device registers a few times.       *)
EXTENDS LazyClock, TLC

CONSTANT MaxStores      \* stores of a behaviour
VARIABLE stores

MCPrescale == (0 :> 1 @@ 1 :> 2)
MCControls == {[on |-> TRUE, cascade |-> FALSE, select |-> 1, irq |-> FALSE],
               [on |-> TRUE, cascade |-> TRUE, select |-> 0, irq |-> TRUE]}
MCStats == {[irqs |-> {"hblank", "vcount"}, compare |-> 1],
            [irqs |-> {"vblank"}, compare |-> 0]}
MCSerials == {[busy |-> TRUE, internal |-> TRUE, irq |-> TRUE]}
MCDmas == {[on |-> TRUE, start |-> "now", repeat |-> FALSE, irq |-> FALSE],
           [on |-> TRUE, start |-> "vblank", repeat |-> FALSE, irq |-> TRUE],
           [on |-> TRUE, start |-> "hblank", repeat |-> TRUE, irq |-> FALSE]}

MCInit == Init /\ stores = 0
MCNext ==
    /\ \/ Write /\ stores < MaxStores /\ stores' = stores + 1
       \/ /\ UNCHANGED stores
          /\ \/ Read \/ Unmask \/ Idle
             \/ \E c \in Costs : Instruction(c) \/ Halt(c) \/ Elide(c)
MCSpec == MCInit /\ [][MCNext]_<<vars, stores>>
=============================================================================
