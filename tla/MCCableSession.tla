--------------------------- MODULE MCCableSession ----------------------------
(* Two consoles on one cable under the session scheduler. *)
EXTENDS CableSession

MCMultiCycles == [high \in BOOLEAN |-> [low \in BOOLEAN |-> IF high THEN 3 ELSE 4]]
MCNormalCycles == [width \in Widths |-> [fast \in BOOLEAN |-> IF fast THEN 3 ELSE 5]]

Ctl(mode, busy, irq, internal, fast) ==
    [mode |-> mode, busy |-> busy, irq |-> irq,
     internal |-> internal, fast |-> fast]

(* Machine 0 is woken by both interrupts, the others by the serial one. *)
MCEnabled == [p \in Ports |-> IF p = 0 THEN Irqs ELSE {"serial"}]

RingTraffic ==
    [values |-> { <<Ctl("multi", TRUE, TRUE, FALSE, TRUE), "both">> },
     modes |-> {"serial"},
     words |-> {}]
=============================================================================
