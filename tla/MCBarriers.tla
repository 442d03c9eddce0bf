----------------------------- MODULE MCBarriers -----------------------------
(* The two ways GbaNetplayMatch has of making three seats agree: the startup of
   a cold match, or an agreement on a checkpoint (at the end of a match, and at
   the start of one that was restored).  `cold` says which; it never changes.
   Ticks and states are names, so seat zero's are fixed; MaxLeft seats leave. *)
EXTENDS CheckpointAgreement, NetplayStartup, FiniteSets

CONSTANT MaxLeft
VARIABLE cold
barrierVars == <<agreementVars, startupVars, cold>>

BarriersInit ==
    /\ cold \in BOOLEAN
    /\ AgreementInit /\ proposed[Host] = 3 /\ world[Host] = "a"
    /\ StartupInit /\ identity[First] = "x"
    /\ live => proposed = [s \in Seats |-> 3]    \* SameBoundary of NetplayMatch
    /\ cold => ~live /\ proposed = [s \in Seats |-> 3] /\ world = [s \in Seats |-> "a"]
    /\ ~cold => identity = [s \in Players |-> "x"]

BarriersNext ==
    /\ UNCHANGED cold
    /\ \/ cold /\ StartupNext /\ UNCHANGED agreementVars
       \/ ~cold /\ AgreementNext /\ UNCHANGED startupVars
    /\ Cardinality(left') <= MaxLeft /\ Cardinality(absent') <= MaxLeft

(* Each machine polls in its own loop. *)
BarriersSpec ==
    /\ BarriersInit /\ [][BarriersNext]_barrierVars
    /\ WF_startupVars(cold /\ FirstPoll)
    /\ \A g \in Others : WF_startupVars(cold /\ OtherPoll(g))
    /\ \A s \in Seats : WF_agreementVars(~cold /\ Protocol(s))

(* AgreementCompletes and StartupCompletes, each of its own kind of match. *)
AgreementCompletesWarm == cold \/ AgreementCompletes
StartupCompletesCold == ~cold \/ StartupCompletes
=============================================================================
