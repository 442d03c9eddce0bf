---------------------------- MODULE MCMachineCode -----------------------------
(* How one machine executes: its clock, with a program that stores to device *)
(* registers, and the native code made for it on the side.  They share no    *)
(* state; `part` says which of them a behaviour is about, and the other      *)
(* stays as it begins.                                                       *)
EXTENDS MCLazyClock, OverlayLoader

VARIABLE part

CodeInit ==
    /\ part \in {"clock", "native"}
    /\ MCInit /\ LoaderInit
    /\ part # "native" =>
          mode = "immediate" /\ healed = {} /\ missed = CHOOSE k \in Keys : TRUE

CodeNext ==
    /\ UNCHANGED part
    /\ \/ part = "clock" /\ MCNext /\ UNCHANGED loaderVars
       \/ part = "native" /\ LoaderNext /\ UNCHANGED <<vars, stores>>

(* The fairness of OverlayLoader; the clock needs none. *)
CodeSpec ==
    /\ CodeInit /\ [][CodeNext]_<<vars, stores, loaderVars, part>>
    /\ WF_loaderVars(part = "native" /\ Worker)
    /\ WF_loaderVars(part = "native" /\ Game)
    /\ SF_loaderVars(part = "native" /\ Push)
=============================================================================
