--------------------------- MODULE MCHostServices ----------------------------
(* Three things around a running machine that share no state: its battery    *)
(* save and suspend file, the diagnostic replay of its session, and the      *)
(* wireless adapters.  `service` says which of them a behaviour is about;    *)
(* the others stay as they begin.                                            *)
EXTENDS SaveDurability, DiagnosticReplay, MCWirelessRadio

VARIABLE service

ServicesInit ==
    /\ service \in {"save", "replay", "radio"}
    /\ SaveInit /\ ReplayInit /\ RadioInit
    /\ service # "save" => autosave = (TRUE \in Autosaves)
    /\ service # "radio" => program = CHOOSE p \in Programs : TRUE

ServicesNext ==
    /\ UNCHANGED service
    /\ \/ service = "save" /\ SaveNext /\ UNCHANGED <<replayVars, radioVars>>
       \/ service = "replay" /\ ReplayNext /\ UNCHANGED <<saveVars, radioVars>>
       \/ service = "radio" /\ RadioNext /\ UNCHANGED <<saveVars, replayVars>>

ServicesSpec ==
    ServicesInit /\ [][ServicesNext]_<<saveVars, replayVars, radioVars, service>>
=============================================================================
