--------------------------- MODULE NetplayStartup ---------------------------
(***************************************************************************)
(* GbaNetplayStartup: every guest uploads the save and clock of its own    *)
(* console, seat zero broadcasts the assembly of all of them, everybody    *)
(* applies it to all consoles of its copy of the session, and a ready      *)
(* probe compares the digests before anyone runs a frame.                  *)
(*                                                                         *)
(* Transfers and probes of recomp-net arrive after any delay or never.  A  *)
(* packet is its owner and the identity it was made under.                 *)
(***************************************************************************)
EXTENDS Naturals

CONSTANTS Others,      \* the seats other than seat zero
          Identities   \* builds, BIOSes, cartridges: what must be the same

First == 0
Players == Others \cup {First}
ASSUME OthersAssumption == First \notin Others

Cold(p) == [owner |-> p, identity |-> "cold"]

VARIABLES
    identity,   \* what each seat runs
    stage,      \* phase_
    uploading,  \* sending_
    uploads,    \* guests whose packet is on the wire
    collected,  \* the packets seat zero has
    assembly,   \* seat zero's broadcast is out
    applied,    \* guests that have finished the broadcast
    asks,       \* the ready probe is out
    replies,    \* each guest's reply to it
    saves,      \* saves[s][p]: console p's save and clock in seat s's session
    absent      \* seats that are gone

startupVars == <<identity, stage, uploading, uploads, collected, assembly,
                 applied, asks, replies, saves, absent>>

Packet(p) == [owner |-> p, identity |-> identity[p]]

(* The constructor sets a seat's own clock; its save is its own already. *)
StartupInit ==
    /\ identity \in [Players -> Identities]
    /\ stage = [s \in Players |-> IF s = First THEN "ReceiveUploads" ELSE "Upload"]
    /\ uploading = [s \in Players |-> FALSE]
    /\ uploads = {} /\ collected = {First}
    /\ assembly = FALSE /\ applied = {}
    /\ asks = FALSE /\ replies = [g \in Others |-> "none"]
    /\ saves = [s \in Players |-> [p \in Players |-> IF p = s THEN Packet(p) ELSE Cold(p)]]
    /\ absent = {}

Working(s) == stage[s] \notin {"Done", "Failed"} /\ s \notin absent
Turn(s, p) == stage' = [stage EXCEPT ![s] = p]

(* apply_owner refuses what was made under another identity. *)
Applies(s, p) == Packet(p).identity = identity[s]

BeginUpload(g) ==
    /\ Working(g) /\ stage[g] = "Upload" /\ ~uploading[g]
    /\ uploads' = uploads \cup {g}
    /\ uploading' = [uploading EXCEPT ![g] = TRUE]
    /\ UNCHANGED <<identity, stage, collected, assembly, applied, asks, replies, saves, absent>>

(* Seat zero; with the last packet it applies its own and assembles. *)
TakeUpload(g) ==
    /\ Working(First) /\ stage[First] = "ReceiveUploads"
    /\ g \in uploads \ collected
    /\ IF Applies(First, g)
       THEN /\ collected' = collected \cup {g}
            /\ saves' = [saves EXCEPT ![First][g] = Packet(g)]
            /\ IF collected' = Players THEN Turn(First, "SendAssembly") ELSE UNCHANGED stage
       ELSE Turn(First, "Failed") /\ UNCHANGED <<collected, saves>>
    /\ UNCHANGED <<identity, uploading, uploads, assembly, applied, asks, replies, absent>>

UploadAcked(g) ==
    /\ Working(g) /\ stage[g] = "Upload" /\ uploading[g]
    /\ g \in collected
    /\ Turn(g, "ReceiveAssembly")
    /\ UNCHANGED <<identity, uploading, uploads, collected, assembly, applied, asks, replies, saves, absent>>

BeginAssembly ==
    /\ Working(First) /\ stage[First] = "SendAssembly" /\ ~uploading[First]
    /\ assembly' = TRUE
    /\ uploading' = [uploading EXCEPT ![First] = TRUE]
    /\ UNCHANGED <<identity, stage, uploads, collected, applied, asks, replies, saves, absent>>

(* The broadcast may overtake the acknowledgement of the upload.  (First a
   mutant: it may not.) *)
AwaitsAssembly_Acked(g) == stage[g] = "ReceiveAssembly"

AwaitsAssembly(g) == stage[g] = "ReceiveAssembly" \/ (stage[g] = "Upload" /\ uploading[g])

(* apply_assembly: every player's packet goes to that player's console.  That the
   guest's own comes back unaltered is what a reliable transfer does. *)
TakeAssembly(g) ==
    /\ Working(g) /\ AwaitsAssembly(g) /\ assembly
    /\ IF \A p \in Players : Applies(g, p)
       THEN /\ saves' = [saves EXCEPT ![g] = [p \in Players |-> Packet(p)]]
            /\ applied' = applied \cup {g}
            /\ Turn(g, "ReceiveReady")
       ELSE Turn(g, "Failed") /\ UNCHANGED <<saves, applied>>
    /\ UNCHANGED <<identity, uploading, uploads, collected, assembly, asks, replies, absent>>

(* The broadcast is complete when all receivers have finished it.  (First a
   mutant: when one has.) *)
Delivered_One == applied # {}

Delivered == applied = Others

AssemblyAcked ==
    /\ Working(First) /\ stage[First] = "SendAssembly" /\ uploading[First]
    /\ Delivered
    /\ Turn(First, "SendReady")
    /\ uploading' = [uploading EXCEPT ![First] = FALSE]
    /\ UNCHANGED <<identity, uploads, collected, assembly, applied, asks, replies, saves, absent>>

ProbeStart ==
    /\ Working(First) /\ stage[First] = "SendReady" /\ ~asks
    /\ asks' = TRUE
    /\ UNCHANGED <<identity, stage, uploading, uploads, collected, assembly, applied, replies, saves, absent>>

(* A guest compares the digest with its own, replies and starts. *)
AnswerStart(g) ==
    /\ Working(g) /\ stage[g] = "ReceiveReady"
    /\ asks /\ replies[g] = "none"
    /\ LET match == saves[g] = saves[First] IN
          /\ replies' = [replies EXCEPT ![g] = IF match THEN "yes" ELSE "no"]
          /\ Turn(g, IF match THEN "Done" ELSE "Failed")
    /\ UNCHANGED <<identity, uploading, uploads, collected, assembly, applied, asks, saves, absent>>

AllReplied == \A g \in Others : replies[g] # "none"

TakeReplies ==
    /\ Working(First) /\ stage[First] = "SendReady" /\ asks
    /\ \/ (\E g \in Others : replies[g] = "no") /\ Turn(First, "Failed")
       \/ AllReplied /\ (\A g \in Others : replies[g] # "no") /\ Turn(First, "Done")
    /\ UNCHANGED <<identity, uploading, uploads, collected, assembly, applied, asks, replies, saves, absent>>

(* Sixty seconds, or somebody reported gone. *)
GivesUp(s) ==
    /\ Working(s)
    /\ Turn(s, "Failed")
    /\ UNCHANGED <<identity, uploading, uploads, collected, assembly, applied, asks, replies, saves, absent>>

Departs(s) ==
    /\ s \notin absent
    /\ absent' = absent \cup {s}
    /\ UNCHANGED <<identity, stage, uploading, uploads, collected, assembly, applied, asks, replies, saves>>

FirstPoll == BeginAssembly \/ AssemblyAcked \/ ProbeStart \/ TakeReplies
             \/ \E g \in Others : TakeUpload(g)
OtherPoll(g) == BeginUpload(g) \/ TakeAssembly(g) \/ AnswerStart(g)
StartupNext ==
    \/ FirstPoll
    \/ \E g \in Others : OtherPoll(g) \/ UploadAcked(g)
    \/ \E s \in Players : GivesUp(s) \/ Departs(s)

StartupSpec == StartupInit /\ [][StartupNext]_startupVars
-----------------------------------------------------------------------------
(* "Every peer applies every packet to its machine": when one seat runs its
   first frame, every seat, the ones that never will included, has every
   player's save and clock, and all were made for the same program. *)
StartsTheSame ==
    \A s \in Players : stage[s] = "Done" =>
        \A t, p \in Players : saves[t][p] = Packet(p) /\ identity[t] = identity[s]

(* Seats that run the same and stay all start, though the acknowledgement of an
   upload may be lost. *)
StartupCompletes ==
    <>(\/ absent # {} \/ \E s \in Players : stage[s] = "Failed"
       \/ \A s \in Players : stage[s] = "Done")
=============================================================================
