------------------------ MODULE CheckpointAgreement ------------------------
(***************************************************************************)
(* GbaNetplayCheckpointAgreement: before a match saves and ends, seat zero *)
(* and its guests agree that each of them holds the same snapshot of the   *)
(* same boundary.  An arrival barrier, a proposal, one receipt per guest   *)
(* and a ready probe travel over recomp-net, whose transfers and probes    *)
(* arrive after any delay or, when a seat leaves or times out, never.      *)
(*                                                                         *)
(* A poll is a step of the seat; one that finds nothing to do is a         *)
(* stutter.  A checkpoint is its boundary and its state; the identity and  *)
(* the hash in a proposal stand for exactly those.                         *)
(***************************************************************************)
EXTENDS Naturals

CONSTANTS Guests,   \* the seats other than seat zero
          Ticks,    \* boundaries
          States,   \* what a seat's simulation may hold at one
          NoState

Host == 0
Seats == Guests \cup {Host}
Checkpoint == [tick : Ticks, state : States]
Nothing == [tick |-> 0, state |-> NoState]

ASSUME GuestAssumption == Guests # {} /\ Host \notin Guests
ASSUME StateAssumption == NoState \notin States

HostPhases == {"none", "SendArrival", "SendProposal", "SendReady", "Done", "Failed"}
GuestPhases == {"none", "ReceiveProposal", "SendReceipt", "ReceiveReady", "Done", "Failed"}

VARIABLES
    live,       \* wait_for_confirmation_: the drivers are still running
    proposed,   \* proposed_tick_ of each seat
    world,      \* the state a seat's host has at the boundary
    reached,    \* seats whose boundary is run and confirmed, not in a replay
    phase, sending, arrived, receipts,
    held,       \* checkpoint_, and the proposal_ made from it
    probe,      \* the probe seat zero has out, and for which checkpoint
    answer,     \* each guest's reply to it
    offered,    \* the proposal was broadcast
    receipt,    \* what each guest sent back
    acked,      \* guests whose receipt seat zero has consumed
    left        \* seats that are gone from the session

simulation == <<live, proposed, world, reached>>
wire == <<probe, answer, offered, receipt, acked, left>>
agreementVars == <<simulation, phase, sending, arrived, receipts, held, wire>>

NoProbe == [kind |-> "none", of |-> Nothing]
Silence == [g \in Guests |-> "none"]

AgreementInit ==
    /\ live \in BOOLEAN
    /\ proposed \in [Seats -> Ticks]
    /\ world \in [Seats -> States]
    /\ reached = IF live THEN {} ELSE Seats
    /\ phase = [s \in Seats |-> "none"]
    /\ sending = [s \in Seats |-> FALSE]
    /\ arrived = [g \in Guests |-> FALSE]
    /\ receipts = {}
    /\ held = [s \in Seats |-> Nothing]
    /\ probe = NoProbe
    /\ answer = Silence
    /\ offered = FALSE
    /\ receipt = [g \in Guests |-> Nothing]
    /\ acked = {} /\ left = {}

Polls(s) == phase[s] \notin {"none", "Done", "Failed"} /\ s \notin left
To(s, p) == phase' = [phase EXCEPT ![s] = p]
Sent(s) == sending' = [sending EXCEPT ![s] = TRUE]
Rests(s) == sending' = [sending EXCEPT ![s] = FALSE]

(* copy_checkpoint: the boundary is retained as long as it is needed
   (PinnedBoundarySurvives of NetplayHost). *)
Copy(s) == [tick |-> proposed[s], state |-> world[s]]
Holds(s, c) == held' = [held EXCEPT ![s] = c]

(* The constructor.  Out of a match that is not running, seat zero copies the
   boundary at once. *)
Begin(s) ==
    /\ phase[s] = "none" /\ s \notin left
    /\ To(s, IF s = Host THEN "SendArrival" ELSE "ReceiveProposal")
    /\ IF s = Host /\ ~live THEN Holds(s, Copy(s)) ELSE UNCHANGED held
    /\ UNCHANGED <<simulation, sending, arrived, receipts, wire>>

(* The gate of poll() in a running match: the copy is taken once the boundary
   is confirmed.  The switch after it has nothing to do in this poll: a probe
   may be refused, and none be pending. *)
Capture(s) ==
    /\ Polls(s) /\ live /\ held[s] = Nothing
    /\ s \in reached
    /\ Holds(s, Copy(s))
    /\ UNCHANGED <<simulation, phase, sending, arrived, receipts, wire>>

(* Phase SendArrival. *)
ProbeArrival ==
    /\ Polls(Host) /\ phase[Host] = "SendArrival"
    /\ held[Host] # Nothing /\ ~sending[Host]
    /\ probe' = [kind |-> "arrival", of |-> held[Host]]
    /\ answer' = Silence
    /\ Sent(Host)
    /\ UNCHANGED <<simulation, phase, arrived, receipts, held, offered, receipt, acked, left>>

AllAnswered == \A g \in Guests : answer[g] # "none"
AllMatch == \A g \in Guests : answer[g] = "yes"

TakeArrival ==
    /\ Polls(Host) /\ phase[Host] = "SendArrival" /\ sending[Host]
    /\ AllAnswered
    /\ IF AllMatch
       THEN To(Host, "SendProposal") /\ Rests(Host)
       ELSE To(Host, "Failed") /\ UNCHANGED sending
    /\ UNCHANGED <<simulation, arrived, receipts, held, wire>>

(* Phase SendProposal. *)
Propose ==
    /\ Polls(Host) /\ phase[Host] = "SendProposal" /\ ~sending[Host]
    /\ offered' = TRUE
    /\ Sent(Host)
    /\ UNCHANGED <<simulation, phase, arrived, receipts, held, probe, answer, receipt, acked, left>>

(* Mutant: the first receipt is enough. *)
Complete_First(set) == set # {}

Complete(set) == set = Guests

TakeReceipt(g) ==
    /\ Polls(Host) /\ phase[Host] = "SendProposal" /\ sending[Host]
    /\ receipt[g] # Nothing /\ g \notin acked
    /\ IF receipt[g] = held[Host]
       THEN /\ receipts' = receipts \cup {g}
            /\ acked' = acked \cup {g}
            /\ IF Complete(receipts')
               THEN To(Host, "SendReady") /\ Rests(Host)
               ELSE UNCHANGED <<phase, sending>>
       ELSE To(Host, "Failed") /\ UNCHANGED <<receipts, acked, sending>>
    /\ UNCHANGED <<simulation, arrived, held, probe, answer, offered, receipt, left>>

(* Phase SendReady. *)
ProbeReady ==
    /\ Polls(Host) /\ phase[Host] = "SendReady" /\ ~sending[Host]
    /\ probe' = [kind |-> "ready", of |-> held[Host]]
    /\ answer' = Silence
    /\ Sent(Host)
    /\ UNCHANGED <<simulation, phase, arrived, receipts, held, offered, receipt, acked, left>>

TakeReady ==
    /\ Polls(Host) /\ phase[Host] = "SendReady" /\ sending[Host]
    /\ AllAnswered
    /\ To(Host, IF AllMatch THEN "Done" ELSE "Failed")
    /\ UNCHANGED <<simulation, sending, arrived, receipts, held, wire>>

(* A guest's reply, and what becomes of the guest. *)
Pending(g, kind) == probe.kind = kind /\ answer[g] = "none"
Reply(g, match) == answer' = [answer EXCEPT ![g] = IF match THEN "yes" ELSE "no"]

(* Phase ReceiveProposal, before the barrier: in a running match the gate of
   poll() lets nobody answer who does not hold its own boundary. *)
(* Mutant: a guest answers for its peer's progress, not its own. *)
AtBoundary_Peer(g) == live => held[Host] # Nothing

AtBoundary(g) == live => held[g] # Nothing

AnswerArrival(g) ==
    /\ Polls(g) /\ phase[g] = "ReceiveProposal" /\ ~arrived[g]
    /\ AtBoundary(g)
    /\ Pending(g, "arrival")
    /\ LET here == probe.of.tick = proposed[g] IN
          /\ Reply(g, here)
          /\ IF here THEN arrived' = [arrived EXCEPT ![g] = TRUE] /\ UNCHANGED phase
                     ELSE To(g, "Failed") /\ UNCHANGED arrived
    /\ UNCHANGED <<simulation, sending, receipts, held, probe, offered, receipt, acked, left>>

(* Phase ReceiveProposal, behind it: the guest compares with its own copy. *)
TakeProposal(g) ==
    /\ Polls(g) /\ phase[g] = "ReceiveProposal" /\ arrived[g]
    /\ offered
    /\ IF g \in reached /\ Copy(g) = held[Host]
       THEN Holds(g, Copy(g)) /\ To(g, "SendReceipt")
       ELSE To(g, "Failed") /\ UNCHANGED held
    /\ UNCHANGED <<simulation, sending, arrived, receipts, wire>>

(* Phase SendReceipt. *)
SendReceipt(g) ==
    /\ Polls(g) /\ phase[g] = "SendReceipt" /\ ~sending[g]
    /\ receipt' = [receipt EXCEPT ![g] = held[g]]
    /\ Sent(g)
    /\ UNCHANGED <<simulation, phase, arrived, receipts, held, probe, answer, offered, acked, left>>

ReceiptAcked(g) ==
    /\ Polls(g) /\ phase[g] = "SendReceipt" /\ sending[g]
    /\ g \in acked
    /\ To(g, "ReceiveReady") /\ Rests(g)
    /\ UNCHANGED <<simulation, arrived, receipts, held, wire>>

(* Phase ReceiveReady, or still SendReceipt when the probe overtakes the
   acknowledgement, which it replaces.  (First a mutant: it replaces nothing.) *)
AwaitsReady_Acked(g) == phase[g] = "ReceiveReady"

AwaitsReady(g) == phase[g] = "ReceiveReady" \/ (phase[g] = "SendReceipt" /\ sending[g])

(* Mutant: the case falls through and the answer is forgotten. *)
AfterReady_Forgets(g, match) ==
    IF phase[g] = "SendReceipt" THEN "ReceiveReady" ELSE IF match THEN "Done" ELSE "Failed"

AfterReady(g, match) == IF match THEN "Done" ELSE "Failed"

AnswerReady(g) ==
    /\ Polls(g) /\ AwaitsReady(g)
    /\ Pending(g, "ready")
    /\ LET match == probe.of = held[g] IN
          /\ Reply(g, match)
          /\ To(g, AfterReady(g, match))
    /\ Rests(g)
    /\ UNCHANGED <<simulation, arrived, receipts, held, probe, offered, receipt, acked, left>>

(* Sixty seconds have passed, or the network reports somebody gone. *)
TimesOut(s) ==
    /\ Polls(s)
    /\ To(s, "Failed")
    /\ UNCHANGED <<simulation, sending, arrived, receipts, held, wire>>

SeesGone(s) ==
    /\ Polls(s) /\ left \ {s} # {}
    /\ To(s, "Failed")
    /\ UNCHANGED <<simulation, sending, arrived, receipts, held, wire>>

(* A process ends: quit, crashed, or cut off. *)
Leave(s) ==
    /\ s \notin left
    /\ left' = left \cup {s}
    /\ UNCHANGED <<simulation, phase, sending, arrived, receipts, held, probe, answer, offered, receipt, acked>>

(* The driver of a seat confirms the boundary.  While it runs, it may also take
   the confirmation back and simulate the boundary again with other inputs. *)
Reach(s) ==
    /\ live /\ s \notin reached
    /\ reached' = reached \cup {s}
    /\ UNCHANGED <<live, proposed, world, phase, sending, arrived, receipts, held, wire>>

Correct(s) ==
    /\ live /\ s \in reached
    /\ reached' = reached \ {s}
    /\ \E state \in States : world' = [world EXCEPT ![s] = state]
    /\ UNCHANGED <<live, proposed, phase, sending, arrived, receipts, held, wire>>

HostPoll == ProbeArrival \/ TakeArrival \/ Propose \/ ProbeReady \/ TakeReady
            \/ \E g \in Guests : TakeReceipt(g)
GuestPoll(g) == AnswerArrival(g) \/ TakeProposal(g) \/ SendReceipt(g) \/ AnswerReady(g)
Protocol(s) == Begin(s) \/ Capture(s) \/ (s = Host /\ HostPoll) \/ (s \in Guests /\ GuestPoll(s))
Gives(s) == TimesOut(s) \/ SeesGone(s)

AgreementNext ==
    \/ HostPoll
    \/ \E g \in Guests : GuestPoll(g) \/ ReceiptAcked(g)
    \/ \E s \in Seats : Begin(s) \/ Capture(s) \/ Gives(s) \/ Leave(s) \/ Reach(s) \/ Correct(s)

AgreementSpec == AgreementInit /\ [][AgreementNext]_agreementVars
-----------------------------------------------------------------------------
AgreementTypeOK ==
    /\ live \in BOOLEAN /\ proposed \in [Seats -> Ticks] /\ world \in [Seats -> States]
    /\ reached \subseteq Seats
    /\ phase \in [Seats -> HostPhases \cup GuestPhases]
    /\ phase[Host] \in HostPhases /\ \A g \in Guests : phase[g] \in GuestPhases
    /\ sending \in [Seats -> BOOLEAN] /\ arrived \in [Guests -> BOOLEAN]
    /\ receipts \subseteq Guests /\ acked \subseteq Guests /\ left \subseteq Seats
    /\ held \in [Seats -> Checkpoint \cup {Nothing}]
    /\ receipt \in [Guests -> Checkpoint \cup {Nothing}]
    /\ probe \in [kind : {"none", "arrival", "ready"}, of : Checkpoint \cup {Nothing}]
    /\ answer \in [Guests -> {"none", "yes", "no"}]
    /\ offered \in BOOLEAN

(* "Each peer must independently hold the same exact confirmed snapshot": once
   one seat calls the checkpoint agreed, every seat of the match holds it, even
   the ones that will never learn. *)
DoneMeansAllHold ==
    \A s \in Seats : phase[s] = "Done" =>
        held[s] # Nothing /\ \A t \in Seats : held[t] = held[s]

(* Seat zero is the last to call it agreed: no guest can miss what it has. *)
HostIsLast == phase[Host] = "Done" => \A g \in Guests : phase[g] = "Done"

(* "a seat still a tick short of the boundary must never see" the proposal,
   whose transfer would stop its match. *)
NobodyIsStalledShort == offered /\ live => \A s \in Seats : held[s] # Nothing

(* A match in which nobody leaves, times out or holds something else ends in
   agreement at every seat once the drivers have settled, though
   acknowledgements may be lost. *)
AgreementCompletes ==
    <>[](reached = Seats) =>
        <>(\/ left # {} \/ \E s \in Seats : phase[s] = "Failed"
           \/ \A s \in Seats : phase[s] = "Done")
=============================================================================
