-------------------------- MODULE CheckpointProofs --------------------------
(***************************************************************************)
(* For any guests, boundaries and states, with seats that leave or time    *)
(* out and drivers that correct the past at any moment: a seat that calls  *)
(* the checkpoint agreed is right about everybody, seat zero is the last   *)
(* to do so, and the proposal reaches nobody short of the boundary.        *)
(*                                                                         *)
(* Around it, for any delay, window and lead of a match: its seats plan    *)
(* one boundary and in time, stop together and save what was agreed.       *)
(***************************************************************************)
EXTENDS NetplayMatch, WellFoundedInduction, TLAPS

-----------------------------------------------------------------------------
(* The inductive invariant.                                                  *)

(* A seat that has not begun has copied nothing; one that answered the arrival
   of a running match has; seat zero has before it does anything. *)
Copied ==
    /\ \A s \in Seats : phase[s] = "none" => held[s] = Nothing
    /\ live => \A g \in Guests : arrived[g] => held[g] # Nothing
    /\ phase[Host] \in {"SendProposal", "SendReady", "Done"} => held[Host] # Nothing
    /\ sending[Host] => phase[Host] # "none" /\ held[Host] # Nothing

(* An answer says what has become of the guest, and the host waits for answers
   to the probe of its phase. *)
Answers ==
    /\ \A g \in Guests : answer[g] = "yes" =>
          /\ probe.kind = "arrival" => arrived[g]
          /\ probe.kind = "ready" => phase[g] = "Done"
    /\ sending[Host] /\ phase[Host] = "SendArrival" => probe.kind = "arrival"
    /\ sending[Host] /\ phase[Host] = "SendReady" => probe.kind = "ready"

(* What the host's phase says about everybody. *)
Stages ==
    /\ phase[Host] \in {"SendProposal", "SendReady", "Done"} => \A g \in Guests : arrived[g]
    /\ offered => held[Host] # Nothing /\ \A g \in Guests : arrived[g]
    /\ offered => phase[Host] \in {"SendProposal", "SendReady", "Done", "Failed"}
    /\ phase[Host] \in {"SendReady", "Done"} => receipts = Guests
    /\ probe.kind = "ready" => /\ receipts = Guests
                               /\ phase[Host] \in {"SendReady", "Done", "Failed"}
    /\ \A g \in Guests : phase[g] = "Done" => probe.kind = "ready"

(* A guest that took the proposal, and a receipt, agree with seat zero. *)
Receipts ==
    /\ \A g \in Guests : phase[g] \in {"SendReceipt", "ReceiveReady", "Done"} =>
          offered /\ held[g] = held[Host]
    /\ \A g \in Guests : receipt[g] # Nothing =>
          /\ receipt[g] = held[g]
          /\ phase[g] \in {"SendReceipt", "ReceiveReady", "Done", "Failed"}
    /\ \A g \in receipts : receipt[g] # Nothing /\ receipt[g] = held[Host]

AgreementInv ==
    AgreementTypeOK /\ Copied /\ Answers /\ Stages /\ Receipts /\ HostIsLast

-----------------------------------------------------------------------------
(* Facts about the data. *)

LEMMA HostIsNoGuest == Host \in Seats /\ Host \notin Guests /\ \A g \in Guests : g \in Seats /\ g # Host
BY GuestAssumption DEF Seats

LEMMA CopyIsCheckpoint ==
    ASSUME AgreementTypeOK, NEW s \in Seats
    PROVE  Copy(s) \in Checkpoint /\ Copy(s) # Nothing
BY StateAssumption DEF AgreementTypeOK, Copy, Checkpoint, Nothing

LEMMA NoGuestHasAnswered == Silence \in [Guests -> {"none", "yes", "no"}] /\ \A g \in Guests : Silence[g] = "none"
BY DEF Silence

-----------------------------------------------------------------------------
(* Every step keeps the invariant: one lemma per action, and one step per part
   of the invariant that the action can disturb. *)

LEMMA BeginKeeps ==
    ASSUME AgreementInv, NEW s \in Seats, Begin(s)
    PROVE  AgreementInv'
<1> USE HostIsNoGuest, NoGuestHasAnswered
<1> USE DEF Begin, Holds, Polls, To, Sent, Rests, simulation, wire
<1>0. AgreementTypeOK /\ Copied /\ Answers /\ Stages /\ Receipts /\ HostIsLast
  BY DEF AgreementInv
<1>1. AgreementTypeOK'
  BY <1>0, CopyIsCheckpoint DEF AgreementTypeOK, HostPhases, GuestPhases
<1>2. Copied'
  BY <1>0, CopyIsCheckpoint DEF Copied, AgreementTypeOK
<1>3. Answers'
  BY <1>0 DEF Answers, AgreementTypeOK, Copied
<1>4. Stages'
  BY <1>0 DEF Stages, AgreementTypeOK, Copied, Answers
<1>5. Receipts'
  BY <1>0 DEF Receipts, AgreementTypeOK, Copied, Stages
<1>6. HostIsLast'
  BY <1>0 DEF HostIsLast, AgreementTypeOK, Answers, Stages
<1> QED BY <1>1, <1>2, <1>3, <1>4, <1>5, <1>6 DEF AgreementInv

LEMMA CaptureKeeps ==
    ASSUME AgreementInv, NEW s \in Seats, Capture(s)
    PROVE  AgreementInv'
<1> USE HostIsNoGuest, NoGuestHasAnswered
<1> USE DEF Capture, Holds, Polls, To, Sent, Rests, simulation, wire
<1>0. AgreementTypeOK /\ Copied /\ Answers /\ Stages /\ Receipts /\ HostIsLast
  BY DEF AgreementInv
<1>1. AgreementTypeOK'
  BY <1>0, CopyIsCheckpoint DEF AgreementTypeOK, HostPhases, GuestPhases
<1>2. Copied'
  BY <1>0, CopyIsCheckpoint DEF Copied, AgreementTypeOK
<1>3. Answers'
  BY <1>0 DEF Answers, AgreementTypeOK, Copied
<1>4. Stages'
  BY <1>0 DEF Stages, AgreementTypeOK, Copied, Answers
<1>5. Receipts'
  BY <1>0 DEF Receipts, AgreementTypeOK, Copied, Stages
<1>6. HostIsLast'
  BY <1>0 DEF HostIsLast, AgreementTypeOK, Answers, Stages
<1> QED BY <1>1, <1>2, <1>3, <1>4, <1>5, <1>6 DEF AgreementInv

LEMMA ProbeArrivalKeeps ==
    ASSUME AgreementInv, ProbeArrival
    PROVE  AgreementInv'
<1> USE HostIsNoGuest, NoGuestHasAnswered
<1> USE DEF ProbeArrival, Polls, To, Sent, Rests, simulation, wire
<1>0. AgreementTypeOK /\ Copied /\ Answers /\ Stages /\ Receipts /\ HostIsLast
  BY DEF AgreementInv
<1>1. AgreementTypeOK'
  BY <1>0, CopyIsCheckpoint DEF AgreementTypeOK, HostPhases, GuestPhases
<1>2. Copied'
  BY <1>0, CopyIsCheckpoint DEF Copied, AgreementTypeOK
<1>3. Answers'
  BY <1>0 DEF Answers, AgreementTypeOK, Copied
<1>4. Stages'
  BY <1>0 DEF Stages, AgreementTypeOK, Copied, Answers
<1>5. Receipts'
  BY <1>0 DEF Receipts, AgreementTypeOK, Copied, Stages
<1>6. HostIsLast'
  BY <1>0 DEF HostIsLast, AgreementTypeOK, Answers, Stages
<1> QED BY <1>1, <1>2, <1>3, <1>4, <1>5, <1>6 DEF AgreementInv

LEMMA TakeArrivalKeeps ==
    ASSUME AgreementInv, TakeArrival
    PROVE  AgreementInv'
<1> USE HostIsNoGuest, NoGuestHasAnswered
<1> USE DEF TakeArrival, AllAnswered, AllMatch, Polls, To, Sent, Rests, simulation, wire
<1>0. AgreementTypeOK /\ Copied /\ Answers /\ Stages /\ Receipts /\ HostIsLast
  BY DEF AgreementInv
<1>1. AgreementTypeOK'
  BY ZenonT(120), <1>0, CopyIsCheckpoint DEF AgreementTypeOK, HostPhases, GuestPhases
<1>2. Copied'
  BY <1>0, CopyIsCheckpoint DEF Copied, AgreementTypeOK
<1>3. Answers'
  BY <1>0 DEF Answers, AgreementTypeOK, Copied
<1>4. Stages'
  BY <1>0 DEF Stages, AgreementTypeOK, Copied, Answers
<1>5. Receipts'
  BY <1>0 DEF Receipts, AgreementTypeOK, Copied, Stages
<1>6. HostIsLast'
  BY <1>0 DEF HostIsLast, AgreementTypeOK, Answers, Stages
<1> QED BY <1>1, <1>2, <1>3, <1>4, <1>5, <1>6 DEF AgreementInv

LEMMA ProposeKeeps ==
    ASSUME AgreementInv, Propose
    PROVE  AgreementInv'
<1> USE HostIsNoGuest, NoGuestHasAnswered
<1> USE DEF Propose, Polls, To, Sent, Rests, simulation, wire
<1>0. AgreementTypeOK /\ Copied /\ Answers /\ Stages /\ Receipts /\ HostIsLast
  BY DEF AgreementInv
<1>1. AgreementTypeOK'
  BY <1>0, CopyIsCheckpoint DEF AgreementTypeOK, HostPhases, GuestPhases
<1>2. Copied'
  BY <1>0, CopyIsCheckpoint DEF Copied, AgreementTypeOK
<1>3. Answers'
  BY <1>0 DEF Answers, AgreementTypeOK, Copied
<1>4. Stages'
  BY <1>0 DEF Stages, AgreementTypeOK, Copied, Answers
<1>5. Receipts'
  BY <1>0 DEF Receipts, AgreementTypeOK, Copied, Stages
<1>6. HostIsLast'
  BY <1>0 DEF HostIsLast, AgreementTypeOK, Answers, Stages
<1> QED BY <1>1, <1>2, <1>3, <1>4, <1>5, <1>6 DEF AgreementInv

LEMMA TakeReceiptKeeps ==
    ASSUME AgreementInv, NEW g \in Guests, TakeReceipt(g)
    PROVE  AgreementInv'
<1> USE HostIsNoGuest, NoGuestHasAnswered
<1> USE DEF TakeReceipt, Complete, Polls, To, Sent, Rests, simulation, wire
<1>0. AgreementTypeOK /\ Copied /\ Answers /\ Stages /\ Receipts /\ HostIsLast
  BY DEF AgreementInv
<1>1. AgreementTypeOK'
  <2>1. /\ phase' = phase \/ \E p \in {"SendReady", "Failed"} : phase' = [phase EXCEPT ![Host] = p]
        /\ sending' = sending \/ sending' = [sending EXCEPT ![Host] = FALSE]
        /\ receipts' \subseteq Guests /\ acked' \subseteq Guests
    BY <1>0 DEF AgreementTypeOK
  <2>2. phase' \in [Seats -> HostPhases \cup GuestPhases] /\ phase'[Host] \in HostPhases
        /\ \A x \in Guests : phase'[x] \in GuestPhases
    BY <1>0, <2>1 DEF AgreementTypeOK, HostPhases, GuestPhases
  <2>3. sending' \in [Seats -> BOOLEAN]
    BY <1>0, <2>1 DEF AgreementTypeOK
  <2> QED BY <1>0, <2>1, <2>2, <2>3 DEF AgreementTypeOK
<1>2. Copied'
  BY <1>0, CopyIsCheckpoint DEF Copied, AgreementTypeOK
<1>3. Answers'
  BY <1>0 DEF Answers, AgreementTypeOK, Copied
<1>4. Stages'
  BY <1>0 DEF Stages, AgreementTypeOK, Copied, Answers
<1>5. Receipts'
  BY <1>0 DEF Receipts, AgreementTypeOK, Copied, Stages
<1>6. HostIsLast'
  BY <1>0 DEF HostIsLast, AgreementTypeOK, Answers, Stages
<1> QED BY <1>1, <1>2, <1>3, <1>4, <1>5, <1>6 DEF AgreementInv

LEMMA ProbeReadyKeeps ==
    ASSUME AgreementInv, ProbeReady
    PROVE  AgreementInv'
<1> USE HostIsNoGuest, NoGuestHasAnswered
<1> USE DEF ProbeReady, Polls, To, Sent, Rests, simulation, wire
<1>0. AgreementTypeOK /\ Copied /\ Answers /\ Stages /\ Receipts /\ HostIsLast
  BY DEF AgreementInv
<1>1. AgreementTypeOK'
  BY <1>0, CopyIsCheckpoint DEF AgreementTypeOK, HostPhases, GuestPhases
<1>2. Copied'
  BY <1>0, CopyIsCheckpoint DEF Copied, AgreementTypeOK
<1>3. Answers'
  BY <1>0 DEF Answers, AgreementTypeOK, Copied
<1>4. Stages'
  BY <1>0 DEF Stages, AgreementTypeOK, Copied, Answers
<1>5. Receipts'
  BY <1>0 DEF Receipts, AgreementTypeOK, Copied, Stages
<1>6. HostIsLast'
  BY <1>0 DEF HostIsLast, AgreementTypeOK, Answers, Stages
<1> QED BY <1>1, <1>2, <1>3, <1>4, <1>5, <1>6 DEF AgreementInv

LEMMA TakeReadyKeeps ==
    ASSUME AgreementInv, TakeReady
    PROVE  AgreementInv'
<1> USE HostIsNoGuest, NoGuestHasAnswered
<1> USE DEF TakeReady, AllAnswered, AllMatch, Polls, To, Sent, Rests, simulation, wire
<1>0. AgreementTypeOK /\ Copied /\ Answers /\ Stages /\ Receipts /\ HostIsLast
  BY DEF AgreementInv
<1>1. AgreementTypeOK'
  BY <1>0, CopyIsCheckpoint DEF AgreementTypeOK, HostPhases, GuestPhases
<1>2. Copied'
  BY <1>0, CopyIsCheckpoint DEF Copied, AgreementTypeOK
<1>3. Answers'
  BY <1>0 DEF Answers, AgreementTypeOK, Copied
<1>4. Stages'
  BY <1>0 DEF Stages, AgreementTypeOK, Copied, Answers
<1>5. Receipts'
  BY <1>0 DEF Receipts, AgreementTypeOK, Copied, Stages
<1>6. HostIsLast'
  BY <1>0 DEF HostIsLast, AgreementTypeOK, Answers, Stages
<1> QED BY <1>1, <1>2, <1>3, <1>4, <1>5, <1>6 DEF AgreementInv

LEMMA AnswerArrivalKeeps ==
    ASSUME AgreementInv, NEW g \in Guests, AnswerArrival(g)
    PROVE  AgreementInv'
<1> USE HostIsNoGuest, NoGuestHasAnswered
<1> USE DEF AnswerArrival, Pending, Reply, AtBoundary, Polls, To, Sent, Rests, simulation, wire
<1>0. AgreementTypeOK /\ Copied /\ Answers /\ Stages /\ Receipts /\ HostIsLast
  BY DEF AgreementInv
<1>1. AgreementTypeOK'
  BY ZenonT(30), <1>0, CopyIsCheckpoint DEF AgreementTypeOK, HostPhases, GuestPhases
<1>2. Copied'
  BY <1>0, CopyIsCheckpoint DEF Copied, AgreementTypeOK
<1>3. Answers'
  BY <1>0 DEF Answers, AgreementTypeOK, Copied
<1>4. Stages'
  BY <1>0 DEF Stages, AgreementTypeOK, Copied, Answers
<1>5. Receipts'
  BY <1>0 DEF Receipts, AgreementTypeOK, Copied, Stages
<1>6. HostIsLast'
  BY <1>0 DEF HostIsLast, AgreementTypeOK, Answers, Stages
<1> QED BY <1>1, <1>2, <1>3, <1>4, <1>5, <1>6 DEF AgreementInv

LEMMA TakeProposalKeeps ==
    ASSUME AgreementInv, NEW g \in Guests, TakeProposal(g)
    PROVE  AgreementInv'
<1> USE HostIsNoGuest, NoGuestHasAnswered
<1> USE DEF TakeProposal, Holds, Polls, To, Sent, Rests, simulation, wire
<1>0. AgreementTypeOK /\ Copied /\ Answers /\ Stages /\ Receipts /\ HostIsLast
  BY DEF AgreementInv
<1>1. AgreementTypeOK'
  BY <1>0, CopyIsCheckpoint DEF AgreementTypeOK, HostPhases, GuestPhases
<1>2. Copied'
  BY <1>0, CopyIsCheckpoint DEF Copied, AgreementTypeOK
<1>3. Answers'
  BY <1>0 DEF Answers, AgreementTypeOK, Copied
<1>4. Stages'
  BY <1>0 DEF Stages, AgreementTypeOK, Copied, Answers
<1>5. Receipts'
  BY <1>0 DEF Receipts, AgreementTypeOK, Copied, Stages
<1>6. HostIsLast'
  BY <1>0 DEF HostIsLast, AgreementTypeOK, Answers, Stages
<1> QED BY <1>1, <1>2, <1>3, <1>4, <1>5, <1>6 DEF AgreementInv

LEMMA SendReceiptKeeps ==
    ASSUME AgreementInv, NEW g \in Guests, SendReceipt(g)
    PROVE  AgreementInv'
<1> USE HostIsNoGuest, NoGuestHasAnswered
<1> USE DEF SendReceipt, Polls, To, Sent, Rests, simulation, wire
<1>0. AgreementTypeOK /\ Copied /\ Answers /\ Stages /\ Receipts /\ HostIsLast
  BY DEF AgreementInv
<1>1. AgreementTypeOK'
  BY <1>0, CopyIsCheckpoint DEF AgreementTypeOK, HostPhases, GuestPhases
<1>2. Copied'
  BY <1>0, CopyIsCheckpoint DEF Copied, AgreementTypeOK
<1>3. Answers'
  BY <1>0 DEF Answers, AgreementTypeOK, Copied
<1>4. Stages'
  BY <1>0 DEF Stages, AgreementTypeOK, Copied, Answers
<1>5. Receipts'
  BY <1>0 DEF Receipts, AgreementTypeOK, Copied, Stages
<1>6. HostIsLast'
  BY <1>0 DEF HostIsLast, AgreementTypeOK, Answers, Stages
<1> QED BY <1>1, <1>2, <1>3, <1>4, <1>5, <1>6 DEF AgreementInv

LEMMA ReceiptAckedKeeps ==
    ASSUME AgreementInv, NEW g \in Guests, ReceiptAcked(g)
    PROVE  AgreementInv'
<1> USE HostIsNoGuest, NoGuestHasAnswered
<1> USE DEF ReceiptAcked, Polls, To, Sent, Rests, simulation, wire
<1>0. AgreementTypeOK /\ Copied /\ Answers /\ Stages /\ Receipts /\ HostIsLast
  BY DEF AgreementInv
<1>1. AgreementTypeOK'
  BY <1>0, CopyIsCheckpoint DEF AgreementTypeOK, HostPhases, GuestPhases
<1>2. Copied'
  BY <1>0, CopyIsCheckpoint DEF Copied, AgreementTypeOK
<1>3. Answers'
  BY <1>0 DEF Answers, AgreementTypeOK, Copied
<1>4. Stages'
  BY <1>0 DEF Stages, AgreementTypeOK, Copied, Answers
<1>5. Receipts'
  BY <1>0 DEF Receipts, AgreementTypeOK, Copied, Stages
<1>6. HostIsLast'
  BY <1>0 DEF HostIsLast, AgreementTypeOK, Answers, Stages
<1> QED BY <1>1, <1>2, <1>3, <1>4, <1>5, <1>6 DEF AgreementInv

LEMMA AnswerReadyKeeps ==
    ASSUME AgreementInv, NEW g \in Guests, AnswerReady(g)
    PROVE  AgreementInv'
<1> USE HostIsNoGuest, NoGuestHasAnswered
<1> USE DEF AnswerReady, Pending, Reply, AwaitsReady, AfterReady, Polls, To, Sent, Rests, simulation, wire
<1>0. AgreementTypeOK /\ Copied /\ Answers /\ Stages /\ Receipts /\ HostIsLast
  BY DEF AgreementInv
<1>1. AgreementTypeOK'
  BY <1>0, CopyIsCheckpoint DEF AgreementTypeOK, HostPhases, GuestPhases
<1>2. Copied'
  BY <1>0, CopyIsCheckpoint DEF Copied, AgreementTypeOK
<1>3. Answers'
  BY <1>0 DEF Answers, AgreementTypeOK, Copied
<1>4. Stages'
  BY <1>0 DEF Stages, AgreementTypeOK, Copied, Answers
<1>5. Receipts'
  BY <1>0 DEF Receipts, AgreementTypeOK, Copied, Stages
<1>6. HostIsLast'
  BY <1>0 DEF HostIsLast, AgreementTypeOK, Answers, Stages
<1> QED BY <1>1, <1>2, <1>3, <1>4, <1>5, <1>6 DEF AgreementInv

LEMMA GivesKeeps ==
    ASSUME AgreementInv, NEW s \in Seats, Gives(s)
    PROVE  AgreementInv'
<1> USE HostIsNoGuest, NoGuestHasAnswered
<1> USE DEF Gives, TimesOut, SeesGone, Polls, To, Sent, Rests, simulation, wire
<1>0. AgreementTypeOK /\ Copied /\ Answers /\ Stages /\ Receipts /\ HostIsLast
  BY DEF AgreementInv
<1>1. AgreementTypeOK'
  BY <1>0, CopyIsCheckpoint DEF AgreementTypeOK, HostPhases, GuestPhases
<1>2. Copied'
  BY <1>0, CopyIsCheckpoint DEF Copied, AgreementTypeOK
<1>3. Answers'
  BY <1>0 DEF Answers, AgreementTypeOK, Copied
<1>4. Stages'
  BY <1>0 DEF Stages, AgreementTypeOK, Copied, Answers
<1>5. Receipts'
  BY <1>0 DEF Receipts, AgreementTypeOK, Copied, Stages
<1>6. HostIsLast'
  BY <1>0 DEF HostIsLast, AgreementTypeOK, Answers, Stages
<1> QED BY <1>1, <1>2, <1>3, <1>4, <1>5, <1>6 DEF AgreementInv

LEMMA LeaveKeeps ==
    ASSUME AgreementInv, NEW s \in Seats, Leave(s)
    PROVE  AgreementInv'
BY DEF AgreementInv, AgreementTypeOK, Copied, Answers, Stages, Receipts, HostIsLast, Leave, simulation

LEMMA ReachKeeps ==
    ASSUME AgreementInv, NEW s \in Seats, Reach(s)
    PROVE  AgreementInv'
BY DEF AgreementInv, AgreementTypeOK, Copied, Answers, Stages, Receipts, HostIsLast, Reach, wire

LEMMA CorrectKeeps ==
    ASSUME AgreementInv, NEW s \in Seats, Correct(s)
    PROVE  AgreementInv'
<1>1. AgreementTypeOK'
  BY DEF AgreementInv, AgreementTypeOK, Correct, wire
<1>2. UNCHANGED <<live, phase, sending, arrived, receipts, held, probe, answer, offered, receipt>>
  BY DEF Correct, wire
<1> QED BY <1>1, <1>2 DEF AgreementInv, Copied, Answers, Stages, Receipts, HostIsLast

LEMMA StutterKeeps ==
    ASSUME AgreementInv, UNCHANGED agreementVars
    PROVE  AgreementInv'
BY DEF AgreementInv, AgreementTypeOK, Copied, Answers, Stages, Receipts, HostIsLast, agreementVars, simulation, wire

LEMMA StartsWell ==
    ASSUME AgreementInit
    PROVE  AgreementInv
<1> USE HostIsNoGuest, NoGuestHasAnswered DEF AgreementInit, NoProbe
<1>1. AgreementTypeOK
  BY DEF AgreementTypeOK, HostPhases, GuestPhases
<1>2. Copied /\ Answers /\ Stages /\ Receipts /\ HostIsLast
  BY DEF Copied, Answers, Stages, Receipts, HostIsLast
<1> QED BY <1>1, <1>2 DEF AgreementInv

-----------------------------------------------------------------------------
(* Types, and what is known of copies, answers, stages and receipts, hold for
   any guests, boundaries and states (poll() of every seat, with losses). *)
THEOREM AgreementInvariant == AgreementSpec => []AgreementInv
<1>1. ASSUME AgreementInv, AgreementNext
      PROVE  AgreementInv'
  <2>1. CASE HostPoll
    BY <1>1, <2>1, ProbeArrivalKeeps, TakeArrivalKeeps, ProposeKeeps, TakeReceiptKeeps,
       ProbeReadyKeeps, TakeReadyKeeps DEF HostPoll
  <2>2. ASSUME NEW g \in Guests, GuestPoll(g) \/ ReceiptAcked(g)
        PROVE  AgreementInv'
    BY <1>1, <2>2, AnswerArrivalKeeps, TakeProposalKeeps, SendReceiptKeeps, AnswerReadyKeeps,
       ReceiptAckedKeeps DEF GuestPoll
  <2>3. ASSUME NEW s \in Seats,
               Begin(s) \/ Capture(s) \/ Gives(s) \/ Leave(s) \/ Reach(s) \/ Correct(s)
        PROVE  AgreementInv'
    BY <1>1, <2>3, BeginKeeps, CaptureKeeps, GivesKeeps, LeaveKeeps, ReachKeeps, CorrectKeeps
  <2> QED BY <1>1, <2>1, <2>2, <2>3 DEF AgreementNext
<1> QED BY <1>1, StartsWell, StutterKeeps, PTL DEF AgreementSpec

(* Once one seat calls the checkpoint agreed, every seat holds it. *)
LEMMA Shared == AgreementInv => DoneMeansAllHold
<1>1. SUFFICES ASSUME AgreementInv, NEW s \in Seats, phase[s] = "Done"
               PROVE  held[s] # Nothing /\ \A t \in Seats : held[t] = held[s]
  BY DEF DoneMeansAllHold
<1>2. receipts = Guests
  BY <1>1 DEF AgreementInv, Stages, Seats
<1>3. \A g \in Guests : held[g] = held[Host] /\ held[g] # Nothing
  BY <1>1, <1>2 DEF AgreementInv, Receipts
<1> QED BY <1>3, GuestAssumption DEF Seats

(* One seat that calls the checkpoint agreed is right about all of them. *)
THEOREM AgreementIsShared == AgreementSpec => []DoneMeansAllHold
BY Shared, AgreementInvariant, PTL

(* Seat zero, whose word ends the match for the player who asked, is last. *)
THEOREM AgreementHostLast == AgreementSpec => []HostIsLast
<1>1. AgreementInv => HostIsLast
  BY DEF AgreementInv
<1> QED BY <1>1, AgreementInvariant, PTL

(* The proposal of a running match finds every seat at its boundary. *)
THEOREM AgreementStallsNobody == AgreementSpec => []NobodyIsStalledShort
<1>1. AgreementInv => NobodyIsStalledShort
  BY DEF AgreementInv, Copied, Stages, NobodyIsStalledShort, Seats
<1> QED BY <1>1, AgreementInvariant, PTL

-----------------------------------------------------------------------------
(* The match around the agreement: its inductive invariant.                  *)

(* Whatever a seat has confirmed, or without a driver has run, every other
   seat had sampled; and a seat runs only so far beyond what it has confirmed. *)
Watermarks ==
    /\ live => \A s, u \in Seats : through[s] <= Sampled(u)
    /\ ~live => \A s, u \in Seats : next[s] - 1 <= Sampled(u)
    /\ live => \A s \in Seats : next[s] <= through[s] + Ahead + 2

(* The bound of RequestCheckpoint, on what was requested. *)
Asked == \A t \in Seats : asks[t] # 0 => asks[t] > Delay /\ asks[t] + Lead < LastTick

(* A seat that has planned knew of a request, and nobody has asked earlier. *)
Planned == \A s \in Seats : finish[s] # 0 =>
    \E t \in Seats :
       /\ asks[t] # 0 /\ asks[t] <= Watermark(s)
       /\ finish[s] = asks[t] + Lead
       /\ \A u \in Seats : asks[u] # 0 => asks[t] <= asks[u]

(* A seat that has not planned is still short of every boundary it may plan. *)
InTime == \A s, t \in Seats : finish[s] = 0 /\ asks[t] # 0 => next[s] <= asks[t] + Lead

(* The agreement is begun for a planned boundary, and drivers are stopped when
   it is reached. *)
Staged ==
    /\ \A s \in Seats : finish[s] = 0 => phase[s] = "none"
    /\ \A s \in Seats : quiesce[s] # "none" => phase[s] = "Done"

(* The copies of a match that stands still are up to date, and so is what was
   saved. *)
StillCopied ==
    /\ ~live => \A s \in Seats : held[s] # Nothing => held[s] = Copy(s)
    /\ \A s \in Seats : match[s] = "CheckpointReady" =>
          phase[s] = "Done" /\ held[s] = Copy(s)

MatchInv ==
    /\ AgreementInv /\ MatchTypeOK
    /\ Watermarks /\ Asked /\ Planned /\ InTime
    /\ Staged /\ StillCopied

-----------------------------------------------------------------------------
(* Facts about numbers: a set of them has a least element. *)

LEMMA LeastExists ==
    ASSUME NEW set \in SUBSET Nat, set # {}
    PROVE  \E x \in set : \A y \in set : x <= y
<1> DEFINE less == OpToRel(<, Nat)
<1>1. \A y, x : <<y, x>> \in less <=> y \in Nat /\ x \in Nat /\ y < x
  BY DEF OpToRel
<1>2. IsWellFoundedOn(less, Nat)
  BY NatLessThanWellFounded
<1> HIDE DEF less
<1>3. PICK x \in set : \A y \in set : <<y, x>> \notin less
  BY <1>2, WFMin
<1>4. \A y \in set : y \in Nat /\ x \in Nat /\ ~(y < x)
  BY <1>1, <1>3
<1> QED BY <1>4

LEMMA FirstIsLeast ==
    ASSUME NEW set \in SUBSET Nat, set # {}
    PROVE  First(set) \in set /\ \A y \in set : First(set) <= y
<1>1. PICK x \in set : \A y \in set : x <= y
  BY LeastExists
<1> QED BY <1>1 DEF First

LEMMA Numbers == Delay \in Nat /\ Ahead \in Nat /\ Lead \in Nat /\ Lead >= Ahead + 2
                 /\ LastTick \in Nat /\ LastTick >= 1 /\ \A t \in 0 .. LastTick : t \in Ticks
BY LeadAssumption, LastTickAssumption

(* The request a seat sees first is some seat's, and nobody's is earlier:
   those it cannot see are in rows it has not confirmed. *)
LEMMA FirstRequest ==
    ASSUME MatchTypeOK, NEW s \in Seats, Requests(s) # {}
    PROVE  \E t \in Seats : /\ asks[t] # 0 /\ asks[t] <= Watermark(s)
                            /\ First(Requests(s)) = asks[t]
                            /\ \A u \in Seats : asks[u] # 0 => asks[t] <= asks[u]
<1>0. /\ asks \in [Seats -> Nat] /\ through \in [Seats -> Nat]
      /\ next \in [Seats -> Nat] /\ \A u \in Seats : next[u] >= 1
  BY Numbers DEF MatchTypeOK
<1>1. Watermark(s) \in Nat
  BY <1>0 DEF Watermark
<1>2. \A n : n \in Requests(s) <=> n \in 1 .. Watermark(s) /\ \E t \in Seats : n = asks[t]
  BY DEF Requests
<1>3. Requests(s) \in SUBSET Nat
  BY <1>1, <1>2
<1>4. First(Requests(s)) \in Requests(s) /\ \A y \in Requests(s) : First(Requests(s)) <= y
  BY <1>3, FirstIsLeast
<1>5. PICK t \in Seats : First(Requests(s)) = asks[t] /\ asks[t] \in 1 .. Watermark(s)
  BY <1>2, <1>4
<1>6. ASSUME NEW u \in Seats, asks[u] # 0
      PROVE  asks[t] <= asks[u]
  <2>1. CASE asks[u] <= Watermark(s)
    BY <1>0, <1>1, <1>2, <1>4, <1>5, <1>6, <2>1
  <2>2. CASE ~(asks[u] <= Watermark(s))
    BY <1>0, <1>1, <1>5, <2>2
  <2> QED BY <2>1, <2>2
<1> QED BY <1>1, <1>5, <1>6

-----------------------------------------------------------------------------
(* The agreement's steps as the match takes them. *)

(* One poll of an agreement is one seat's, and leaves the simulation alone. *)
AgreementPoll(s) ==
    \/ Capture(s) \/ Gives(s)
    \/ s = Host /\ HostPoll
    \/ s \in Guests /\ (GuestPoll(s) \/ ReceiptAcked(s))

LEMMA PollIsOwn ==
    ASSUME AgreementInv, NEW s \in Seats, AgreementPoll(s)
    PROVE  /\ UNCHANGED simulation
           /\ phase[s] \notin {"none", "Done", "Failed"}
           /\ \A u \in Seats \ {s} : phase'[u] = phase[u] /\ held'[u] = held[u]
           /\ held'[s] = held[s] \/ held'[s] = Copy(s)
<1>0. phase \in [Seats -> HostPhases \cup GuestPhases] /\ DOMAIN held = Seats
  BY DEF AgreementInv, AgreementTypeOK
<1> USE HostIsNoGuest, <1>0
<1> USE DEF Polls, To, Holds, wire
<1>1. CASE Capture(s)
  BY <1>1 DEF Capture
<1>2. CASE Gives(s)
  BY <1>2 DEF Gives, TimesOut, SeesGone
<1>3. CASE s = Host /\ HostPoll
  <2>1. CASE ProbeArrival BY <1>3, <2>1 DEF ProbeArrival
  <2>2. CASE TakeArrival BY <1>3, <2>2 DEF TakeArrival
  <2>3. CASE Propose BY <1>3, <2>3 DEF Propose
  <2>4. CASE ProbeReady BY <1>3, <2>4 DEF ProbeReady
  <2>5. CASE TakeReady BY <1>3, <2>5 DEF TakeReady
  <2>6. ASSUME NEW g \in Guests, TakeReceipt(g)
        PROVE  /\ UNCHANGED simulation
               /\ phase[s] \notin {"none", "Done", "Failed"}
               /\ \A u \in Seats \ {s} : phase'[u] = phase[u] /\ held'[u] = held[u]
               /\ held'[s] = held[s] \/ held'[s] = Copy(s)
    BY <1>3, <2>6 DEF TakeReceipt
  <2> QED BY <1>3, <2>1, <2>2, <2>3, <2>4, <2>5, <2>6 DEF HostPoll
<1>4. CASE s \in Guests /\ (GuestPoll(s) \/ ReceiptAcked(s))
  <2>1. CASE AnswerArrival(s) BY <1>4, <2>1 DEF AnswerArrival
  <2>2. CASE TakeProposal(s) BY <1>4, <2>2 DEF TakeProposal
  <2>3. CASE SendReceipt(s) BY <1>4, <2>3 DEF SendReceipt
  <2>4. CASE AnswerReady(s) BY <1>4, <2>4 DEF AnswerReady
  <2>5. CASE ReceiptAcked(s) BY <1>4, <2>5 DEF ReceiptAcked
  <2> QED BY <1>4, <2>1, <2>2, <2>3, <2>4, <2>5 DEF GuestPoll
<1> QED BY <1>1, <1>2, <1>3, <1>4 DEF AgreementPoll

LEMMA AgreementPollKeeps ==
    ASSUME AgreementInv, NEW s \in Seats, AgreementPoll(s)
    PROVE  AgreementInv'
<1>1. CASE s = Host /\ HostPoll
  BY <1>1, ProbeArrivalKeeps, TakeArrivalKeeps, ProposeKeeps, TakeReceiptKeeps,
     ProbeReadyKeeps, TakeReadyKeeps DEF HostPoll
<1>2. CASE s \in Guests /\ (GuestPoll(s) \/ ReceiptAcked(s))
  BY <1>2, AnswerArrivalKeeps, TakeProposalKeeps, SendReceiptKeeps, AnswerReadyKeeps,
     ReceiptAckedKeeps DEF GuestPoll
<1> QED BY <1>1, <1>2, CaptureKeeps, GivesKeeps DEF AgreementPoll

-----------------------------------------------------------------------------
(* Kinds of steps: those that do not touch the clocks and plans, and those that
   do not touch the agreement. *)

Clocks == Watermarks /\ Asked /\ Planned /\ InTime

LEMMA ClocksStay ==
    ASSUME Clocks, UNCHANGED <<live, next, through, asks, finish>>
    PROVE  Clocks'
BY DEF Clocks, Watermarks, Asked, Planned, InTime, Sampled, Watermark

LEMMA EndingsStay ==
    ASSUME MatchInv, UNCHANGED agreementVars, UNCHANGED <<match, quiesce>>,
           \A s \in Seats : finish'[s] = 0 => finish[s] = 0
    PROVE  AgreementInv' /\ Staged' /\ StillCopied'
<1>1. AgreementInv'
  BY StutterKeeps DEF MatchInv
<1> QED BY <1>1 DEF MatchInv, Staged, StillCopied, Copy, agreementVars, simulation, wire

-----------------------------------------------------------------------------
(* Every step of a match keeps the invariant. *)

LEMMA ConfirmTickKeeps ==
    ASSUME MatchInv, NEW s \in Seats, ConfirmTick(s)
    PROVE  MatchInv'
<1> USE Numbers
<1>0. /\ next \in [Seats -> 1 .. LastTick] /\ through \in [Seats -> 0 .. LastTick + Delay]
      /\ asks \in [Seats -> 0 .. LastTick + Delay]
  BY DEF MatchInv, MatchTypeOK
<1>1. PICK t \in Confirmable(s) : through' = [through EXCEPT ![s] = t]
  BY DEF ConfirmTick
<1>2. /\ t \in 0 .. LastTick /\ t >= through[s] /\ t < next[s]
      /\ \A u \in Seats : t <= Sampled(u)
  BY <1>0 DEF Confirmable, Sampled
<1>3. live /\ UNCHANGED <<live, agreementVars, match, next, asks, finish, quiesce>>
  BY DEF ConfirmTick, agreementVars, simulation
<1>4. MatchTypeOK'
  <2>1. through' \in [Seats -> 0 .. LastTick + Delay]
    BY <1>0, <1>1, <1>2
  <2>2. AgreementTypeOK'
    BY <1>3, StutterKeeps DEF MatchInv, AgreementInv
  <2> QED BY <1>3, <2>1, <2>2 DEF MatchInv, MatchTypeOK
<1>5. Watermarks'
  BY <1>0, <1>1, <1>2, <1>3 DEF MatchInv, Watermarks, Sampled
<1>6. Asked' /\ InTime'
  BY <1>3 DEF MatchInv, Asked, InTime
<1>7. Planned'
  <2>1. \A u \in Seats : Watermark(u) \in Nat /\ Watermark(u)' \in Nat /\ Watermark(u) <= Watermark(u)'
    BY <1>0, <1>1, <1>2, <1>3 DEF Watermark
  <2>2. SUFFICES ASSUME NEW x \in Seats, finish[x] # 0
                 PROVE  \E v \in Seats :
                           /\ asks[v] # 0 /\ asks[v] <= Watermark(x)'
                           /\ finish[x] = asks[v] + Lead
                           /\ \A u \in Seats : asks[u] # 0 => asks[v] <= asks[u]
    BY <1>3 DEF Planned
  <2>3. PICK v \in Seats :
                           /\ asks[v] # 0 /\ asks[v] <= Watermark(x)
                           /\ finish[x] = asks[v] + Lead
                           /\ \A u \in Seats : asks[u] # 0 => asks[v] <= asks[u]
    BY <2>2 DEF MatchInv, Planned
  <2>4. asks[v] <= Watermark(x)'
    BY <1>0, <2>1, <2>3
  <2> QED BY <2>3, <2>4
<1>8. AgreementInv' /\ Staged' /\ StillCopied'
  BY <1>3, EndingsStay
<1> QED BY <1>4, <1>5, <1>6, <1>7, <1>8 DEF MatchInv

LEMMA RunTickKeeps ==
    ASSUME MatchInv, NEW s \in Seats, AdvanceTick(s)
    PROVE  MatchInv'
<1> USE Numbers
<1>0. /\ next \in [Seats -> 1 .. LastTick] /\ through \in [Seats -> 0 .. LastTick + Delay]
      /\ asks \in [Seats -> 0 .. LastTick + Delay]
  BY DEF MatchInv, MatchTypeOK
<1>1. /\ next' = [next EXCEPT ![s] = @ + 1] /\ next[s] < LastTick
      /\ UNCHANGED <<live, agreementVars, match, asks, finish, quiesce>>
  BY DEF AdvanceTick, agreementVars, simulation
<1>2. /\ through' \in [Seats -> 0 .. LastTick + Delay]
      /\ \A u \in Seats : through'[u] >= through[u] /\ (u # s => through'[u] = through[u])
      /\ live => /\ next[s] <= through'[s] + 1 + Ahead
                 /\ \A u \in Seats : through'[s] <= Sampled(u)
      /\ ~live => \A u \in Seats : next[s] <= Sampled(u)
  <2>1. CASE live
    <3>1. PICK t \in Confirmable(s) : next[s] <= t + 1 + Ahead /\ through' = [through EXCEPT ![s] = t]
      BY <2>1 DEF AdvanceTick
    <3>2. /\ t \in 0 .. LastTick /\ t >= through[s]
          /\ \A u \in Seats : t <= Sampled(u)
      BY <1>0 DEF Confirmable, Sampled
    <3>3. through'[s] = t /\ \A u \in Seats : u # s => through'[u] = through[u]
      BY <1>0, <3>1
    <3>4. through' \in [Seats -> 0 .. LastTick + Delay]
      BY <1>0, <3>1, <3>2
    <3> QED BY <1>0, <2>1, <3>1, <3>2, <3>3, <3>4
  <2>2. CASE ~live
    BY <1>0, <2>2 DEF AdvanceTick, Sampled
  <2> QED BY <2>1, <2>2
<1>3. next' \in [Seats -> 1 .. LastTick] /\ next'[s] = next[s] + 1
      /\ \A u \in Seats : next'[u] >= next[u] /\ (u # s => next'[u] = next[u])
  BY <1>0, <1>1
<1>4. MatchTypeOK'
  <2>1. AgreementTypeOK'
    BY <1>1, StutterKeeps DEF MatchInv, AgreementInv
  <2> QED BY <1>1, <1>2, <1>3, <2>1 DEF MatchInv, MatchTypeOK
<1>5. Watermarks'
  <2>1. \A u \in Seats : Sampled(u) \in Int /\ Sampled(u)' \in Int /\ Sampled(u) <= Sampled(u)'
    BY <1>0, <1>3 DEF Sampled
  <2>2. ASSUME live, NEW x \in Seats, NEW u \in Seats
        PROVE  through'[x] <= Sampled(u)'
    <3>1. through'[x] <= Sampled(u)
      BY <1>2, <2>2 DEF MatchInv, Watermarks
    <3> QED BY <1>2, <2>1, <3>1
  <2>3. ASSUME ~live, NEW x \in Seats, NEW u \in Seats
        PROVE  next'[x] - 1 <= Sampled(u)'
    <3>1. next'[x] - 1 <= Sampled(u)
      BY <1>0, <1>2, <1>3, <2>3 DEF MatchInv, Watermarks
    <3> QED BY <1>3, <2>1, <3>1
  <2>4. ASSUME live, NEW x \in Seats
        PROVE  next'[x] <= through'[x] + Ahead + 2
    BY <1>0, <1>2, <1>3, <2>4 DEF MatchInv, Watermarks
  <2> QED BY <1>1, <2>2, <2>3, <2>4 DEF Watermarks
<1>6. Asked'
  BY <1>1 DEF MatchInv, Asked
<1>7. \A u \in Seats : Watermark(u) \in Nat /\ Watermark(u)' \in Nat /\ Watermark(u) <= Watermark(u)'
  BY <1>0, <1>1, <1>2, <1>3 DEF Watermark
<1>8. Planned'
  <2>1. SUFFICES ASSUME NEW x \in Seats, finish[x] # 0
                 PROVE  \E v \in Seats :
                           /\ asks[v] # 0 /\ asks[v] <= Watermark(x)'
                           /\ finish[x] = asks[v] + Lead
                           /\ \A u \in Seats : asks[u] # 0 => asks[v] <= asks[u]
    BY <1>1 DEF Planned
  <2>2. PICK v \in Seats :
                           /\ asks[v] # 0 /\ asks[v] <= Watermark(x)
                           /\ finish[x] = asks[v] + Lead
                           /\ \A u \in Seats : asks[u] # 0 => asks[v] <= asks[u]
    BY <2>1 DEF MatchInv, Planned
  <2>3. asks[v] <= Watermark(x)'
    BY <1>0, <1>7, <2>2
  <2> QED BY <2>2, <2>3
<1>9. InTime'
  <2>1. SUFFICES ASSUME NEW x \in Seats, NEW t \in Seats, finish[x] = 0, asks[t] # 0
                 PROVE  next'[x] <= asks[t] + Lead
    BY <1>1 DEF InTime
  <2>2. CASE x # s
    BY <1>3, <2>1, <2>2 DEF MatchInv, InTime
  <2>3. CASE x = s
    <3>1. asks[t] \notin Requests(s)
      BY <2>1, <2>3 DEF AdvanceTick, Looked
    <3>2. asks[t] > Watermark(s)
      BY <1>0, <1>7, <2>1, <3>1 DEF Requests
    <3>3. CASE live
      <4>1. next[s] <= through[s] + Ahead + 2
        BY <3>3 DEF MatchInv, Watermarks
      <4>2. asks[t] > through[s]
        BY <3>2, <3>3 DEF Watermark
      <4> QED BY <1>0, <1>3, <2>3, <4>1, <4>2
    <3>4. CASE ~live
      <4>1. asks[t] > next[s] - 1
        BY <3>2, <3>4 DEF Watermark
      <4> QED BY <1>0, <1>3, <2>3, <4>1
    <3> QED BY <3>3, <3>4
  <2> QED BY <2>2, <2>3
<1>10. AgreementInv' /\ Staged' /\ StillCopied'
  BY <1>1, EndingsStay
<1> QED BY <1>4, <1>5, <1>6, <1>8, <1>9, <1>10 DEF MatchInv

LEMMA RequestCheckpointKeeps ==
    ASSUME MatchInv, NEW s \in Seats, RequestCheckpoint(s)
    PROVE  MatchInv'
<1> USE Numbers
<1>0. /\ next \in [Seats -> 1 .. LastTick] /\ through \in [Seats -> 0 .. LastTick + Delay]
      /\ asks \in [Seats -> 0 .. LastTick + Delay]
  BY DEF MatchInv, MatchTypeOK
<1>1. /\ asks' = [asks EXCEPT ![s] = next[s] + Delay] /\ asks[s] = 0
      /\ next[s] + Delay + Lead < LastTick
      /\ UNCHANGED <<live, agreementVars, match, next, through, finish, quiesce>>
  BY DEF RequestCheckpoint, agreementVars, simulation
<1>2. /\ asks' \in [Seats -> 0 .. LastTick + Delay] /\ asks'[s] = Sampled(s) + 1
      /\ \A u \in Seats \ {s} : asks'[u] = asks[u]
  BY <1>0, <1>1 DEF Sampled
<1>3. MatchTypeOK'
  <2>1. AgreementTypeOK'
    BY <1>1, StutterKeeps DEF MatchInv, AgreementInv
  <2> QED BY <1>1, <1>2, <2>1 DEF MatchInv, MatchTypeOK
<1>4. Watermarks'
  BY <1>1 DEF MatchInv, Watermarks, Sampled
<1>5. Asked'
  BY <1>0, <1>1, <1>2 DEF MatchInv, Asked, Sampled
<1>6. \A u \in Seats : Watermark(u) \in Nat /\ Watermark(u) <= Sampled(s) /\ Watermark(u)' = Watermark(u)
  BY <1>0, <1>1 DEF MatchInv, Watermarks, Watermark
<1>7. Sampled(s) \in Nat
  BY <1>0 DEF Sampled
<1>8. Planned'
  <2>1. SUFFICES ASSUME NEW x \in Seats, finish[x] # 0
                 PROVE  \E v \in Seats :
                           /\ asks'[v] # 0 /\ asks'[v] <= Watermark(x)
                           /\ finish[x] = asks'[v] + Lead
                           /\ \A u \in Seats : asks'[u] # 0 => asks'[v] <= asks'[u]
    BY <1>1, <1>6 DEF Planned
  <2>2. PICK v \in Seats :
                           /\ asks[v] # 0 /\ asks[v] <= Watermark(x)
                           /\ finish[x] = asks[v] + Lead
                           /\ \A u \in Seats : asks[u] # 0 => asks[v] <= asks[u]
    BY <2>1 DEF MatchInv, Planned
  <2>3. v # s /\ asks'[v] = asks[v]
    BY <1>1, <1>2, <2>2
  <2>4. asks[v] <= asks'[s]
    BY <1>0, <1>2, <1>6, <1>7, <2>2
  <2> QED BY <1>2, <2>2, <2>3, <2>4
<1>9. InTime'
  <2>1. SUFFICES ASSUME NEW x \in Seats, finish[x] = 0
                 PROVE  next[x] <= Sampled(s) + 1 + Lead
    BY <1>1, <1>2 DEF MatchInv, InTime
  <2>2. CASE live
    <3>1. next[x] <= through[x] + Ahead + 2 /\ through[x] <= Sampled(s)
      BY <2>2 DEF MatchInv, Watermarks
    <3> QED BY <1>0, <1>7, <3>1
  <2>3. CASE ~live
    <3>1. next[x] - 1 <= Sampled(s)
      BY <2>3 DEF MatchInv, Watermarks
    <3> QED BY <1>0, <1>7, <3>1
  <2> QED BY <2>2, <2>3
<1>10. AgreementInv' /\ Staged' /\ StillCopied'
  BY <1>1, EndingsStay
<1> QED BY <1>3, <1>4, <1>5, <1>8, <1>9, <1>10 DEF MatchInv

LEMMA PlanKeeps ==
    ASSUME MatchInv, NEW s \in Seats, Plan(s)
    PROVE  MatchInv'
<1> USE Numbers
<1>0. /\ next \in [Seats -> 1 .. LastTick] /\ through \in [Seats -> 0 .. LastTick + Delay]
      /\ asks \in [Seats -> 0 .. LastTick + Delay]
      /\ finish \in [Seats -> 0 .. LastTick + Delay + Lead]
      /\ proposed \in [Seats -> Ticks]
      /\ match \in [Seats -> {"Running", "AgreeingCheckpoint", "CheckpointReady", "Failed"}]
  BY DEF MatchInv, MatchTypeOK, AgreementTypeOK
<1>1. PICK t \in Seats :
         /\ asks[t] # 0 /\ asks[t] <= Watermark(s)
         /\ First(Requests(s)) = asks[t]
         /\ \A u \in Seats : asks[u] # 0 => asks[t] <= asks[u]
  BY FirstRequest DEF Plan, MatchInv
<1>2. /\ match[s] = "Running" /\ finish[s] = 0
      /\ UNCHANGED <<live, world, reached, phase, sending, arrived, receipts, held, wire,
                     next, through, asks, quiesce>>
  BY DEF Plan, Plays
<1>3. asks[t] > Delay /\ asks[t] + Lead < LastTick
  BY <1>1 DEF MatchInv, Asked
<1>4. \/ match' = [match EXCEPT ![s] = "Failed"] /\ UNCHANGED <<finish, proposed>>
      \/ /\ finish' = [finish EXCEPT ![s] = asks[t] + Lead]
         /\ proposed' = [proposed EXCEPT ![s] = asks[t] + Lead] /\ UNCHANGED match
  BY <1>1 DEF Plan, FailMatch
<1>5. /\ proposed' \in [Seats -> Ticks] /\ finish' \in [Seats -> 0 .. LastTick + Delay + Lead]
      /\ match' \in [Seats -> {"Running", "AgreeingCheckpoint", "CheckpointReady", "Failed"}]
      /\ \A u \in Seats \ {s} : /\ proposed'[u] = proposed[u] /\ finish'[u] = finish[u]
                                /\ match'[u] = match[u]
      /\ finish'[s] \in {0, asks[t] + Lead} /\ match'[s] \in {"Running", "Failed"}
  <2>1. asks[t] + Lead \in 0 .. LastTick
    BY <1>0, <1>3
  <2>2. CASE match' = [match EXCEPT ![s] = "Failed"] /\ UNCHANGED <<finish, proposed>>
    BY <1>0, <1>2, <2>2
  <2>3. CASE /\ finish' = [finish EXCEPT ![s] = asks[t] + Lead]
             /\ proposed' = [proposed EXCEPT ![s] = asks[t] + Lead] /\ UNCHANGED match
    <3>1. asks[t] + Lead \in Ticks /\ asks[t] + Lead \in 0 .. LastTick + Delay + Lead
      BY <2>1
    <3> QED BY <1>0, <1>2, <2>3, <3>1
  <2> QED BY <1>4, <2>2, <2>3
<1>6. phase[s] = "none" /\ held[s] = Nothing
  BY <1>2 DEF MatchInv, Staged, AgreementInv, Copied
<1>7. AgreementInv'
  <2>1. AgreementTypeOK'
    BY <1>2, <1>5 DEF MatchInv, AgreementInv, AgreementTypeOK, wire
  <2>2. Copied' /\ Answers' /\ Stages' /\ Receipts' /\ HostIsLast'
    BY <1>2 DEF MatchInv, AgreementInv, Copied, Answers, Stages, Receipts, HostIsLast, wire
  <2> QED BY <2>1, <2>2 DEF AgreementInv
<1>8. MatchTypeOK'
  BY <1>2, <1>5, <1>7 DEF MatchInv, MatchTypeOK, AgreementInv
<1>9. Watermarks' /\ Asked'
  BY <1>2 DEF MatchInv, Watermarks, Asked, Sampled
<1>10. \A u \in Seats : Watermark(u)' = Watermark(u)
  BY <1>2 DEF Watermark
<1>11. Planned'
  <2>1. SUFFICES ASSUME NEW x \in Seats, finish'[x] # 0
                 PROVE  \E v \in Seats :
                           /\ asks[v] # 0 /\ asks[v] <= Watermark(x)
                           /\ finish'[x] = asks[v] + Lead
                           /\ \A u \in Seats : asks[u] # 0 => asks[v] <= asks[u]
    BY <1>2, <1>10 DEF Planned
  <2>2. CASE x = s
    BY <1>1, <1>5, <2>1, <2>2
  <2>3. CASE x # s
    BY <1>5, <2>1, <2>3 DEF MatchInv, Planned
  <2> QED BY <2>2, <2>3
<1>12. InTime'
  <2>1. \A x \in Seats : finish'[x] = 0 => finish[x] = 0
    BY <1>2, <1>5
  <2> QED BY <1>2, <2>1 DEF MatchInv, InTime
<1>13. Staged'
  BY <1>2, <1>5, <1>6 DEF MatchInv, Staged
<1>14. StillCopied'
  <2>1. ASSUME NEW x \in Seats, x # s
        PROVE  Copy(x)' = Copy(x)
    BY <1>2, <1>5, <2>1 DEF Copy
  <2>2. ASSUME ~live, NEW x \in Seats, held[x] # Nothing
        PROVE  held[x] = Copy(x)'
    <3>1. x # s /\ held[x] = Copy(x)
      BY <1>6, <2>2 DEF MatchInv, StillCopied
    <3> QED BY <2>1, <3>1
  <2>3. ASSUME NEW x \in Seats, match'[x] = "CheckpointReady"
        PROVE  phase[x] = "Done" /\ held[x] = Copy(x)'
    <3>1. x # s /\ match[x] = "CheckpointReady"
      BY <1>5, <2>3
    <3> QED BY <2>1, <3>1 DEF MatchInv, StillCopied
  <2> QED BY <1>2, <2>2, <2>3 DEF StillCopied
<1> QED BY <1>7, <1>8, <1>9, <1>11, <1>12, <1>13, <1>14 DEF MatchInv

LEMMA SettleKeeps ==
    ASSUME MatchInv, NEW s \in Seats, Settle(s)
    PROVE  MatchInv'
<1>1. /\ UNCHANGED matchVars
      /\ UNCHANGED <<live, proposed, world, phase, held>>
  BY DEF Settle, Reach
<1>2. AgreementInv'
  BY ReachKeeps DEF Settle, MatchInv
<1>3. Clocks'
  BY <1>1, ClocksStay DEF MatchInv, Clocks, matchVars
<1>4. MatchTypeOK'
  BY <1>1, <1>2 DEF MatchInv, MatchTypeOK, AgreementInv, matchVars
<1>5. Staged' /\ StillCopied'
  BY <1>1 DEF MatchInv, Staged, StillCopied, Copy, matchVars
<1> QED BY <1>2, <1>3, <1>4, <1>5 DEF MatchInv, Clocks

LEMMA ReopenKeeps ==
    ASSUME MatchInv, NEW s \in Seats, Reopen(s)
    PROVE  MatchInv'
<1>1. /\ UNCHANGED matchVars /\ match[s] = "Running" /\ live
      /\ UNCHANGED <<live, proposed, phase, held>>
  BY DEF Reopen, Correct, Plays
<1>2. AgreementInv'
  BY CorrectKeeps DEF Reopen, MatchInv
<1>3. Clocks'
  BY <1>1, ClocksStay DEF MatchInv, Clocks, matchVars
<1>4. MatchTypeOK'
  BY <1>1, <1>2 DEF MatchInv, MatchTypeOK, AgreementInv, matchVars
<1>5. ASSUME NEW x \in Seats, x # s
      PROVE  Copy(x)' = Copy(x)
  <2>1. world'[x] = world[x]
    BY <1>5 DEF Reopen, Correct, MatchInv, AgreementInv, AgreementTypeOK
  <2> QED BY <1>1, <2>1 DEF Copy
<1>6. Staged'
  BY <1>1 DEF MatchInv, Staged, matchVars
<1>7. StillCopied'
  <2>1. ASSUME NEW x \in Seats, match[x] = "CheckpointReady"
        PROVE  phase[x] = "Done" /\ held[x] = Copy(x)'
    <3>1. x # s
      BY <1>1, <2>1
    <3> QED BY <1>5, <2>1, <3>1 DEF MatchInv, StillCopied
  <2> QED BY <1>1, <2>1 DEF StillCopied, matchVars
<1> QED BY <1>2, <1>3, <1>4, <1>6, <1>7 DEF MatchInv, Clocks

LEMMA ConstructKeeps ==
    ASSUME MatchInv, NEW s \in Seats, Construct(s)
    PROVE  MatchInv'
<1>0. /\ match \in [Seats -> {"Running", "AgreeingCheckpoint", "CheckpointReady", "Failed"}]
      /\ phase \in [Seats -> HostPhases \cup GuestPhases]
      /\ held \in [Seats -> Checkpoint \cup {Nothing}]
  BY DEF MatchInv, MatchTypeOK, AgreementTypeOK
<1>1. /\ UNCHANGED <<simulation, next, through, asks, finish, quiesce>>
      /\ match[s] = "Running" /\ finish[s] # 0 /\ phase[s] = "none"
      /\ \A x \in Seats \ {s} : phase'[x] = phase[x] /\ held'[x] = held[x] /\ match'[x] = match[x]
      /\ match'[s] \in {"Running", "AgreeingCheckpoint"}
      /\ ~live => held'[s] \in {held[s], Copy(s)}
  BY <1>0 DEF Construct, Begin, Plays, Confirmed, To, Holds
<1>2. AgreementInv'
  BY BeginKeeps DEF Construct, MatchInv
<1>3. Clocks'
  BY <1>1, ClocksStay DEF MatchInv, Clocks, simulation
<1>4. match' \in [Seats -> {"Running", "AgreeingCheckpoint", "CheckpointReady", "Failed"}]
  BY <1>0 DEF Construct
<1>5. MatchTypeOK'
  BY <1>1, <1>2, <1>4 DEF MatchInv, MatchTypeOK, AgreementInv
<1>6. \A x \in Seats : Copy(x)' = Copy(x)
  BY <1>1 DEF Copy, simulation
<1>7. Staged'
  BY <1>1 DEF MatchInv, Staged
<1>8. StillCopied'
  BY <1>1, <1>6 DEF MatchInv, StillCopied, simulation
<1> QED BY <1>2, <1>3, <1>5, <1>7, <1>8 DEF MatchInv, Clocks

LEMMA PollAgreementKeeps ==
    ASSUME MatchInv, NEW s \in Seats, PollAgreement(s)
    PROVE  MatchInv'
<1>0. /\ match \in [Seats -> {"Running", "AgreeingCheckpoint", "CheckpointReady", "Failed"}]
      /\ quiesce \in [Seats -> {"none", "requested", "drained", "timedout"}]
  BY DEF MatchInv, MatchTypeOK
<1>1. /\ AgreementPoll(s)
      /\ match[s] \in {"Running", "AgreeingCheckpoint"}
      /\ UNCHANGED <<next, through, asks, finish>>
      /\ match' = [match EXCEPT ![s] =
            IF phase'[s] = "Failed" THEN "Failed"
            ELSE IF phase'[s] = "Done" /\ ~live THEN "CheckpointReady" ELSE @]
      /\ quiesce' = [quiesce EXCEPT ![s] =
            IF phase'[s] = "Done" /\ live THEN "requested" ELSE @]
  BY DEF PollAgreement, AgreementPoll, Followed
<1>2. AgreementInv'
  BY <1>1, AgreementPollKeeps DEF MatchInv
<1>3. /\ UNCHANGED <<live, proposed, world, reached>>
      /\ phase[s] \notin {"none", "Done", "Failed"}
      /\ \A u \in Seats \ {s} : phase'[u] = phase[u] /\ held'[u] = held[u]
      /\ held'[s] = held[s] \/ held'[s] = Copy(s)
  BY <1>1, PollIsOwn DEF MatchInv, simulation
<1>4. Clocks'
  BY <1>1, <1>3, ClocksStay DEF MatchInv, Clocks
<1>5. /\ match' \in [Seats -> {"Running", "AgreeingCheckpoint", "CheckpointReady", "Failed"}]
      /\ quiesce' \in [Seats -> {"none", "requested", "drained", "timedout"}]
      /\ \A u \in Seats \ {s} : match'[u] = match[u] /\ quiesce'[u] = quiesce[u]
      /\ match'[s] = "CheckpointReady" => phase'[s] = "Done" /\ ~live
      /\ quiesce'[s] # "none" => phase'[s] = "Done" \/ quiesce[s] # "none"
  BY <1>0, <1>1
<1>6. MatchTypeOK'
  BY <1>1, <1>2, <1>5 DEF MatchInv, MatchTypeOK, AgreementInv
<1>7. \A x \in Seats : Copy(x)' = Copy(x)
  BY <1>3 DEF Copy
<1>8. Staged'
  BY <1>1, <1>3, <1>5 DEF MatchInv, Staged
<1>9. ~live => \A x \in Seats : held'[x] # Nothing => held'[x] = Copy(x)
  BY <1>3 DEF MatchInv, StillCopied
<1>10. ASSUME NEW x \in Seats, match'[x] = "CheckpointReady"
       PROVE  phase'[x] = "Done" /\ held'[x] = Copy(x)
  <2>1. CASE x = s
    <3>1. phase'[s] = "Done" /\ ~live
      BY <1>5, <1>10, <2>1
    <3>2. held'[s] # Nothing
      <4>1. DoneMeansAllHold'
        BY <1>2, Shared, PTL
      <4> QED BY <3>1, <4>1 DEF DoneMeansAllHold
    <3> QED BY <1>9, <2>1, <3>1, <3>2
  <2>2. CASE x # s
    BY <1>3, <1>5, <1>10, <2>2 DEF MatchInv, StillCopied
  <2> QED BY <2>1, <2>2
<1>11. StillCopied'
  BY <1>3, <1>7, <1>9, <1>10 DEF StillCopied
<1> QED BY <1>2, <1>4, <1>6, <1>8, <1>11 DEF MatchInv, Clocks

(* The driver drains, the match ends or fails, a seat leaves: the agreement
   stays as it is, and only agreement lets a checkpoint be saved. *)
LEMMA EndsKeeps ==
    ASSUME MatchInv, NEW s \in Seats, Drains(s) \/ Finish(s) \/ PeerLost(s)
    PROVE  MatchInv'
<1>0. /\ match \in [Seats -> {"Running", "AgreeingCheckpoint", "CheckpointReady", "Failed"}]
      /\ quiesce \in [Seats -> {"none", "requested", "drained", "timedout"}]
  BY DEF MatchInv, MatchTypeOK
<1>1. /\ UNCHANGED <<agreementVars, next, through, asks, finish>>
      /\ match' \in [Seats -> {"Running", "AgreeingCheckpoint", "CheckpointReady", "Failed"}]
      /\ quiesce' \in [Seats -> {"none", "requested", "drained", "timedout"}]
      /\ \A u \in Seats \ {s} : match'[u] = match[u] /\ quiesce'[u] = quiesce[u]
      /\ quiesce'[s] # "none" => quiesce[s] # "none"
      /\ match'[s] = "CheckpointReady" => \/ match[s] = "CheckpointReady"
                                          \/ quiesce[s] # "none" /\ held[s] = Copy(s)
  <2>1. CASE Drains(s)
    BY <1>0, <2>1 DEF Drains, agreementVars
  <2>2. CASE Finish(s)
    BY <1>0, <2>2 DEF Finish, FailMatch, Unchanged, agreementVars
  <2>3. CASE PeerLost(s)
    BY <1>0, <2>3 DEF PeerLost, FailMatch, agreementVars
  <2> QED BY <2>1, <2>2, <2>3
<1>2. UNCHANGED <<live, proposed, world, phase, held>>
  BY <1>1 DEF agreementVars, simulation
<1>3. AgreementInv'
  BY <1>1, StutterKeeps DEF MatchInv
<1>4. Clocks'
  BY <1>1, <1>2, ClocksStay DEF MatchInv, Clocks
<1>5. MatchTypeOK'
  BY <1>1, <1>3 DEF MatchInv, MatchTypeOK, AgreementInv
<1>6. Staged'
  BY <1>1, <1>2 DEF MatchInv, Staged
<1>7. \A x \in Seats : Copy(x)' = Copy(x)
  BY <1>2 DEF Copy
<1>8. ASSUME NEW x \in Seats, match'[x] = "CheckpointReady"
      PROVE  phase[x] = "Done" /\ held[x] = Copy(x)
  BY <1>1, <1>8 DEF MatchInv, StillCopied, Staged
<1>9. StillCopied'
  BY <1>2, <1>7, <1>8 DEF MatchInv, StillCopied
<1> QED BY <1>3, <1>4, <1>5, <1>6, <1>9 DEF MatchInv, Clocks

LEMMA QuitsKeeps ==
    ASSUME MatchInv, NEW s \in Seats, Quits(s)
    PROVE  MatchInv'
<1>1. UNCHANGED matchVars /\ UNCHANGED <<live, proposed, world, phase, held>>
  BY DEF Quits, Leave, simulation
<1>2. AgreementInv'
  BY LeaveKeeps DEF Quits, MatchInv
<1>3. Clocks'
  BY <1>1, ClocksStay DEF MatchInv, Clocks, matchVars
<1>4. MatchTypeOK'
  BY <1>1, <1>2 DEF MatchInv, MatchTypeOK, AgreementInv, matchVars
<1>5. Staged' /\ StillCopied'
  BY <1>1 DEF MatchInv, Staged, StillCopied, Copy, matchVars
<1> QED BY <1>2, <1>3, <1>4, <1>5 DEF MatchInv, Clocks

LEMMA MatchStarts ==
    ASSUME MatchInit
    PROVE  MatchInv
<1> USE Numbers
<1>1. AgreementInv
  BY StartsWell DEF MatchInit
<1>2. MatchTypeOK
  BY <1>1 DEF MatchInit, MatchTypeOK, AgreementInv
<1>3. Watermarks /\ Asked /\ Planned /\ InTime
  BY DEF MatchInit, Watermarks, Asked, Planned, InTime, Sampled
<1>4. Staged /\ StillCopied
  BY DEF MatchInit, AgreementInit, Staged, StillCopied
<1> QED BY <1>1, <1>2, <1>3, <1>4 DEF MatchInv

LEMMA MatchSteps ==
    ASSUME MatchInv, [MatchNext]_allVars
    PROVE  MatchInv'
<1>1. CASE UNCHANGED allVars
  <2>1. UNCHANGED agreementVars /\ UNCHANGED <<match, next, through, asks, finish, quiesce, live>>
    BY <1>1 DEF allVars, matchVars, agreementVars, simulation
  <2>2. AgreementInv' /\ Staged' /\ StillCopied'
    BY <2>1, EndingsStay
  <2>3. MatchTypeOK'
    BY <2>1, <2>2 DEF MatchInv, MatchTypeOK, AgreementInv
  <2>4. Clocks'
    BY <2>1, ClocksStay DEF MatchInv, Clocks
  <2> QED BY <2>2, <2>3, <2>4 DEF MatchInv, Clocks
<1>2. ASSUME NEW s \in Seats,
             \/ AdvanceTick(s) \/ ConfirmTick(s) \/ RequestCheckpoint(s) \/ Plan(s)
             \/ Settle(s) \/ Reopen(s) \/ Construct(s) \/ PollAgreement(s)
             \/ Drains(s) \/ Finish(s) \/ PeerLost(s) \/ Quits(s)
      PROVE  MatchInv'
  BY <1>2, RunTickKeeps, ConfirmTickKeeps, RequestCheckpointKeeps, PlanKeeps, SettleKeeps,
     ReopenKeeps, ConstructKeeps, PollAgreementKeeps, EndsKeeps, QuitsKeeps
<1> QED BY <1>1, <1>2 DEF MatchNext

-----------------------------------------------------------------------------
(* Clocks, plans, stages and copies of a match hold for any seats, delays,
   windows and leads that the assumptions allow (poll() of GbaNetplayMatch). *)
THEOREM MatchInvariant == MatchSpec => []MatchInv
BY MatchStarts, MatchSteps, PTL DEF MatchSpec

(* Whoever asks, and whenever each seat learns of it, the seats of a match plan
   the same boundary (checkpoint_request() and finish_at()). *)
THEOREM MatchPlansTogether == MatchSpec => []SameBoundary
<1>1. ASSUME MatchInv
      PROVE  SameBoundary
  <2>1. SUFFICES ASSUME NEW s \in Seats, NEW t \in Seats, finish[s] # 0, finish[t] # 0
                 PROVE  finish[s] = finish[t]
    BY DEF SameBoundary
  <2>2. PICK a \in Seats : /\ asks[a] # 0 /\ finish[s] = asks[a] + Lead
                           /\ \A u \in Seats : asks[u] # 0 => asks[a] <= asks[u]
    BY <1>1, <2>1 DEF MatchInv, Planned
  <2>3. PICK b \in Seats : /\ asks[b] # 0 /\ finish[t] = asks[b] + Lead
                           /\ \A u \in Seats : asks[u] # 0 => asks[b] <= asks[u]
    BY <1>1, <2>1 DEF MatchInv, Planned
  <2>4. asks[a] \in Nat /\ asks[b] \in Nat
    BY <1>1, Numbers DEF MatchInv, MatchTypeOK
  <2> QED BY <2>2, <2>3, <2>4
<1> QED BY <1>1, MatchInvariant, PTL

(* No seat sees a request when it is past the boundary it calls for: the lead
   covers the delay of the rows and the reach of the prediction (finish_at()
   never finds its tick behind next_tick()). *)
THEOREM MatchIsNeverTooLate == MatchSpec => []NeverTooLate
<1>1. ASSUME MatchInv
      PROVE  NeverTooLate
  <2>1. SUFFICES ASSUME NEW s \in Seats, finish[s] = 0, Requests(s) # {}
                 PROVE  next[s] <= First(Requests(s)) + Lead
    BY DEF NeverTooLate
  <2>2. PICK t \in Seats : asks[t] # 0 /\ First(Requests(s)) = asks[t]
    BY <1>1, <2>1, FirstRequest DEF MatchInv
  <2> QED BY <1>1, <2>1, <2>2 DEF MatchInv, InTime
<1> QED BY <1>1, MatchInvariant, PTL

(* A driver is asked to stop only when every seat holds the one checkpoint
   (rnet_rb_driver_request_quiesce behind checkpoint_agreed_). *)
THEOREM MatchStopsTogether == MatchSpec => []QuiesceWhenAllHold
<1>1. ASSUME MatchInv
      PROVE  QuiesceWhenAllHold
  <2>1. SUFFICES ASSUME NEW s \in Seats, quiesce[s] # "none"
                 PROVE  \A t \in Seats : held[t] # Nothing /\ held[t] = held[s]
    BY DEF QuiesceWhenAllHold
  <2>2. DoneMeansAllHold /\ phase[s] = "Done"
    BY <1>1, <2>1, Shared DEF MatchInv, Staged
  <2> QED BY <2>2 DEF DoneMeansAllHold
<1> QED BY <1>1, MatchInvariant, PTL

(* What a seat saves is what all agreed on and what its own simulation has at
   the boundary (checkpoint_unchanged() before CheckpointReady). *)
THEOREM MatchSavesAgreed == MatchSpec => []SavedAsAgreed
<1>1. ASSUME MatchInv
      PROVE  SavedAsAgreed
  <2>1. SUFFICES ASSUME NEW s \in Seats, match[s] = "CheckpointReady"
                 PROVE  held[s] = Copy(s) /\ \A t \in Seats : held[t] = held[s]
    BY DEF SavedAsAgreed
  <2>2. DoneMeansAllHold /\ phase[s] = "Done" /\ held[s] = Copy(s)
    BY <1>1, <2>1, Shared DEF MatchInv, StillCopied
  <2> QED BY <2>2 DEF DoneMeansAllHold
<1> QED BY <1>1, MatchInvariant, PTL

(* Types; the ticks of every clock and request stay within their bounds. *)
THEOREM MatchTypeCorrect == MatchSpec => []MatchTypeOK
<1>1. MatchInv => MatchTypeOK
  BY DEF MatchInv
<1> QED BY <1>1, MatchInvariant, PTL
=============================================================================
