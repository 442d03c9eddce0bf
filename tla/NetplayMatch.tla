---------------------------- MODULE NetplayMatch ----------------------------
(***************************************************************************)
(* GbaNetplayMatch from the first frame to the checkpoint: the save-and-   *)
(* leave request travels as a bit of the input rows, every seat derives    *)
(* the boundary from the confirmed history, the agreement runs beside the  *)
(* rollback drivers, and what was agreed is checked again once they have   *)
(* stopped.  Without rollback the agreement begins when the boundary is    *)
(* reached, and the match stands still.                                    *)
(*                                                                         *)
(* The driver is external.  Of it the match uses the frames it admits, the *)
(* confirmed watermark, corrections, and quiescence.                       *)
(***************************************************************************)
EXTENDS CheckpointAgreement

CONSTANTS Delay,    \* input delay: a row is sampled this many ticks ahead
          Ahead,    \* how far a seat may run beyond the confirmed rows
          Lead,     \* from the row of the request to the boundary (64)
          LastTick  \* bound on ticks

ASSUME LeadAssumption == Delay \in Nat /\ Ahead \in Nat /\ Lead \in Nat
                       /\ Lead >= Ahead + 2
ASSUME LastTickAssumption == LastTick \in Nat \ {0} /\ 0 .. LastTick \subseteq Ticks

VARIABLES
    match,     \* phase_
    next,      \* host_.next_tick()
    through,   \* the driver's confirmed_through
    asks,      \* the first row of a seat with the request, 0 for none
    finish,    \* finish_tick_, 0 for none
    quiesce    \* the driver's quiesce_state

matchVars == <<match, next, through, asks, finish, quiesce>>
allVars == <<agreementVars, matchVars>>

MatchInit ==
    /\ AgreementInit
    /\ proposed = [s \in Seats |-> 0]
    /\ match = [s \in Seats |-> "Running"]
    /\ next = [s \in Seats |-> 1] /\ through = [s \in Seats |-> 0]
    /\ asks = [s \in Seats |-> 0]
    /\ finish = [s \in Seats |-> 0]
    /\ quiesce = [s \in Seats |-> "none"]

Plays(s) == match[s] = "Running" /\ s \notin left

(* Rows of a seat are on the wire up to the tick it has sampled.  The driver
   confirms a tick when all rows for it are here and it has run with them.
   Without a driver only such ticks run. *)
Sampled(s) == next[s] + Delay - 1
Confirmable(s) == {t \in through[s] .. LastTick :
    t < next[s] /\ \A u \in Seats : Sampled(u) >= t}
Watermark(s) == IF live THEN through[s] ELSE next[s] - 1
Confirmed(s) == finish[s] # 0 /\ next[s] >= finish[s] /\ Watermark(s) >= finish[s] - 1

(* Mutant: a request is acted on when it is seen, predicted or not. *)
Requests_Unconfirmed(s) == {asks[t] : t \in Seats} \cap 1 .. next[s]

(* host_.checkpoint_request(through): the first row of the confirmed history
   that carries a request (RequestIsInHistory of NetplayHost). *)
Requests(s) == {asks[t] : t \in Seats} \cap 1 .. Watermark(s)
First(set) == CHOOSE t \in set : \A u \in set : t <= u

ConfirmTick(s) ==
    /\ live /\ s \notin left
    /\ \E t \in Confirmable(s) : through' = [through EXCEPT ![s] = t]
    /\ UNCHANGED <<agreementVars, match, next, asks, finish, quiesce>>

(* Mutant: a poll runs its frame before it looks for a request. *)
Looked_Later(s) == TRUE

Looked(s) == finish[s] # 0 \/ Requests(s) = {}

(* The end of a poll: one frame.  The request was looked for at the beginning;
   the driver may confirm more before it admits the frame. *)
AdvanceTick(s) ==
    /\ Plays(s) /\ next[s] < LastTick
    /\ Looked(s)
    /\ IF live
       THEN /\ quiesce[s] # "drained"
            /\ \E t \in Confirmable(s) :
                  next[s] <= t + 1 + Ahead /\ through' = [through EXCEPT ![s] = t]
       ELSE ~Confirmed(s) /\ (\A u \in Seats : Sampled(u) >= next[s]) /\ UNCHANGED through
    /\ next' = [next EXCEPT ![s] = @ + 1]
    /\ UNCHANGED <<agreementVars, match, asks, finish, quiesce>>

(* request_checkpoint(): from now on every row this seat samples has the bit. *)
RequestCheckpoint(s) ==
    /\ Plays(s) /\ finish[s] = 0 /\ asks[s] = 0
    /\ next[s] + Delay + Lead < LastTick
    /\ asks' = [asks EXCEPT ![s] = next[s] + Delay]
    /\ UNCHANGED <<agreementVars, match, next, through, finish, quiesce>>

FailMatch(s) == match' = [match EXCEPT ![s] = "Failed"]

Plan(s) ==
    /\ Plays(s) /\ finish[s] = 0 /\ Requests(s) # {}
    /\ LET boundary == First(Requests(s)) + Lead IN
          IF boundary < next[s]
          THEN FailMatch(s) /\ UNCHANGED <<finish, proposed>>
          ELSE /\ finish' = [finish EXCEPT ![s] = boundary]
               /\ proposed' = [proposed EXCEPT ![s] = boundary]
               /\ UNCHANGED match
    /\ UNCHANGED <<live, world, reached, phase, sending, arrived, receipts, held, wire,
                   next, through, asks, quiesce>>

(* The driver settles on the boundary, or corrects it; a seat that has asked
   for quiescence keeps everybody from opening corrections. *)
Settle(s) ==
    /\ Plays(s) /\ Confirmed(s)
    /\ Reach(s)
    /\ UNCHANGED matchVars

Reopen(s) ==
    /\ Plays(s) /\ \A t \in Seats : quiesce[t] = "none"
    /\ Correct(s)
    /\ UNCHANGED matchVars

(* The agreement is made when the boundary is confirmed: beside the driver, or
   in its place. *)
Construct(s) ==
    /\ Plays(s) /\ Confirmed(s)
    /\ live => s \in reached
    /\ Begin(s)
    /\ IF live THEN UNCHANGED match
               ELSE match' = [match EXCEPT ![s] = "AgreeingCheckpoint"]
    /\ UNCHANGED <<next, through, asks, finish, quiesce>>

(* Mutant: one seat's confirmation is taken for everybody's. *)
Followed_OwnWatermark(s) ==
    /\ match' = [match EXCEPT ![s] =
          IF phase'[s] = "Failed" THEN "Failed"
          ELSE IF phase'[s] = "Done" /\ ~live THEN "CheckpointReady" ELSE @]
    /\ quiesce' = [quiesce EXCEPT ![s] =
          IF phase'[s] \in {"Done", "SendProposal", "SendReceipt"} /\ live THEN "requested" ELSE @]
    /\ UNCHANGED <<next, through, asks, finish>>

(* Its polls, and what the match makes of the result in the same poll. *)
Followed(s) ==
    /\ match' = [match EXCEPT ![s] =
          IF phase'[s] = "Failed" THEN "Failed"
          ELSE IF phase'[s] = "Done" /\ ~live THEN "CheckpointReady" ELSE @]
    /\ quiesce' = [quiesce EXCEPT ![s] =
          IF phase'[s] = "Done" /\ live THEN "requested" ELSE @]
    /\ UNCHANGED <<next, through, asks, finish>>

PollAgreement(s) ==
    /\ match[s] \in {"Running", "AgreeingCheckpoint"}
    /\ \/ Capture(s) \/ Gives(s)
       \/ s = Host /\ HostPoll
       \/ s \in Guests /\ (GuestPoll(s) \/ ReceiptAcked(s))
    /\ Followed(s)

(* The driver drains or gives up. *)
Drains(s) ==
    /\ Plays(s) /\ quiesce[s] = "requested"
    /\ \E result \in {"drained", "timedout"} : quiesce' = [quiesce EXCEPT ![s] = result]
    /\ UNCHANGED <<agreementVars, match, next, through, asks, finish>>

Unchanged(s) == held[s] = Copy(s)

(* Mutant: what was agreed is saved without another look. *)
Finish_Trusting(s) ==
    /\ Plays(s)
    /\ \/ quiesce[s] = "timedout" /\ FailMatch(s)
       \/ quiesce[s] = "drained" /\ match' = [match EXCEPT ![s] = "CheckpointReady"]
    /\ UNCHANGED <<agreementVars, next, through, asks, finish, quiesce>>

Finish(s) ==
    /\ Plays(s)
    /\ \/ quiesce[s] = "timedout" /\ FailMatch(s)
       \/ quiesce[s] = "drained" /\
          match' = [match EXCEPT ![s] = IF Unchanged(s) THEN "CheckpointReady" ELSE "Failed"]
    /\ UNCHANGED <<agreementVars, next, through, asks, finish, quiesce>>

(* The connection status reports a peer gone. *)
PeerLost(s) ==
    /\ match[s] \in {"Running", "AgreeingCheckpoint"} /\ s \notin left
    /\ left # {} /\ FailMatch(s)
    /\ UNCHANGED <<agreementVars, next, through, asks, finish, quiesce>>

Quits(s) == Leave(s) /\ UNCHANGED matchVars

MatchNext == \E s \in Seats :
    \/ AdvanceTick(s) \/ ConfirmTick(s) \/ RequestCheckpoint(s) \/ Plan(s)
    \/ Settle(s) \/ Reopen(s) \/ Construct(s) \/ PollAgreement(s)
    \/ Drains(s) \/ Finish(s) \/ PeerLost(s) \/ Quits(s)

MatchSpec == MatchInit /\ [][MatchNext]_allVars
-----------------------------------------------------------------------------
MatchTypeOK ==
    /\ AgreementTypeOK
    /\ match \in [Seats -> {"Running", "AgreeingCheckpoint", "CheckpointReady", "Failed"}]
    /\ next \in [Seats -> 1 .. LastTick] /\ through \in [Seats -> 0 .. LastTick + Delay]
    /\ asks \in [Seats -> 0 .. LastTick + Delay]
    /\ finish \in [Seats -> 0 .. LastTick + Delay + Lead]
    /\ quiesce \in [Seats -> {"none", "requested", "drained", "timedout"}]

(* "never save a different boundary": whoever asked, and whenever each seat
   learns of it, the seats of a match plan the same boundary. *)
SameBoundary ==
    \A s, t \in Seats : finish[s] # 0 /\ finish[t] # 0 => finish[s] = finish[t]

(* "Leave time for every peer to observe the confirmed control row before
   simulating the boundary": the late observation that fails a match cannot
   happen with this lead. *)
NeverTooLate == \A s \in Seats : finish[s] = 0 /\ Requests(s) # {} =>
    next[s] <= First(Requests(s)) + Lead

(* "one peer's watermark is not permission to stop the other": the driver that
   keeps others from correcting is stopped only when every seat has copied its
   confirmed boundary, and all copies are the same. *)
QuiesceWhenAllHold ==
    \A s \in Seats : quiesce[s] # "none" =>
        \A t \in Seats : held[t] # Nothing /\ held[t] = held[s]

(* What is saved is what was agreed, and what the seat's own simulation has at
   the boundary when everything has stopped. *)
SavedAsAgreed ==
    \A s \in Seats : match[s] = "CheckpointReady" =>
        held[s] = Copy(s) /\ \A t \in Seats : held[t] = held[s]
=============================================================================
