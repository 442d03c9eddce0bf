-------------------------- MODULE NetplayHostProofs --------------------------
(***************************************************************************)
(* For any input rows, ring depth and length of a match: whatever the      *)
(* driver corrects, evicts, pins or confirms, every copy the rollback host *)
(* keeps of a boundary is the state its current timeline had there, and    *)
(* the save request is the first one of the corrected history.             *)
(*                                                                         *)
(* The timeline is base and rows, the history variables; StateAt and       *)
(* RequestAt read a state and a request off it.  The proof shows, step by  *)
(* step, that what the code stores is what these operators say, and that   *)
(* a rollback shortens the history without changing what is left of it.    *)
(***************************************************************************)
EXTENDS NetplayHost, FiniteSetTheorems, WellFoundedInduction, TLAPS

-----------------------------------------------------------------------------
(* The inductive invariant.                                                  *)

States == Seq(Inputs)
Copies == {Absent} \cup {StateCopy(state) : state \in States}

(* What RequestAt(tick) is, without a minimum over a set. *)
IsFirst(r, tick) ==
    \/ r = NoTick /\ \A m \in 1 .. tick : ~rows[m].request
    \/ /\ r \in 0 .. tick - 1 /\ rows[r + 1].request
       /\ \A m \in 1 .. r : ~rows[m].request

(* A row is published for a tick that exists, and the rows are counted. *)
HostTypes ==
    /\ base \in States /\ rows \in Seq(Rows) /\ simulated \in Seq(Inputs \cup {"broken"})
    /\ nextTick \in MatchTicks /\ Len(rows) = nextTick
    /\ published \in Rows \cup {NoRow} /\ (published # NoRow => nextTick < MaxTick)
    /\ cache \in [fresh : BOOLEAN, cycle : Nat, state : Seq(Inputs \cup {"broken"})]
    /\ pinned \in [tick : MatchTicks \cup {NoTick}, state : Copies]
    /\ confirmed \in [tick : MatchTicks, state : Copies]
    /\ DOMAIN ring \subseteq MatchTicks
    /\ planned \in BOOLEAN /\ lobby \in BOOLEAN

(* The driver's correction: no row is published between the load of a snapshot
   and the end of the ring's clean-up. *)
Correcting ==
    /\ episode \in {"none", "begun", "loaded", "replay"}
    /\ replaying = (episode # "none")
    /\ published # NoRow => episode \in {"none", "replay"}

(* The simulation is at its boundary, unless a frame threw half way; then the
   row is still published and only the lobby is left. *)
Fed == simulated = StateAt(nextTick) \/ (published # NoRow /\ lobby)
Asked == IsFirst(request, nextTick)
(* Stronger than CacheIsCurrent: a cached state that is still marked fresh has
   the clock and the bytes of the simulation, so no mutation escapes. *)
CacheFollows == cache.fresh => cache.cycle = Len(simulated) /\ cache.state = simulated
(* The ring may hold ticks of an abandoned future only while a snapshot has been
   loaded and the driver has not dropped them. *)
RingFollows ==
    /\ \A tick \in DOMAIN ring : tick <= nextTick =>
          ring[tick].state = StateAt(tick) /\ IsFirst(ring[tick].request, tick)
    /\ episode # "loaded" => \A tick \in DOMAIN ring : tick <= nextTick
(* A pinned copy is of this timeline; a boundary pinned in time has one as soon
   as it is behind. *)
PinFollows ==
    /\ pinned.state # Absent =>
          pinned.tick <= nextTick /\ pinned.state = StateCopy(StateAt(pinned.tick))
    /\ planned /\ nextTick > pinned.tick => pinned.state # Absent

HostInv ==
    /\ HostTypes /\ Correcting /\ Fed /\ Asked /\ CacheFollows /\ RingFollows
    /\ PinFollows /\ CandidateIsThisTimeline
-----------------------------------------------------------------------------
(* Least and greatest elements. *)

LEMMA LeastExists ==
    ASSUME NEW set \in SUBSET Nat, set # {}
    PROVE  \E x \in set : \A y \in set : x <= y
<1> DEFINE less == OpToRel(<, Nat)
<1>1. \A y, x : <<y, x>> \in less <=> y \in Nat /\ x \in Nat /\ y < x
  BY DEF OpToRel
<1>2. IsWellFoundedOn(less, Nat)
  BY NatLessThanWellFounded
<1> HIDE DEF less
<1>3. PICK x \in set : \A y \in set : <<y, x>> \notin less
  BY <1>2, WFMin
<1>4. \A y \in set : y \in Nat /\ x \in Nat /\ ~(y < x)
  BY <1>1, <1>3
<1> QED BY <1>4

LEMMA MinIsLeast ==
    ASSUME NEW set \in SUBSET Nat, set # {}
    PROVE  Min(set) \in set /\ \A y \in set : Min(set) <= y
<1>1. PICK x \in set : \A y \in set : x <= y
  BY LeastExists
<1> QED BY <1>1 DEF Min

LEMMA MaxIsGreatest ==
    ASSUME NEW bound \in Nat, NEW set \in SUBSET (0 .. bound), set # {}
    PROVE  Max(set) \in set /\ \A y \in set : y <= Max(set)
<1> DEFINE gaps == {bound - x : x \in set}
<1>1. \A x \in set : x \in Int /\ bound - x \in Nat
  OBVIOUS
<1> gaps \in SUBSET Nat /\ gaps # {}
  BY <1>1
<1> HIDE DEF gaps
<1>2. PICK g \in gaps : \A y \in gaps : g <= y
  BY LeastExists
<1> USE DEF gaps
<1>3. PICK x \in set : g = bound - x
  BY <1>2
<1>4. \A y \in set : bound - y \in gaps
  OBVIOUS
<1>5. \A y \in set : x >= y
  BY <1>1, <1>2, <1>3, <1>4
<1> QED BY <1>3, <1>5 DEF Max

-----------------------------------------------------------------------------
(* Facts about the history: it decides states and requests, a tick appends. *)

LEMMA InputTyped == \A row \in Rows : row.input \in Inputs
BY DEF Inputs

LEMMA StateTyped ==
    ASSUME HostTypes, NEW tick \in 0 .. nextTick
    PROVE  StateAt(tick) \in States
<1>1. \A n \in 1 .. tick : rows[n].input \in Inputs
  BY InputTyped DEF HostTypes, MatchTicks
<1>2. [n \in 1 .. tick |-> rows[n].input] \in Seq(Inputs)
  BY <1>1
<1> QED BY <1>2 DEF HostTypes, States, StateAt

LEMMA SameHistory ==
    ASSUME base' = base, NEW tick \in Nat, \A n \in 1 .. tick : rows'[n] = rows[n]
    PROVE  StateAt(tick)' = StateAt(tick)
<1>1. [n \in 1 .. tick |-> rows'[n].input] = [n \in 1 .. tick |-> rows[n].input]
  OBVIOUS
<1> QED BY <1>1 DEF StateAt

LEMMA SameRequests ==
    ASSUME NEW tick \in Nat, \A n \in 1 .. tick : rows'[n] = rows[n], NEW r, IsFirst(r, tick)
    PROVE  IsFirst(r, tick)'
BY DEF IsFirst, NoTick

LEMMA Grows ==
    ASSUME HostTypes, NEW tick \in Nat, tick = nextTick, base' = base,
           published \in Rows, rows' = Append(rows, published)
    PROVE  StateAt(tick + 1)' = Append(StateAt(tick), published.input)
<1> DEFINE past == [n \in 1 .. tick |-> rows[n].input]
           now == [n \in 1 .. tick + 1 |-> rows'[n].input]
<1>1. past \in Seq(Inputs) /\ Len(past) = tick
  BY InputTyped DEF HostTypes, MatchTicks
<1>2. now = Append(past, published.input)
  BY <1>1 DEF HostTypes, MatchTicks
<1>3. base \in Seq(Inputs) /\ published.input \in Inputs
  BY InputTyped DEF HostTypes, States
<1>4. StateAt(tick) = base \o past /\ StateAt(tick + 1)' = base \o now
  BY DEF StateAt
<1> HIDE DEF past, now
<1>5. base \o Append(past, published.input) = Append(base \o past, published.input)
  BY <1>1, <1>3
<1> QED BY <1>2, <1>4, <1>5

LEMMA FirstIsMin ==
    ASSUME HostTypes, NEW tick \in 0 .. nextTick, NEW r, IsFirst(r, tick)
    PROVE  r = RequestAt(tick)
<1> DEFINE asked == {n - 1 : n \in {m \in 1 .. tick : rows[m].request}}
           all == {NoTick} \cup asked
<1> tick \in 0 .. MaxTick /\ MaxTick \in Nat
  BY DepthAssumption DEF HostTypes, MatchTicks
<1>1. r \in all /\ \A y \in all : r <= y
  <2>1. CASE r = NoTick /\ \A m \in 1 .. tick : ~rows[m].request
    BY <2>1 DEF NoTick
  <2>2. CASE /\ r \in 0 .. tick - 1 /\ rows[r + 1].request
             /\ \A m \in 1 .. r : ~rows[m].request
    <3>1. r + 1 \in {m \in 1 .. tick : rows[m].request} /\ r = (r + 1) - 1
      BY <2>2
    <3>2. r \in asked
      BY <3>1
    <3>3. \A m \in 1 .. tick : rows[m].request => r <= m - 1
      BY <2>2
    <3>4. r <= NoTick
      BY <2>2 DEF NoTick
    <3> QED BY <3>2, <3>3, <3>4
  <2> QED BY <2>1, <2>2 DEF IsFirst
<1>2. all \subseteq Int /\ r \in Int
  BY <1>1, DepthAssumption DEF HostTypes, MatchTicks, NoTick
<1> HIDE DEF all
<1>3. \A y \in all : (\A z \in all : y <= z) => y = r
  BY <1>1, <1>2
<1>4. Min(all) = r
  BY <1>1, <1>3 DEF Min
<1> QED BY <1>4 DEF RequestAt, all

LEMMA CopyTyped ==
    /\ Absent \in Copies
    /\ \A state \in States : StateCopy(state) \in Copies
    /\ \A state : StateCopy(state) # Absent /\ Range(StateCopy(state)) = {state}
BY DEF Copies, StateCopy, Absent, Range

LEMMA StatesInWorlds == States \subseteq Seq(Inputs \cup {"broken"})
BY DEF States

-----------------------------------------------------------------------------
(* What a step that leaves the timeline alone keeps. *)

LEMMA TimelineStays ==
    ASSUME HostInv, UNCHANGED timeline
    PROVE  \A tick \in 0 .. nextTick :
              /\ StateAt(tick)' = StateAt(tick)
              /\ \A r : IsFirst(r, tick) => IsFirst(r, tick)'
<1> TAKE tick \in 0 .. nextTick
<1>1. tick \in Nat /\ base' = base /\ \A n \in 1 .. tick : rows'[n] = rows[n]
  BY DEF timeline
<1> QED BY <1>1, SameHistory, SameRequests

LEMMA FedStays ==
    ASSUME HostInv, UNCHANGED timeline, lobby => lobby',
           published # NoRow => published' = published
    PROVE  Fed' /\ Asked'
<1>1. nextTick \in 0 .. nextTick
  BY DEF HostInv, HostTypes, MatchTicks
<1>2. StateAt(nextTick)' = StateAt(nextTick)
  BY SameHistory DEF timeline, StateAt
<1>3. IsFirst(request, nextTick)'
  BY DEF HostInv, Asked, IsFirst, timeline, NoTick
<1>4. simulated' = simulated /\ nextTick' = nextTick
  BY DEF timeline
<1> QED BY <1>2, <1>3, <1>4 DEF HostInv, Fed, Asked

LEMMA RingStays ==
    ASSUME HostInv, UNCHANGED timeline, ring' = ring, episode = "loaded" => episode' = "loaded"
    PROVE  RingFollows'
<1>1. \A tick \in DOMAIN ring : tick <= nextTick => tick \in 0 .. nextTick
  BY DEF HostInv, HostTypes, MatchTicks
<1>2. nextTick' = nextTick
  BY DEF timeline
<1> QED BY <1>1, <1>2, TimelineStays DEF HostInv, RingFollows

LEMMA PinStays ==
    ASSUME HostInv, UNCHANGED timeline, pinned' = pinned, planned' = planned
    PROVE  PinFollows'
<1>1. pinned.tick <= nextTick => pinned.tick \in 0 .. nextTick
  BY DepthAssumption DEF HostInv, HostTypes, MatchTicks, NoTick
<1>2. nextTick' = nextTick
  BY DEF timeline
<1>3. pinned.state # Absent => StateAt(pinned.tick)' = StateAt(pinned.tick)
  BY <1>1, TimelineStays DEF HostInv, PinFollows, StateAt, timeline
<1> QED BY <1>2, <1>3 DEF HostInv, PinFollows, StateCopy

LEMMA CandidateStays ==
    ASSUME HostInv, UNCHANGED timeline, confirmed' = confirmed
    PROVE  CandidateIsThisTimeline'
BY DEF HostInv, CandidateIsThisTimeline, StateAt, timeline, StateCopy

LEMMA NewCandidate ==
    ASSUME HostInv, UNCHANGED timeline, NEW tick \in 0 .. nextTick,
           confirmed'.tick = tick, confirmed'.state = StateCopy(StateAt(tick))
    PROVE  CandidateIsThisTimeline'
<1>1. StateAt(tick)' = StateAt(tick)
  BY TimelineStays
<1>2. confirmed'.state = StateCopy(StateAt(tick)')
  BY <1>1
<1>3. tick <= nextTick' /\ nextTick' = nextTick
  BY DEF timeline, HostInv, HostTypes, MatchTicks
<1> QED BY <1>2, <1>3 DEF CandidateIsThisTimeline, StateAt, StateCopy

LEMMA CacheStays ==
    ASSUME HostInv, simulated' = simulated, cache' = cache
    PROVE  CacheFollows'
BY DEF HostInv, CacheFollows

LEMMA CacheWritten ==
    ASSUME HostInv, simulated' = simulated, Serialized
    PROVE  /\ CacheFollows' /\ CurrentState = simulated
           /\ cache' \in [fresh : BOOLEAN, cycle : Nat, state : Seq(Inputs \cup {"broken"})]
BY DEF HostInv, HostTypes, CacheFollows, Serialized, CurrentState, CacheHits

-----------------------------------------------------------------------------
(* Each step keeps the invariant: steps that leave the timeline alone.       *)

LEMMA SnapSaveKeeps ==
    ASSUME HostInv, SnapSave
    PROVE  HostInv'
<1> DEFINE snapshot == [state |-> CurrentState, request |-> request]
<1>1. UNCHANGED timeline /\ nextTick' = nextTick /\ simulated' = simulated
  BY DEF SnapSave, timeline
<1>2. /\ CacheFollows' /\ CurrentState = simulated
      /\ cache' \in [fresh : BOOLEAN, cycle : Nat, state : Seq(Inputs \cup {"broken"})]
  BY <1>1, CacheWritten DEF SnapSave
<1>3. /\ DOMAIN ring' \subseteq DOMAIN ring \cup {nextTick}
      /\ \A tick \in DOMAIN ring' : ring'[tick] = IF tick = nextTick THEN snapshot ELSE ring[tick]
  BY DEF SnapSave, Stored
<1>4. simulated = StateAt(nextTick) /\ IsFirst(request, nextTick)
  BY DEF SnapSave, HostInv, Fed, Asked
<1>5. snapshot.state = simulated /\ snapshot.request = request
  BY <1>2
<1>6. \A tick \in DOMAIN ring' : tick <= nextTick =>
         /\ tick \in 0 .. nextTick
         /\ ring'[tick].state = StateAt(tick) /\ IsFirst(ring'[tick].request, tick)
  BY <1>3, <1>4, <1>5 DEF HostInv, HostTypes, RingFollows, MatchTicks
<1>7. RingFollows'
  <2>1. episode' # "loaded" => \A tick \in DOMAIN ring' : tick <= nextTick
    BY <1>3 DEF SnapSave, driverVars, HostInv, HostTypes, RingFollows, MatchTicks
  <2> QED BY <1>1, <1>6, <2>1, TimelineStays DEF RingFollows
<1>8. HostTypes' /\ Correcting'
  BY <1>2, <1>3 DEF SnapSave, HostInv, HostTypes, Correcting, timeline, driverVars
<1>9. Fed' /\ Asked' /\ PinFollows' /\ CandidateIsThisTimeline'
  BY <1>1, FedStays, PinStays, CandidateStays DEF SnapSave
<1> QED BY <1>2, <1>7, <1>8, <1>9 DEF HostInv

LEMMA DigestKeeps ==
    ASSUME HostInv, Digest
    PROVE  HostInv'
<1>1. UNCHANGED timeline /\ simulated' = simulated
  BY DEF Digest, timeline
<1>2. /\ CacheFollows'
      /\ cache' \in [fresh : BOOLEAN, cycle : Nat, state : Seq(Inputs \cup {"broken"})]
  BY <1>1, CacheWritten DEF Digest
<1>3. HostTypes' /\ Correcting'
  BY <1>2 DEF Digest, HostInv, HostTypes, Correcting, timeline, copies, driverVars
<1>4. Fed' /\ Asked' /\ RingFollows' /\ PinFollows' /\ CandidateIsThisTimeline'
  BY <1>1, FedStays, RingStays, PinStays, CandidateStays DEF Digest, copies, driverVars
<1> QED BY <1>2, <1>3, <1>4 DEF HostInv

(* Steps that touch no state, no copy of one and no cache. *)
LEMMA ControlKeeps ==
    ASSUME HostInv, UNCHANGED <<timeline, copies, cache>>, HostTypes', Correcting',
           lobby => lobby', published # NoRow => published' = published,
           episode = "loaded" => episode' = "loaded"
    PROVE  HostInv'
<1>1. UNCHANGED timeline /\ simulated' = simulated
  BY DEF timeline
<1>2. /\ Fed' /\ Asked' /\ CacheFollows' /\ RingFollows' /\ PinFollows'
      /\ CandidateIsThisTimeline'
  BY <1>1, FedStays, CacheStays, RingStays, PinStays, CandidateStays DEF copies
<1> QED BY <1>2 DEF HostInv

LEMMA PublishKeeps ==
    ASSUME HostInv, NEW row \in Rows, Publish(row)
    PROVE  HostInv'
<1>1. HostTypes' /\ Correcting'
  BY DEF Publish, HostInv, HostTypes, Correcting, timeline, copies, driverVars
<1> QED BY <1>1, ControlKeeps DEF Publish, driverVars

LEMMA RefusePublicationKeeps ==
    ASSUME HostInv, RefusePublication
    PROVE  HostInv'
<1>1. HostTypes' /\ Correcting'
  BY DEF RefusePublication, Fail, HostInv, HostTypes, Correcting, timeline, copies, driverVars
<1> QED BY <1>1, ControlKeeps DEF RefusePublication, Fail, driverVars

LEMMA ResimBeginKeeps ==
    ASSUME HostInv, ResimBegin
    PROVE  HostInv'
<1>1. HostTypes' /\ Correcting'
  BY DEF ResimBegin, HostInv, HostTypes, Correcting, timeline, copies
<1> QED BY <1>1, ControlKeeps DEF ResimBegin

LEMMA ResimEndKeeps ==
    ASSUME HostInv, ResimEnd
    PROVE  HostInv'
<1>1. HostTypes' /\ Correcting'
  BY DEF ResimEnd, HostInv, HostTypes, Correcting, timeline, copies
<1> QED BY <1>1, ControlKeeps DEF ResimEnd

LEMMA RequestLobbyKeeps ==
    ASSUME HostInv, RequestLobby
    PROVE  HostInv'
<1>1. HostTypes' /\ Correcting'
  BY DEF RequestLobby, HostInv, HostTypes, Correcting, timeline, copies, driverVars
<1> QED BY <1>1, ControlKeeps DEF RequestLobby, driverVars

LEMMA TakeOutputKeeps ==
    ASSUME HostInv, TakeOutput
    PROVE  HostInv'
<1>1. HostTypes' /\ Correcting'
  BY DEF TakeOutput, HostInv, HostTypes, Correcting, timeline, copies, driverVars
<1> QED BY <1>1, ControlKeeps DEF TakeOutput, driverVars

LEMMA StutterKeeps ==
    ASSUME HostInv, UNCHANGED vars
    PROVE  HostInv'
<1>1. HostTypes' /\ Correcting'
  BY DEF vars, HostInv, HostTypes, Correcting, timeline, copies, driverVars
<1> QED BY <1>1, ControlKeeps DEF vars, driverVars

LEMMA SnapDropAfterKeeps ==
    ASSUME HostInv, SnapDropAfter
    PROVE  HostInv'
<1>1. UNCHANGED timeline /\ nextTick' = nextTick /\ simulated' = simulated
  BY DEF SnapDropAfter, timeline
<1>2. /\ DOMAIN ring' \subseteq DOMAIN ring /\ \A tick \in DOMAIN ring' : tick <= nextTick
      /\ \A tick \in DOMAIN ring' : ring'[tick] = ring[tick]
  BY DEF SnapDropAfter
<1>3. RingFollows'
  <2>1. \A tick \in DOMAIN ring' : tick \in 0 .. nextTick
    BY <1>2 DEF HostInv, HostTypes, MatchTicks
  <2> QED BY <1>1, <1>2, <2>1, TimelineStays DEF HostInv, RingFollows
<1>4. pinned' \in [tick : MatchTicks \cup {NoTick}, state : Copies]
  BY CopyTyped DEF SnapDropAfter, HostInv, HostTypes
<1>5. PinFollows'
  <2>1. CASE pinned' = pinned
    BY <1>1, <2>1, PinStays DEF SnapDropAfter
  <2>2. CASE pinned.tick > nextTick /\ pinned' = [pinned EXCEPT !.state = Absent]
    <3>1. pinned'.state = Absent /\ pinned'.tick = pinned.tick
      BY <2>2 DEF HostInv, HostTypes
    <3>2. ~(nextTick > pinned.tick)
      BY <2>2, DepthAssumption DEF HostInv, HostTypes, MatchTicks, NoTick
    <3> QED BY <1>1, <3>1, <3>2 DEF PinFollows
  <2> QED BY <2>1, <2>2 DEF SnapDropAfter
<1>6. HostTypes' /\ Correcting'
  BY <1>2, <1>4 DEF SnapDropAfter, HostInv, HostTypes, Correcting, timeline
<1>7. Fed' /\ Asked' /\ CacheFollows' /\ CandidateIsThisTimeline'
  BY <1>1, FedStays, CacheStays, CandidateStays DEF SnapDropAfter
<1> QED BY <1>3, <1>5, <1>6, <1>7 DEF HostInv

LEMMA PinCheckpointKeeps ==
    ASSUME HostInv, NEW tick \in MatchTicks, PinCheckpoint(tick)
    PROVE  HostInv'
<1>1. UNCHANGED timeline /\ nextTick' = nextTick /\ simulated' = simulated
  BY DEF PinCheckpoint, timeline
<1>2. PinFollows'
  <2>1. pinned'.state = Absent /\ pinned'.tick = tick
    BY DEF PinCheckpoint
  <2>2. planned' => tick >= nextTick
    BY DEF PinCheckpoint
  <2> QED BY <1>1, <2>1, <2>2 DEF PinFollows, HostInv, HostTypes, MatchTicks
<1>3. HostTypes' /\ Correcting'
  BY CopyTyped DEF PinCheckpoint, HostInv, HostTypes, Correcting, timeline, driverVars
<1>4. /\ Fed' /\ Asked' /\ CacheFollows' /\ RingFollows'
      /\ CandidateIsThisTimeline'
  BY <1>1, FedStays, CacheStays, RingStays, CandidateStays DEF PinCheckpoint, driverVars
<1> QED BY <1>2, <1>3, <1>4 DEF HostInv

LEMMA RetainConfirmedKeeps ==
    ASSUME HostInv, NEW through \in MatchTicks, RetainConfirmed(through)
    PROVE  HostInv'
<1> DEFINE boundary == through + 1
           eligible == {confirmed.tick} \cup {t \in DOMAIN ring : t <= boundary}
           best == Max(eligible)
<1>1. UNCHANGED timeline /\ nextTick' = nextTick /\ simulated' = simulated
  BY DEF RetainConfirmed, timeline
<1>2. confirmed' \in [tick : MatchTicks, state : Copies] /\ CandidateIsThisTimeline'
  <2>1. CASE confirmed' = confirmed
    BY <1>1, <2>1, CandidateStays DEF HostInv, HostTypes
  <2>2. CASE confirmed' = [tick |-> nextTick, state |-> StateCopy(simulated)]
    <3>1. simulated = StateAt(nextTick)
      BY DEF RetainConfirmed, HostInv, Fed
    <3>2. simulated \in States
      BY <3>1, StateTyped DEF HostInv, HostTypes, MatchTicks
    <3>3. confirmed'.tick = nextTick /\ confirmed'.state = StateCopy(StateAt(nextTick))
      BY <2>2, <3>1
    <3>4. CandidateIsThisTimeline'
      BY <1>1, <3>3, NewCandidate DEF HostInv, HostTypes, MatchTicks
    <3> QED BY <2>2, <3>2, <3>4, CopyTyped DEF HostInv, HostTypes
  <2>3. CASE /\ through < nextTick /\ best > confirmed.tick
             /\ confirmed' = [tick |-> best, state |-> StateCopy(ring[best].state)]
    <3>1. eligible \in SUBSET (0 .. MaxTick) /\ confirmed.tick \in eligible
      BY DEF HostInv, HostTypes, MatchTicks
    <3>2. best \in eligible
      BY <3>1, MaxIsGreatest, DepthAssumption
    <3> HIDE DEF best
    <3>3. best \in DOMAIN ring /\ best <= boundary /\ best \in 0 .. MaxTick
      <4>1. best # confirmed.tick
        BY <2>3, <3>1, DepthAssumption
      <4> QED BY <3>1, <3>2, <4>1
    <3>4. best \in 0 .. nextTick
      BY <2>3, <3>3 DEF HostInv, HostTypes, MatchTicks
    <3>5. ring[best].state = StateAt(best) /\ StateAt(best) \in States
      BY <3>3, <3>4, StateTyped DEF HostInv, RingFollows
    <3>6. confirmed'.tick = best /\ confirmed'.state = StateCopy(StateAt(best))
      BY <2>3, <3>5
    <3>7. CandidateIsThisTimeline'
      BY <1>1, <3>4, <3>6, NewCandidate
    <3> QED BY <2>3, <3>3, <3>5, <3>7, CopyTyped DEF MatchTicks
  <2> QED BY <2>1, <2>2, <2>3 DEF RetainConfirmed
<1>3. HostTypes' /\ Correcting'
  BY <1>2 DEF RetainConfirmed, Fail, HostInv, HostTypes, Correcting, timeline, driverVars
<1>4. lobby => lobby'
  BY DEF RetainConfirmed, Fail
<1>5. Fed' /\ Asked' /\ CacheFollows' /\ RingFollows' /\ PinFollows'
  BY <1>1, <1>4, FedStays, CacheStays, RingStays, PinStays DEF RetainConfirmed, driverVars
<1> QED BY <1>2, <1>3, <1>5 DEF HostInv

-----------------------------------------------------------------------------
(* Steps that move the timeline. *)

LEMMA Pins ==
    ASSUME HostInv, Runs, pinned' = Pinned
    PROVE  /\ pinned' \in [tick : MatchTicks \cup {NoTick}, state : Copies]
           /\ pinned'.tick = pinned.tick
           /\ nextTick = pinned.tick => pinned'.state = StateCopy(StateAt(pinned.tick))
           /\ nextTick # pinned.tick => pinned'.state = pinned.state
<1>1. simulated = StateAt(nextTick) /\ CurrentState = simulated
  BY DEF Runs, HostInv, Fed, CacheFollows, CurrentState, CacheHits
<1>2. CurrentState \in States
  BY <1>1, StateTyped DEF HostInv, HostTypes, MatchTicks
<1> QED BY <1>1, <1>2, CopyTyped DEF Pinned, HostInv, HostTypes

LEMMA RunTickKeeps ==
    ASSUME HostInv, RunTick
    PROVE  HostInv'
<1>1. published \in Rows /\ nextTick < MaxTick /\ nextTick \in Nat /\ MaxTick \in Nat
  BY DepthAssumption DEF RunTick, Runs, HostInv, HostTypes, MatchTicks
<1>2. /\ base' = base /\ rows' = Append(rows, published)
      /\ nextTick' = nextTick + 1 /\ simulated' = Append(simulated, published.input)
  BY DEF RunTick
<1>3. \A n \in 1 .. nextTick : rows'[n] = rows[n]
  BY <1>1, <1>2 DEF HostInv, HostTypes
<1>4. rows'[nextTick + 1] = published /\ rows' \in Seq(Rows) /\ Len(rows') = nextTick + 1
  <2>1. rows \in Seq(Rows) /\ Len(rows) = nextTick
    BY DEF HostInv, HostTypes
  <2> QED BY <1>1, <1>2, <2>1
<1>5. \A tick \in 0 .. nextTick :
         StateAt(tick)' = StateAt(tick) /\ \A r : IsFirst(r, tick) => IsFirst(r, tick)'
  <2> TAKE tick \in 0 .. nextTick
  <2>1. tick \in Nat /\ \A n \in 1 .. tick : rows'[n] = rows[n]
    BY <1>1, <1>3
  <2> QED BY <1>2, <2>1, SameHistory, SameRequests
<1>6. Fed'
  <2>1. simulated = StateAt(nextTick)
    BY DEF RunTick, Runs, HostInv, Fed
  <2>2. PICK tick \in Nat : tick = nextTick
    BY <1>1
  <2>3. StateAt(tick + 1)' = Append(StateAt(tick), published.input)
    BY <1>1, <1>2, <2>2, Grows DEF HostInv
  <2>4. simulated' = StateAt(tick + 1)'
    BY <1>2, <2>1, <2>2, <2>3
  <2> QED BY <1>2, <2>2, <2>4 DEF Fed, StateAt
<1>7. Asked'
  <2>1. request' = IF published.request /\ request = NoTick THEN nextTick ELSE request
    BY DEF RunTick
  <2>2. IsFirst(request, nextTick)
    BY DEF HostInv, Asked
  <2>3. CASE request = NoTick /\ \A m \in 1 .. nextTick : ~rows[m].request
    BY <1>1, <1>2, <1>3, <1>4, <2>1, <2>3 DEF Asked, IsFirst, NoTick
  <2>4. CASE /\ request \in 0 .. nextTick - 1 /\ rows[request + 1].request
             /\ \A m \in 1 .. request : ~rows[m].request
    <3>1. request # NoTick /\ request' = request
      BY <1>1, <2>1, <2>4 DEF NoTick
    <3>2. request \in 0 .. nextTick' - 1 /\ request + 1 \in 1 .. nextTick
      BY <1>1, <1>2, <2>4
    <3>3. rows'[request + 1] = rows[request + 1] /\ \A m \in 1 .. request : rows'[m] = rows[m]
      BY <1>1, <1>3, <2>4, <3>2
    <3> QED BY <2>4, <3>1, <3>2, <3>3 DEF Asked, IsFirst
  <2> QED BY <2>2, <2>3, <2>4 DEF IsFirst
<1>8. RingFollows'
  <2>1. ring' = ring /\ episode' = episode /\ episode # "loaded"
    BY DEF RunTick, Runs, driverVars, HostInv, Correcting
  <2>2. \A tick \in DOMAIN ring : tick \in 0 .. nextTick
    BY <2>1 DEF HostInv, HostTypes, RingFollows, MatchTicks
  <2> QED BY <1>1, <1>2, <1>5, <2>1, <2>2 DEF HostInv, RingFollows
<1>9. PinFollows'
  <2>1. /\ pinned'.tick = pinned.tick /\ planned' = planned /\ pinned.tick \in Nat
        /\ nextTick = pinned.tick => pinned'.state = StateCopy(StateAt(pinned.tick))
        /\ nextTick # pinned.tick => pinned'.state = pinned.state
    BY Pins, DepthAssumption DEF RunTick, HostInv, HostTypes, MatchTicks, NoTick
  <2>2. PICK tick \in Nat : tick = pinned.tick
    BY <2>1
  <2>3. tick <= nextTick => StateAt(tick)' = StateAt(tick)
    BY <1>1, <1>5, <2>2
  <2>4. /\ pinned.state # Absent => tick <= nextTick /\ pinned.state = StateCopy(StateAt(tick))
        /\ planned /\ nextTick > tick => pinned.state # Absent
    BY <2>2 DEF HostInv, PinFollows
  <2>5. /\ pinned'.state # Absent => tick <= nextTick /\ pinned'.state = StateCopy(StateAt(tick))
        /\ planned /\ nextTick + 1 > tick => pinned'.state # Absent
    BY <1>1, <2>1, <2>2, <2>4, CopyTyped
  <2>6. pinned'.state # Absent => tick <= nextTick' /\ pinned'.state = StateCopy(StateAt(tick)')
    BY <1>1, <1>2, <2>3, <2>5
  <2> QED BY <1>2, <2>1, <2>2, <2>5, <2>6 DEF PinFollows, StateAt, StateCopy
<1>10. CandidateIsThisTimeline'
  <2>1. PICK tick \in Nat : tick = confirmed.tick
    BY DEF HostInv, HostTypes, MatchTicks
  <2>2. confirmed' = confirmed
    BY DEF RunTick
  <2>3. confirmed.state # Absent => tick <= nextTick /\ confirmed.state = StateCopy(StateAt(tick))
    BY <2>1 DEF HostInv, CandidateIsThisTimeline
  <2>4. confirmed.state # Absent => tick <= nextTick' /\ confirmed.state = StateCopy(StateAt(tick)')
    BY <1>1, <1>2, <1>5, <2>3
  <2> QED BY <2>1, <2>2, <2>4 DEF CandidateIsThisTimeline, StateAt, StateCopy
<1>11. cache' = [cache EXCEPT !.fresh = FALSE]
  BY DEF RunTick, Mutated
<1>12. CacheFollows'
  BY <1>11 DEF CacheFollows, HostInv, HostTypes
<1>13. simulated' \in Seq(Inputs \cup {"broken"})
  BY <1>1, <1>2, InputTyped DEF HostInv, HostTypes
<1>14. HostTypes'
  <2>1. cache' \in [fresh : BOOLEAN, cycle : Nat, state : Seq(Inputs \cup {"broken"})]
    BY <1>11 DEF HostInv, HostTypes
  <2>2. pinned' \in [tick : MatchTicks \cup {NoTick}, state : Copies]
    BY Pins DEF RunTick
  <2>3. nextTick' \in MatchTicks /\ Len(rows') = nextTick'
    BY <1>1, <1>2, <1>4 DEF MatchTicks
  <2> QED BY <1>2, <1>4, <1>13, <2>1, <2>2, <2>3 DEF RunTick, HostInv, HostTypes
<1>15. Correcting'
  BY DEF RunTick, HostInv, Correcting, driverVars
<1> QED BY <1>6, <1>7, <1>8, <1>9, <1>10, <1>12, <1>14, <1>15 DEF HostInv

LEMMA RunFailsKeeps ==
    ASSUME HostInv, RunFails
    PROVE  HostInv'
<1>1. /\ base' = base /\ rows' = rows /\ nextTick' = nextTick /\ request' = request
      /\ confirmed' = confirmed /\ ring' = ring /\ episode' = episode
      /\ published' = published /\ published # NoRow /\ lobby' = TRUE
  BY DEF RunFails, Runs, Fail, driverVars
<1>2. Fed' /\ Asked'
  BY <1>1 DEF Fed, Asked, HostInv, IsFirst, NoTick
<1>3. \A tick \in 0 .. nextTick :
         StateAt(tick)' = StateAt(tick) /\ \A r : IsFirst(r, tick) => IsFirst(r, tick)'
  <2> TAKE tick \in 0 .. nextTick
  <2>1. tick \in Nat /\ \A n \in 1 .. tick : rows'[n] = rows[n]
    BY <1>1
  <2> QED BY <1>1, <2>1, SameHistory, SameRequests
<1>4. RingFollows'
  <2>1. \A tick \in DOMAIN ring : tick \in 0 .. nextTick
    BY <1>1 DEF HostInv, HostTypes, RingFollows, Correcting, MatchTicks
  <2> QED BY <1>1, <1>3, <2>1 DEF HostInv, RingFollows
<1>5. CandidateIsThisTimeline'
  BY <1>1 DEF HostInv, CandidateIsThisTimeline, StateAt, StateCopy
<1>6. PinFollows'
  <2>1. PICK tick \in Nat : tick = pinned.tick
    BY DepthAssumption DEF HostInv, HostTypes, MatchTicks, NoTick
  <2>2. /\ pinned'.tick = tick /\ planned' = planned
        /\ nextTick = tick => pinned'.state = StateCopy(StateAt(tick))
        /\ nextTick # tick => pinned'.state = pinned.state
    BY <2>1, Pins DEF RunFails
  <2>3. /\ pinned.state # Absent => tick <= nextTick /\ pinned.state = StateCopy(StateAt(tick))
        /\ planned /\ nextTick > tick => pinned.state # Absent
    BY <2>1 DEF HostInv, PinFollows
  <2>4. nextTick \in Nat
    BY DEF HostInv, HostTypes, MatchTicks
  <2>5. tick <= nextTick => StateAt(tick)' = StateAt(tick)
    BY <1>3, <2>1, <2>4
  <2>6. /\ pinned'.state # Absent => tick <= nextTick /\ pinned'.state = StateCopy(StateAt(tick)')
        /\ planned /\ nextTick > tick => pinned'.state # Absent
    BY <2>2, <2>3, <2>4, <2>5, CopyTyped
  <2> QED BY <1>1, <2>2, <2>6 DEF PinFollows, StateAt, StateCopy
<1>7. cache' = [cache EXCEPT !.fresh = FALSE]
  BY DEF RunFails, Mutated
<1>8. CacheFollows'
  BY <1>7 DEF CacheFollows, HostInv, HostTypes
<1>9. HostTypes'
  <2>1. cache' \in [fresh : BOOLEAN, cycle : Nat, state : Seq(Inputs \cup {"broken"})]
    BY <1>7 DEF HostInv, HostTypes
  <2>2. pinned' \in [tick : MatchTicks \cup {NoTick}, state : Copies]
    BY Pins DEF RunFails
  <2>3. simulated' \in Seq(Inputs \cup {"broken"})
    <3>1. simulated \in Seq(Inputs \cup {"broken"}) /\ simulated' = Append(simulated, "broken")
      BY DEF RunFails, HostInv, HostTypes
    <3> QED BY <3>1
  <2> QED BY <1>1, <2>1, <2>2, <2>3 DEF RunFails, HostInv, HostTypes
<1>10. Correcting'
  BY <1>1 DEF RunFails, HostInv, Correcting, driverVars
<1> QED BY <1>2, <1>4, <1>5, <1>6, <1>8, <1>9, <1>10 DEF HostInv

(* The snapshot that is loaded is one of this timeline; what is left of the
   timeline is what it was up to that boundary. *)
LEMMA SnapLoadKeeps ==
    ASSUME HostInv, NEW tick \in MatchTicks, SnapLoad(tick)
    PROVE  HostInv'
<1>1. /\ base' = base /\ rows' = SubSeq(rows, 1, tick) /\ nextTick' = tick
      /\ simulated' = ring[tick].state /\ request' = ring[tick].request
      /\ ring' = ring /\ planned' = planned /\ published' = NoRow
      /\ episode = "begun" /\ episode' = "loaded" /\ lobby' = lobby /\ replaying' = replaying
  BY DEF SnapLoad, RequestLoaded
<1>2. tick \in DOMAIN ring /\ tick \in 0 .. nextTick /\ nextTick \in Nat
  BY DEF SnapLoad, HostInv, HostTypes, MatchTicks
<1>3. ring[tick].state = StateAt(tick) /\ IsFirst(ring[tick].request, tick)
  BY <1>2 DEF HostInv, RingFollows
<1>4. rows' \in Seq(Rows) /\ Len(rows') = tick /\ \A n \in 1 .. tick : rows'[n] = rows[n]
  BY <1>1, <1>2 DEF HostInv, HostTypes
<1>5. \A t \in 0 .. tick :
         StateAt(t)' = StateAt(t) /\ \A r : IsFirst(r, t) => IsFirst(r, t)'
  <2> TAKE t \in 0 .. tick
  <2>1. t \in Nat /\ \A n \in 1 .. t : rows'[n] = rows[n]
    BY <1>2, <1>4
  <2> QED BY <1>1, <2>1, SameHistory, SameRequests
<1>6. tick \in 0 .. tick
  BY <1>2
<1>7. Fed' /\ Asked'
  <2>1. simulated' = StateAt(tick)' /\ IsFirst(ring[tick].request, tick)'
    BY <1>1, <1>3, <1>5, <1>6
  <2> QED BY <1>1, <2>1 DEF Fed, Asked, StateAt, IsFirst
<1>8. RingFollows'
  <2>1. \A t \in DOMAIN ring : t <= tick => t \in 0 .. tick /\ t <= nextTick
    BY <1>2 DEF HostInv, HostTypes, MatchTicks
  <2> QED BY <1>1, <1>5, <2>1 DEF HostInv, RingFollows
<1>9. CandidateIsThisTimeline'
  <2>1. PICK c \in Nat : c = confirmed.tick
    BY DEF HostInv, HostTypes, MatchTicks
  <2>2. confirmed.state # Absent => c <= nextTick /\ confirmed.state = StateCopy(StateAt(c))
    BY <2>1 DEF HostInv, CandidateIsThisTimeline
  <2>3. CASE tick < c
    BY <2>1, <2>3 DEF SnapLoad, CandidateAfter, CandidateIsThisTimeline
  <2>4. CASE ~(tick < c)
    <3>1. confirmed' = confirmed
      BY <2>1, <2>4 DEF SnapLoad, CandidateAfter
    <3>2. c \in 0 .. tick
      BY <1>2, <2>1, <2>4
    <3>3. confirmed.state # Absent => c <= nextTick' /\ confirmed.state = StateCopy(StateAt(c)')
      BY <1>1, <1>5, <2>2, <3>2
    <3> QED BY <2>1, <3>1, <3>3 DEF CandidateIsThisTimeline, StateAt, StateCopy
  <2> QED BY <2>3, <2>4
<1>10. pinned' \in [tick : MatchTicks \cup {NoTick}, state : Copies]
  BY CopyTyped DEF SnapLoad, HostInv, HostTypes
<1>11. PinFollows'
  <2>1. PICK p \in Nat : p = pinned.tick
    BY DepthAssumption DEF HostInv, HostTypes, MatchTicks, NoTick
  <2>2. /\ pinned'.tick = p
        /\ tick < p => pinned'.state = Absent
        /\ ~(tick < p) => pinned'.state = pinned.state
    BY <2>1 DEF SnapLoad, HostInv, HostTypes
  <2>3. /\ pinned.state # Absent => pinned.state = StateCopy(StateAt(p))
        /\ planned /\ nextTick > p => pinned.state # Absent
    BY <2>1 DEF HostInv, PinFollows
  <2>4. ~(tick < p) => p \in 0 .. tick /\ StateAt(p)' = StateAt(p)
    BY <1>2, <1>5, <2>1
  <2>5. /\ pinned'.state # Absent => p <= tick /\ pinned'.state = StateCopy(StateAt(p)')
        /\ planned /\ tick > p => pinned'.state # Absent
    BY <1>2, <2>1, <2>2, <2>3, <2>4
  <2> QED BY <1>1, <2>2, <2>5 DEF PinFollows, StateAt, StateCopy
<1>12. cache' = [cache EXCEPT !.fresh = FALSE]
  BY DEF SnapLoad, Mutated
<1>13. CacheFollows'
  BY <1>12 DEF CacheFollows, HostInv, HostTypes
<1>14. HostTypes'
  <2>1. cache' \in [fresh : BOOLEAN, cycle : Nat, state : Seq(Inputs \cup {"broken"})]
    BY <1>12 DEF HostInv, HostTypes
  <2>2. simulated' \in Seq(Inputs \cup {"broken"})
    BY <1>1, <1>2, <1>3, StateTyped, StatesInWorlds DEF HostInv
  <2>3. confirmed' \in [tick : MatchTicks, state : Copies]
    BY CopyTyped, DepthAssumption DEF SnapLoad, CandidateAfter, HostInv, HostTypes, MatchTicks
  <2> QED BY <1>1, <1>4, <1>10, <2>1, <2>2, <2>3 DEF HostInv, HostTypes
<1>15. Correcting'
  BY <1>1 DEF HostInv, Correcting
<1> QED BY <1>7, <1>8, <1>9, <1>11, <1>13, <1>14, <1>15 DEF HostInv

LEMMA BeginMatchKeeps ==
    ASSUME HostInv, NEW state \in States, simulated' = state, BeginMatch(state)
    PROVE  HostInv'
<1>1. /\ base' = state /\ rows' = <<>> /\ nextTick' = 0 /\ request' = NoTick
      /\ ring' = <<>> /\ confirmed' = [tick |-> 0, state |-> StateCopy(state)]
      /\ published' = NoRow /\ replaying' = FALSE /\ episode' = "none" /\ lobby' = FALSE
      /\ cache' = [cache EXCEPT !.fresh = FALSE]
  BY DEF BeginMatch, Mutated
<1>2. StateAt(0)' = state
  <2>1. [n \in 1 .. 0 |-> rows'[n].input] = <<>>
    OBVIOUS
  <2>2. state \o <<>> = state
    BY DEF States
  <2> QED BY <1>1, <2>1, <2>2 DEF StateAt
<1>3. Fed' /\ Asked'
  <2>1. simulated' = StateAt(nextTick)'
    BY <1>1, <1>2 DEF StateAt
  <2>2. request' = NoTick' /\ \A m \in 1 .. nextTick' : ~rows'[m].request
    BY <1>1 DEF NoTick
  <2> QED BY <2>1, <2>2 DEF Fed, Asked, IsFirst
<1>4. RingFollows'
  BY <1>1 DEF RingFollows
<1>5. CandidateIsThisTimeline'
  BY <1>1, <1>2 DEF CandidateIsThisTimeline, StateAt
<1>6. /\ pinned' \in [tick : MatchTicks \cup {NoTick}, state : Copies]
      /\ pinned'.tick = pinned.tick /\ pinned'.state = Absent
  BY CopyTyped DEF BeginMatch, HostInv, HostTypes
<1>7. PinFollows'
  <2>1. pinned.tick \in Nat
    BY DepthAssumption DEF HostInv, HostTypes, MatchTicks, NoTick
  <2> QED BY <1>1, <1>6, <2>1 DEF PinFollows
<1>8. CacheFollows'
  BY <1>1 DEF CacheFollows, HostInv, HostTypes
<1>9. HostTypes'
  <2>1. cache' \in [fresh : BOOLEAN, cycle : Nat, state : Seq(Inputs \cup {"broken"})]
    BY <1>1 DEF HostInv, HostTypes
  <2>2. confirmed' \in [tick : MatchTicks, state : Copies]
    BY <1>1, CopyTyped, DepthAssumption DEF MatchTicks
  <2>3. planned' \in BOOLEAN
    BY DEF BeginMatch
  <2>4. 0 \in MatchTicks /\ rows' \in Seq(Rows) /\ Len(rows') = 0 /\ DOMAIN ring' \subseteq MatchTicks
    BY <1>1, DepthAssumption DEF MatchTicks
  <2> QED BY <1>1, <1>6, <2>1, <2>2, <2>3, <2>4, StatesInWorlds DEF HostTypes
<1>10. Correcting'
  BY <1>1 DEF Correcting
<1> QED BY <1>3, <1>4, <1>5, <1>7, <1>8, <1>9, <1>10 DEF HostInv

LEMMA RestoreKeeps ==
    ASSUME HostInv, Restore
    PROVE  HostInv'
<1>1. CASE Fail /\ UNCHANGED <<timeline, copies, cache, driverVars, published>>
  <2>1. HostTypes' /\ Correcting'
    BY <1>1 DEF Fail, HostInv, HostTypes, Correcting, timeline, copies, driverVars
  <2> QED BY <1>1, <2>1, ControlKeeps DEF Fail, driverVars
<1>2. CASE \E state \in Range(confirmed.state) : simulated' = state /\ BeginMatch(state)
  <2>1. PICK state \in Range(confirmed.state) : simulated' = state /\ BeginMatch(state)
    BY <1>2
  <2>2. confirmed.state \in Copies
    BY DEF HostInv, HostTypes
  <2>3. state \in States
    BY <2>1, <2>2 DEF Copies, StateCopy, Absent, Range
  <2> QED BY <2>1, <2>3, BeginMatchKeeps
<1> QED BY <1>1, <1>2 DEF Restore

-----------------------------------------------------------------------------
(* The invariant of the specification. *)

LEMMA HostStarts == Init => HostInv
<1> SUFFICES ASSUME Init PROVE HostInv
  OBVIOUS
<1>1. StateAt(0) = <<>>
  BY DEF Init, StateAt
<1>2. <<>> \in States
  BY DEF States
<1>3. HostTypes
  <2>1. /\ base \in States /\ rows \in Seq(Rows) /\ Len(rows) = 0
        /\ simulated \in Seq(Inputs \cup {"broken"}) /\ 0 \in MatchTicks
    BY <1>2, StatesInWorlds, DepthAssumption DEF Init, MatchTicks
  <2>2. cache \in [fresh : BOOLEAN, cycle : Nat, state : Seq(Inputs \cup {"broken"})]
    BY <1>2, StatesInWorlds DEF Init
  <2>3. /\ pinned \in [tick : MatchTicks \cup {NoTick}, state : Copies]
        /\ confirmed \in [tick : MatchTicks, state : Copies]
    BY <1>2, <2>1, CopyTyped DEF Init
  <2>4. nextTick = 0 /\ published = NoRow /\ planned \in BOOLEAN /\ lobby \in BOOLEAN
    BY DEF Init
  <2>5. DOMAIN ring = {}
    BY DEF Init
  <2> QED BY <2>1, <2>2, <2>3, <2>4, <2>5 DEF HostTypes
<1>4. Fed /\ Asked /\ CandidateIsThisTimeline
  BY <1>1 DEF Init, Fed, Asked, IsFirst, CandidateIsThisTimeline, StateCopy
<1>5. CacheFollows /\ RingFollows /\ Correcting
  <2>1. cache.fresh = FALSE /\ DOMAIN ring = {} /\ replaying = FALSE
        /\ episode = "none" /\ published = NoRow
    BY DEF Init
  <2> QED BY <2>1 DEF CacheFollows, RingFollows, Correcting
<1>6. PinFollows
  BY DepthAssumption DEF Init, PinFollows, NoTick
<1> QED BY <1>3, <1>4, <1>5, <1>6 DEF HostInv

LEMMA HostSteps == HostInv /\ [Next]_vars => HostInv'
<1> SUFFICES ASSUME HostInv, [Next]_vars PROVE HostInv'
  OBVIOUS
<1>1. CASE UNCHANGED vars
  BY <1>1, StutterKeeps
<1>2. CASE SnapSave \/ Digest \/ RefusePublication \/ RunTick \/ RunFails
  BY <1>2, SnapSaveKeeps, DigestKeeps, RefusePublicationKeeps, RunTickKeeps, RunFailsKeeps
<1>3. CASE ResimBegin \/ SnapDropAfter \/ ResimEnd \/ RequestLobby \/ Restore \/ TakeOutput
  BY <1>3, ResimBeginKeeps, SnapDropAfterKeeps, ResimEndKeeps, RequestLobbyKeeps,
     RestoreKeeps, TakeOutputKeeps
<1>4. CASE \E row \in Rows : Publish(row)
  BY <1>4, PublishKeeps
<1>5. CASE \E tick \in MatchTicks : SnapLoad(tick) \/ PinCheckpoint(tick) \/ RetainConfirmed(tick)
  BY <1>5, SnapLoadKeeps, PinCheckpointKeeps, RetainConfirmedKeeps
<1> QED BY <1>1, <1>2, <1>3, <1>4, <1>5 DEF Next

(* What the host stores is what its timeline says, in the middle of every
   correction too. *)
THEOREM HostInvariant == Spec => []HostInv
BY HostStarts, HostSteps, PTL DEF Spec

-----------------------------------------------------------------------------
(* The ring and the queue of sound. *)

Sound == [tick : MatchTicks, replay : BOOLEAN]
Sized ==
    /\ audio \in Seq(Sound) /\ outputReady \in BOOLEAN
    /\ IsFiniteSet(DOMAIN ring) /\ Cardinality(DOMAIN ring) <= Depth

(* Saving evicts one tick when the ring is full. *)
LEMMA StoredFits ==
    ASSUME HostInv, Sized, NEW tick \in MatchTicks, NEW snapshot
    PROVE  /\ IsFiniteSet(DOMAIN Stored(tick, snapshot))
           /\ Cardinality(DOMAIN Stored(tick, snapshot)) <= Depth
<1> DEFINE others == DOMAIN ring \ {tick}
           kept == others \cup {tick}
           here == IF Cardinality(kept) > Depth THEN kept \ {Min(kept \ {tick})} ELSE kept
<1>1. DOMAIN Stored(tick, snapshot) = here
  BY DEF Stored
<1>2. IsFiniteSet(others) /\ Cardinality(others) <= Depth /\ Cardinality(others) \in Nat
  <2>1. /\ IsFiniteSet(others)
        /\ Cardinality(others) = IF tick \in DOMAIN ring THEN Cardinality(DOMAIN ring) - 1
                                                          ELSE Cardinality(DOMAIN ring)
    BY FS_RemoveElement, Zenon DEF Sized
  <2>2. Cardinality(others) \in Nat /\ Cardinality(DOMAIN ring) \in Nat
    BY <2>1, FS_CardinalityType DEF Sized
  <2> QED BY <2>1, <2>2, DepthAssumption DEF Sized
<1>3. IsFiniteSet(kept) /\ Cardinality(kept) = Cardinality(others) + 1
  <2>1. tick \notin others
    OBVIOUS
  <2> HIDE DEF others
  <2> QED BY <1>2, <2>1, FS_AddElement
<1>4. CASE Cardinality(kept) > Depth
  <2>1. Cardinality(others) # 0
    BY <1>2, <1>3, <1>4, DepthAssumption
  <2>2. others # {}
    BY <2>1, FS_EmptySet, Zenon
  <2>3. kept \ {tick} = others /\ others \in SUBSET Nat
    BY DepthAssumption DEF HostInv, HostTypes, MatchTicks
  <2>4. Min(kept \ {tick}) \in kept
    BY <2>2, <2>3, MinIsLeast
  <2> DEFINE oldest == Min(kept \ {tick})
  <2>5. here = kept \ {oldest}
    BY <1>4
  <2> HIDE DEF others, kept, here, oldest
  <2>6. IsFiniteSet(kept \ {oldest}) /\ Cardinality(kept \ {oldest}) = Cardinality(kept) - 1
    BY <1>3, <2>4, FS_RemoveElement DEF oldest
  <2>7. Cardinality(here) <= Depth
    BY <1>2, <1>3, <2>5, <2>6, DepthAssumption
  <2> QED BY <1>1, <2>5, <2>6, <2>7
<1>5. CASE ~(Cardinality(kept) > Depth)
  <2>1. here = kept
    BY <1>5
  <2> HIDE DEF others, kept, here
  <2> QED BY <1>1, <1>2, <1>3, <1>5, <2>1, DepthAssumption
<1> QED BY <1>4, <1>5

LEMMA SizedSteps == HostInv /\ Sized /\ [Next]_vars => Sized'
<1> SUFFICES ASSUME HostInv, Sized, [Next]_vars PROVE Sized'
  OBVIOUS
<1>1. <<>> \in Seq(Sound) /\ IsFiniteSet({}) /\ Cardinality({}) <= Depth
  BY FS_EmptySet, DepthAssumption
<1>2. CASE SnapSave
  <2>1. nextTick \in MatchTicks
    BY DEF HostInv, HostTypes
  <2>2. ring' = Stored(nextTick, [state |-> CurrentState, request |-> request])
    BY <1>2 DEF SnapSave
  <2>3. IsFiniteSet(DOMAIN ring') /\ Cardinality(DOMAIN ring') <= Depth
    BY <2>1, <2>2, StoredFits
  <2> QED BY <1>2, <2>3 DEF SnapSave, Sized, output
<1>3. CASE SnapDropAfter
  <2>1. DOMAIN ring' \in SUBSET DOMAIN ring
    BY <1>3 DEF SnapDropAfter
  <2>2. IsFiniteSet(DOMAIN ring') /\ Cardinality(DOMAIN ring') <= Cardinality(DOMAIN ring)
    BY <2>1, FS_Subset DEF Sized
  <2>3. Cardinality(DOMAIN ring') \in Nat /\ Cardinality(DOMAIN ring) \in Nat
    BY <2>2, FS_CardinalityType DEF Sized
  <2> QED BY <1>3, <2>2, <2>3, DepthAssumption DEF SnapDropAfter, Sized, output
<1>4. CASE RunTick
  <2>1. nextTick \in MatchTicks
    BY DEF HostInv, HostTypes
  <2>2. [tick |-> nextTick, replay |-> FALSE] \in Sound
    BY <2>1 DEF Sound
  <2>3. audio' \in Seq(Sound)
    BY <1>1, <1>4, <2>2 DEF RunTick, FrameSound
  <2> QED BY <1>4, <2>3 DEF RunTick, Sized
<1>5. CASE RunFails \/ RefusePublication
  BY <1>1, <1>5 DEF RunFails, RefusePublication, Fail, copies, Sized
<1>6. CASE ResimBegin \/ ResimEnd \/ TakeOutput
  BY <1>1, <1>6 DEF ResimBegin, ResimEnd, TakeOutput, copies, Sized
<1>7. CASE Digest \/ RequestLobby
  BY <1>7 DEF Digest, RequestLobby, copies, output, Sized
<1>8. CASE Restore
  <2>1. CASE Fail /\ UNCHANGED <<timeline, copies, cache, driverVars, published>>
    BY <1>1, <2>1 DEF Fail, copies, Sized
  <2>2. CASE \E state \in Range(confirmed.state) : simulated' = state /\ BeginMatch(state)
    <3>1. ring' = <<>> /\ audio' = <<>> /\ outputReady' = FALSE
      BY <2>2 DEF BeginMatch
    <3>2. DOMAIN ring' = {}
      BY <3>1
    <3> QED BY <1>1, <3>1, <3>2 DEF Sized
  <2> QED BY <1>8, <2>1, <2>2 DEF Restore
<1>9. CASE \E row \in Rows : Publish(row)
  BY <1>9 DEF Publish, copies, output, Sized
<1>10. ASSUME NEW tick \in MatchTicks, SnapLoad(tick) \/ PinCheckpoint(tick) PROVE Sized'
  BY <1>1, <1>10 DEF SnapLoad, PinCheckpoint, output, Sized
<1>11. ASSUME NEW tick \in MatchTicks, RetainConfirmed(tick) PROVE Sized'
  <2>1. ring' = ring /\ (Fail \/ UNCHANGED output)
    BY <1>11 DEF RetainConfirmed
  <2> QED BY <1>1, <2>1 DEF Fail, output, Sized
<1>12. CASE UNCHANGED vars
  BY <1>12 DEF vars, copies, output, Sized
<1> QED BY <1>2, <1>3, <1>4, <1>5, <1>6, <1>7, <1>8, <1>9, <1>10, <1>11, <1>12 DEF Next

(* Type correctness; the ring of the driver never holds more snapshots than its
   depth. *)
THEOREM HostTypeCorrect == Spec => []TypeOK
<1>1. Init => Sized
  <2> SUFFICES ASSUME Init PROVE Sized
    OBVIOUS
  <2>1. DOMAIN ring = {} /\ audio = <<>> /\ outputReady = FALSE
    BY DEF Init
  <2>2. IsFiniteSet(DOMAIN ring) /\ Cardinality(DOMAIN ring) = 0
    BY <2>1, FS_EmptySet, Zenon
  <2>3. audio \in Seq(Sound)
    BY <2>1
  <2>4. Cardinality(DOMAIN ring) <= Depth
    BY <2>2, DepthAssumption
  <2> QED BY <2>1, <2>2, <2>3, <2>4 DEF Sized
<1>2. ASSUME HostInv, Sized PROVE TypeOK
  <2>1. request \in MatchTicks \cup {NoTick}
    BY <1>2, DepthAssumption DEF HostInv, HostTypes, Asked, IsFirst, MatchTicks
  <2>2. /\ simulated \in Seq(Inputs \cup {"broken"}) /\ base \in Seq(Inputs)
        /\ rows \in Seq(Rows) /\ nextTick \in MatchTicks /\ Len(rows) = nextTick
        /\ DOMAIN ring \subseteq MatchTicks /\ Cardinality(DOMAIN ring) <= Depth
    BY <1>2 DEF HostInv, HostTypes, Sized, States
  <2>3. /\ pinned.tick \in MatchTicks \cup {NoTick} /\ confirmed.tick \in MatchTicks
        /\ planned \in BOOLEAN /\ lobby \in BOOLEAN /\ published \in Rows \cup {NoRow}
    BY <1>2 DEF HostInv, HostTypes
  <2>4. /\ episode \in {"none", "begun", "loaded", "replay"}
        /\ replaying \in BOOLEAN
    BY <1>2 DEF HostInv, Correcting
  <2> QED BY <1>2, <2>1, <2>2, <2>3, <2>4 DEF TypeOK, Sized, Sound
<1> QED BY <1>1, <1>2, SizedSteps, HostInvariant, PTL DEF Spec

-----------------------------------------------------------------------------
(* The properties. *)

(* The recovery candidate that restore_confirmed_for_restart puts back is a
   boundary of the current timeline, never speculation that was rolled back. *)
THEOREM CandidateFollows == Spec => []CandidateIsThisTimeline
<1>1. HostInv => CandidateIsThisTimeline
  BY DEF HostInv
<1> QED BY <1>1, HostInvariant, PTL

(* The state that digests and snapshots are serialized from is never a cached
   one the simulation has left: generation and clock together are enough. *)
THEOREM CacheFollowsWorld == Spec => []CacheIsCurrent
<1>1. HostInv => CacheIsCurrent
  BY DEF HostInv, CacheFollows, CacheIsCurrent, CacheHits
<1> QED BY <1>1, HostInvariant, PTL

(* A boundary that pin_checkpoint named in time keeps its copy while the
   timeline is past it, however often it is rolled back and crossed again. *)
THEOREM PinSurvives == Spec => []PinnedBoundarySurvives
<1>1. HostInv => PinnedBoundarySurvives
  BY DEF HostInv, PinFollows, PinnedBoundarySurvives
<1> QED BY <1>1, HostInvariant, PTL

(* checkpoint_request is the first row of the corrected history that asks, live
   and in every snapshot a correction may load. *)
THEOREM RequestFollows == Spec => []RequestIsInHistory
<1>1. ASSUME HostInv PROVE RequestIsInHistory
  <2>1. nextTick \in 0 .. nextTick
    BY <1>1 DEF HostInv, HostTypes, MatchTicks
  <2>2. request = RequestAt(nextTick)
    BY <1>1, <2>1, FirstIsMin DEF HostInv, Asked
  <2>3. \A tick \in DOMAIN ring : tick <= nextTick =>
           tick \in 0 .. nextTick /\ IsFirst(ring[tick].request, tick)
    BY <1>1 DEF HostInv, HostTypes, RingFollows, MatchTicks
  <2>4. \A tick \in DOMAIN ring : tick <= nextTick => ring[tick].request = RequestAt(tick)
    BY <1>1, <2>3, FirstIsMin DEF HostInv
  <2> QED BY <2>2, <2>4 DEF RequestIsInHistory
<1> QED BY <1>1, HostInvariant, PTL

(* Whichever copy copy_checkpoint finds for a boundary - live, ring, pin or
   candidate - it is the state of this timeline. *)
THEOREM CheckpointsFollow == Spec => []CheckpointsAreThisTimeline
<1>1. ASSUME HostInv, published = NoRow, ~replaying, NEW tick \in 0 .. nextTick
      PROVE  CopyStateAt(tick) \in {Absent, StateCopy(StateAt(tick))}
  <2>1. CASE tick = nextTick
    BY <1>1, <2>1 DEF CopyStateAt, HostInv, Fed
  <2>2. CASE tick # nextTick /\ tick \in DOMAIN ring
    BY <1>1, <2>2 DEF CopyStateAt, HostInv, HostTypes, RingFollows, MatchTicks
  <2>3. CASE /\ tick \notin DOMAIN ring \cup {nextTick} /\ tick = pinned.tick
             /\ pinned.state # Absent
    BY <1>1, <2>3 DEF CopyStateAt, HostInv, PinFollows
  <2>4. CASE /\ tick \notin DOMAIN ring \cup {nextTick}
             /\ ~(tick = pinned.tick /\ pinned.state # Absent) /\ tick = confirmed.tick
    BY <1>1, <2>4 DEF CopyStateAt, HostInv, CandidateIsThisTimeline
  <2>5. CASE /\ tick \notin DOMAIN ring \cup {nextTick}
             /\ ~(tick = pinned.tick /\ pinned.state # Absent) /\ tick # confirmed.tick
    BY <1>1, <2>5 DEF CopyStateAt
  <2> QED BY <2>1, <2>2, <2>3, <2>4, <2>5
<1>2. HostInv => CheckpointsAreThisTimeline
  BY <1>1 DEF CheckpointsAreThisTimeline
<1> QED BY <1>2, HostInvariant, PTL
=============================================================================
