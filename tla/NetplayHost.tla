---------------------------- MODULE NetplayHost ------------------------------
(***************************************************************************)
(* The rollback host of src/runtime/multiplayer_netplay.cpp: between the   *)
(* shared rollback driver, which predicts inputs and takes them back, and  *)
(* one deterministic whole-session simulation.                             *)
(*                                                                         *)
(* The simulation's state is what it was fed: the sequence of guest inputs *)
(* since the world began.  The driver, its snapshot ring and its           *)
(* confirmation watermark belong to a library outside the repository; they *)
(* are what the host's callbacks and tests/link/netplay_test.cpp show:     *)
(* a correction is resim_begin, snap_load, snap_drop_after, replayed       *)
(* ticks, resim_end, and may stay open over many frames.                   *)
(***************************************************************************)
EXTENDS Integers, FiniteSetsExt, SequencesExt

CONSTANTS
    Rows,       \* input rows: the guest buttons and the session-control bit
    Depth,      \* kSnapshotDepth, 120
    MaxTick,    \* bound on the ticks of one match
    MaxBase     \* bound on the length of the state a match begins with

ASSUME RowsAssumption == \A row \in Rows : row.request \in BOOLEAN
ASSUME DepthAssumption == Depth \in Nat \ {0} /\ MaxTick \in Nat /\ MaxBase \in Nat

VARIABLES
    simulated,  \* simulation_
    base,       \* state the match began with (history)
    rows,       \* rows the simulation was fed in this match (history)
    nextTick,   \* next_tick_
    ring,       \* snapshots_: from ticks to a state and a request
    cache,      \* cached_state_ and its key
    pinned,     \* pinned_tick_, pinned_state_
    planned,    \* pin_checkpoint named a boundary still to come (history)
    confirmed,  \* confirmed_
    published,  \* the row published for next_tick_, or NoRow
    replaying,  \* replaying_
    lobby,      \* lobby_requested_
    outputReady,\* output_ready_
    audio,      \* sound waiting in the simulation: the runs that made it
    request,    \* checkpoint_request_tick_
    episode     \* where the driver is in a correction

driverVars == <<replaying, episode>>
timeline == <<simulated, base, rows, nextTick, request>>
copies == <<ring, pinned, planned, confirmed>>
output == <<outputReady, audio>>
vars == <<timeline, copies, cache, output, driverVars, published, lobby>>

NoTick == MaxTick + 1       \* UINT32_MAX, later than every tick
NoRow == [input |-> "none", request |-> FALSE]
MatchTicks == 0 .. MaxTick
Inputs == {row.input : row \in Rows}

(* A copy of a state that may be absent: an empty byte vector. *)
Absent == <<>>
StateCopy(state) == <<state>>

(* What the state at a boundary of this match is, by definition: the first
   rows fed to the simulation decide it. *)
StateAt(tick) == base \o [n \in 1 .. tick |-> rows[n].input]
RequestAt(tick) ==
    Min({NoTick} \cup {n - 1 : n \in {m \in 1 .. tick : rows[m].request}})

TypeOK ==
    /\ simulated \in Seq(Inputs \cup {"broken"}) /\ base \in Seq(Inputs)
    /\ rows \in Seq(Rows) /\ nextTick \in MatchTicks
    /\ DOMAIN ring \subseteq MatchTicks
    /\ pinned.tick \in MatchTicks \cup {NoTick} /\ planned \in BOOLEAN
    /\ confirmed.tick \in MatchTicks
    /\ published \in Rows \cup {NoRow}
    /\ replaying \in BOOLEAN /\ lobby \in BOOLEAN /\ outputReady \in BOOLEAN
    /\ audio \in Seq([tick: MatchTicks, replay: BOOLEAN])
    /\ request \in MatchTicks \cup {NoTick}
    /\ episode \in {"none", "begun", "loaded", "replay"}
    \* next_tick_ counts the rows, the ring keeps to its depth
    /\ Len(rows) = nextTick /\ Cardinality(DOMAIN ring) <= Depth

Init ==
    /\ simulated = <<>> /\ base = <<>> /\ rows = <<>> /\ nextTick = 0
    /\ ring = <<>> /\ cache = [fresh |-> FALSE, cycle |-> 0, state |-> <<>>]
    /\ pinned = [tick |-> NoTick, state |-> Absent] /\ planned = FALSE
    /\ confirmed = [tick |-> 0, state |-> StateCopy(<<>>)]
    /\ published = NoRow /\ replaying = FALSE /\ lobby = FALSE
    /\ outputReady = FALSE /\ audio = <<>>
    /\ request = NoTick /\ episode = "none"

-----------------------------------------------------------------------------
(* The cache of the serialized state: its key is the mutation generation and
   the session clock, which moves by one frame a tick. *)
CacheHits == cache.fresh /\ cache.cycle = Len(simulated)
CurrentState == IF CacheHits THEN cache.state ELSE simulated
Serialized == cache' = [fresh |-> TRUE, cycle |-> Len(simulated), state |-> CurrentState]

(* Mutant: nothing moves the generation; the clock alone is the key. *)
Mutated_ClockOnly == UNCHANGED cache
Mutated == cache' = [cache EXCEPT !.fresh = FALSE]

(* fail(): the match goes back to the lobby and shows nothing more. *)
Fail == lobby' = TRUE /\ outputReady' = FALSE /\ audio' = <<>>

-----------------------------------------------------------------------------
(* The driver's callbacks. *)

(* The library's ring: saving over its depth evicts the oldest tick. *)
Stored(tick, snapshot) ==
    LET kept == (DOMAIN ring \ {tick}) \cup {tick}
        here == IF Cardinality(kept) > Depth THEN kept \ {Min(kept \ {tick})} ELSE kept
    IN  [t \in here |-> IF t = tick THEN snapshot ELSE ring[t]]

SnapSave ==
    /\ published = NoRow /\ episode \in {"none", "replay"}
    /\ ring' = Stored(nextTick, [state |-> CurrentState, request |-> request])
    /\ Serialized
    /\ UNCHANGED <<timeline, pinned, planned, confirmed, output, driverVars,
                   published, lobby>>

Digest ==
    /\ Serialized
    /\ UNCHANGED <<timeline, copies, output, driverVars, published, lobby>>

Publish(row) ==
    /\ published = NoRow /\ episode \in {"none", "replay"}
    /\ nextTick < MaxTick
    /\ published' = row
    /\ UNCHANGED <<timeline, copies, cache, output, driverVars, lobby>>

(* A seat without input, a malformed packet, a row for another tick. *)
RefusePublication ==
    /\ Fail
    /\ UNCHANGED <<timeline, copies, cache, driverVars, published>>

(* run_published_tick(): the boundary is pinned before the frame runs, and
   sound nobody took is discarded with its frame. *)
Runs == published # NoRow /\ ~lobby

(* Mutant: a replay does not capture the boundary again. *)
Pinned_OnlyForward == IF nextTick = pinned.tick /\ ~replaying
                      THEN [pinned EXCEPT !.state = StateCopy(CurrentState)] ELSE pinned
Pinned == IF nextTick = pinned.tick
          THEN [pinned EXCEPT !.state = StateCopy(CurrentState)] ELSE pinned

FrameSound == IF replaying THEN <<>> ELSE <<[tick |-> nextTick, replay |-> FALSE]>>

RunTick ==
    /\ Runs
    /\ pinned' = Pinned
    /\ Mutated
    /\ simulated' = Append(simulated, published.input)
    /\ rows' = Append(rows, published)
    /\ request' = IF published.request /\ request = NoTick THEN nextTick ELSE request
    /\ nextTick' = nextTick + 1
    /\ published' = NoRow
    /\ outputReady' = ~replaying
    /\ audio' = FrameSound
    /\ UNCHANGED <<base, ring, planned, confirmed, driverVars, lobby>>

(* The frame throws half way: the row stays published. *)
RunFails ==
    /\ Runs
    /\ pinned' = Pinned
    /\ Mutated
    /\ simulated' = Append(simulated, "broken")
    /\ Fail
    /\ UNCHANGED <<base, rows, nextTick, request, ring, planned, confirmed,
                   driverVars, published>>

ResimBegin ==
    /\ episode = "none" /\ published = NoRow
    /\ replaying' = TRUE /\ episode' = "begun"
    /\ outputReady' = FALSE /\ audio' = <<>>
    /\ UNCHANGED <<timeline, copies, cache, published, lobby>>

(* deserialize(): the request comes back with the state, and a candidate from
   beyond the loaded boundary is given up. *)
(* Mutants: the request is not rolled back; the candidate is kept. *)
RequestLoaded_Live(tick) == request
RequestLoaded(tick) == ring[tick].request

CandidateAfter_Kept(tick) == confirmed
CandidateAfter(tick) == IF tick < confirmed.tick THEN [tick |-> 0, state |-> Absent]
                                                 ELSE confirmed

SnapLoad(tick) ==
    /\ episode = "begun" /\ tick \in DOMAIN ring /\ tick <= nextTick
    /\ episode' = "loaded"
    /\ simulated' = ring[tick].state
    /\ request' = RequestLoaded(tick)
    /\ nextTick' = tick /\ rows' = SubSeq(rows, 1, tick)
    /\ Mutated
    /\ pinned' = IF tick < pinned.tick THEN [pinned EXCEPT !.state = Absent] ELSE pinned
    /\ confirmed' = CandidateAfter(tick)
    /\ published' = NoRow
    /\ outputReady' = FALSE /\ audio' = <<>>
    /\ UNCHANGED <<base, ring, planned, replaying, lobby>>

(* Mutant: snapshots of the abandoned future stay in the ring. *)
SnapDropAfter_KeepsRing ==
    /\ episode = "loaded" /\ episode' = "replay"
    /\ UNCHANGED <<timeline, copies, cache, output, replaying, published, lobby>>

SnapDropAfter ==
    /\ episode = "loaded"
    /\ episode' = "replay"
    /\ ring' = [t \in {t \in DOMAIN ring : t <= nextTick} |-> ring[t]]
    /\ pinned' = IF pinned.tick > nextTick /\ pinned.tick # NoTick
                 THEN [pinned EXCEPT !.state = Absent] ELSE pinned
    /\ UNCHANGED <<timeline, planned, confirmed, cache, output, replaying,
                   published, lobby>>

ResimEnd ==
    /\ episode = "replay" /\ published = NoRow
    /\ replaying' = FALSE /\ episode' = "none"
    /\ audio' = <<>>
    /\ UNCHANGED <<timeline, copies, cache, outputReady, published, lobby>>

RequestLobby ==
    /\ lobby' = TRUE
    /\ UNCHANGED <<timeline, copies, cache, output, driverVars, published>>

-----------------------------------------------------------------------------
(* The match's calls. *)

PinCheckpoint(tick) ==
    /\ pinned' = [tick |-> tick, state |-> Absent]
    /\ planned' = (tick >= nextTick)
    /\ UNCHANGED <<timeline, ring, confirmed, cache, output, driverVars,
                   published, lobby>>

(* retain_confirmed(through): the newest boundary that the watermark covers
   and a copy exists of. *)
RetainConfirmed(through) ==
    /\ ~replaying /\ published = NoRow
    /\ LET boundary == through + 1
           best == Max({confirmed.tick} \cup {t \in DOMAIN ring : t <= boundary})
       IN  \/ /\ through >= nextTick
              /\ Fail /\ UNCHANGED confirmed
           \/ /\ through < nextTick /\ nextTick = boundary /\ nextTick > best
              /\ confirmed' = [tick |-> nextTick, state |-> StateCopy(simulated)]
              /\ UNCHANGED <<lobby, output>>
           \/ /\ through < nextTick /\ ~(nextTick = boundary /\ nextTick > best)
              /\ best > confirmed.tick
              /\ confirmed' = [tick |-> best, state |-> StateCopy(ring[best].state)]
              /\ UNCHANGED <<lobby, output>>
    /\ UNCHANGED <<timeline, ring, pinned, planned, cache, driverVars, published>>

(* begin_match() *)
BeginMatch(state) ==
    /\ base' = state /\ rows' = <<>> /\ nextTick' = 0 /\ request' = NoTick
    /\ Mutated
    /\ ring' = <<>> /\ confirmed' = [tick |-> 0, state |-> StateCopy(state)]
    /\ pinned' = [pinned EXCEPT !.state = Absent]
    /\ planned' = (pinned.tick # NoTick)
    /\ published' = NoRow /\ replaying' = FALSE /\ episode' = "none"
    /\ lobby' = FALSE /\ outputReady' = FALSE /\ audio' = <<>>

(* restore_confirmed_for_restart(), once the old driver has stopped. *)
Restore ==
    \/ /\ confirmed.state = Absent
       /\ Fail
       /\ UNCHANGED <<timeline, copies, cache, driverVars, published>>
    \/ \E state \in Range(confirmed.state) :
          /\ Len(state) <= MaxBase
          /\ simulated' = state
          /\ BeginMatch(state)

TakeOutput ==
    /\ outputReady /\ ~replaying /\ published = NoRow /\ ~lobby
    /\ outputReady' = FALSE /\ audio' = <<>>
    /\ UNCHANGED <<timeline, copies, cache, driverVars, published, lobby>>

Next ==
    \/ SnapSave \/ Digest \/ RefusePublication \/ RunTick \/ RunFails
    \/ ResimBegin \/ SnapDropAfter \/ ResimEnd \/ RequestLobby
    \/ Restore \/ TakeOutput
    \/ \E row \in Rows : Publish(row)
    \/ \E tick \in MatchTicks :
          SnapLoad(tick) \/ PinCheckpoint(tick) \/ RetainConfirmed(tick)

Spec == Init /\ [][Next]_vars

-----------------------------------------------------------------------------
(* What copy_checkpoint and checkpoint_unchanged compare with. *)
CopyStateAt(tick) ==
    CASE tick = nextTick -> StateCopy(simulated)
      [] tick # nextTick /\ tick \in DOMAIN ring -> StateCopy(ring[tick].state)
      [] tick \notin DOMAIN ring \cup {nextTick} /\ tick = pinned.tick
            /\ pinned.state # Absent -> pinned.state
      [] tick \notin DOMAIN ring \cup {nextTick} /\ tick = confirmed.tick
            /\ ~(tick = pinned.tick /\ pinned.state # Absent) -> confirmed.state
      [] OTHER -> Absent

(* A checkpoint two peers could agree on is the state of the timeline as it is
   now, wherever the copy of it comes from: live, ring, pin or recovery
   candidate, and whatever was rolled back in between. *)
CheckpointsAreThisTimeline ==
    (published = NoRow /\ ~replaying) =>
        \A tick \in 0 .. nextTick : CopyStateAt(tick) \in {Absent, StateCopy(StateAt(tick))}

(* "a demoted confirmation watermark cannot preserve stale speculative save
   bytes" (docs/MULTIPLAYER.md): the recovery candidate is always a boundary
   of the current timeline, in the middle of a correction too. *)
CandidateIsThisTimeline ==
    confirmed.state # Absent =>
        confirmed.tick <= nextTick /\ confirmed.state = StateCopy(StateAt(confirmed.tick))

(* The digest and the snapshot of a boundary never come from a cached state
   the simulation has left. *)
CacheIsCurrent == CacheHits => cache.state = simulated

(* "The boundary's snapshot is pinned, so a slow agreement does not depend on
   rollback-ring reach": a boundary pinned in time has its copy as long as the
   timeline is past it, however often it was crossed. *)
PinnedBoundarySurvives ==
    planned /\ nextTick > pinned.tick => pinned.state = StateCopy(StateAt(pinned.tick))

(* Peers save and leave at one tick: the request is the first in the input
   history as corrected, never one that was predicted and taken back. *)
RequestIsInHistory ==
    /\ request = RequestAt(nextTick)
    /\ \A tick \in DOMAIN ring : tick <= nextTick => ring[tick].request = RequestAt(tick)

=============================================================================
