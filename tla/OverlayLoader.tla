---------------------------- MODULE OverlayLoader ----------------------------
(***************************************************************************)
(* Self-healing native code: src/runtime/overlay_loader.cpp.  The game     *)
(* thread meets functions that were not recompiled ahead of time, hands    *)
(* them to a worker thread that runs a compiler, and folds the results     *)
(* into its dispatch table between two steps of the guest.                 *)
(*                                                                         *)
(* While a diagnostic replay is captured, results are parked and installed *)
(* at frame boundaries, which the recording logs; playback installs what   *)
(* the recording lists.                                                    *)
(*                                                                         *)
(* A step is what no other thread can see the middle of: s_work_mtx is     *)
(* held by the worker from its test of the wait predicate until it blocks, *)
(* and by the game thread while it pushes; s_ready_mtx around each use of  *)
(* the ready queue.  Compiling ends well or badly.                         *)
(***************************************************************************)
EXTENDS Integers, Sequences, FiniteSets

CONSTANTS
    RomKeys,    \* functions in ROM or BIOS: compiled by the worker
    RamKeys,    \* functions in RAM, with GBARECOMP_RAM_OVERLAY_HEAL set, or
                \* any with GBARECOMP_SYNC_OVERLAY_HEAL: compiled on the spot
    LostKeys    \* functions no code image is known of

Keys == RomKeys \cup RamKeys \cup LostKeys

ASSUME KeysAssumption ==
    RomKeys \cap RamKeys = {} /\ LostKeys \cap (RomKeys \cup RamKeys) = {}

VARIABLES
    game,       \* where the game thread is
    missed,     \* the key overlay_request_compile is enqueueing
    mode,       \* s_adoption
    healed,     \* g_healed
    inflight,   \* s_inflight
    failed,     \* s_failed
    parked,     \* s_parked_results
    pool,       \* s_pool
    work,       \* s_work
    worker,     \* where the worker thread is
    item,       \* the key it compiles
    ready,      \* s_ready
    readyPending,    \* s_ready_pending
    stop,       \* s_stop
    logged,     \* keys the capture has logged as native (history)
    recorded    \* the set playback was last told to make native (history)

gameSets == <<healed, inflight, failed, parked, pool>>
queues == <<work, ready, readyPending>>
histories == <<logged, recorded>>
loaderVars == <<game, missed, mode, gameSets, queues, worker, item, stop, histories>>

TypeOK ==
    /\ game \in {"drain", "swap", "guest", "push", "notify", "wake", "join", "off"}
    /\ missed \in Keys /\ item \in Keys
    /\ mode \in {"immediate", "boundary", "replay"}
    /\ healed \cup inflight \cup failed \cup parked \cup pool \subseteq Keys
    /\ work \in Seq(RomKeys) /\ ready \in Seq([key: RomKeys, ok: BOOLEAN])
    /\ worker \in {"lock", "test", "block", "sleep", "compile", "exited"}
    /\ stop \in BOOLEAN
    /\ logged \subseteq Keys /\ recorded \subseteq Keys
    \* the counter read without the lock is the length read under it
    /\ readyPending = Len(ready)

(* overlay_loader_init warm-loads some of the cache.  The adoption mode is set
   before the first step of the guest; a capture begins by listing what is
   native. *)
LoaderInit ==
    /\ game = "drain" /\ worker = "lock" /\ stop = FALSE
    /\ missed \in Keys /\ item = missed
    /\ mode \in {"immediate", "boundary", "replay"}
    /\ healed \in SUBSET RomKeys
    /\ inflight = {} /\ failed = {} /\ parked = {} /\ pool = {}
    /\ work = <<>> /\ ready = <<>> /\ readyPending = 0
    /\ logged = healed /\ recorded = healed

-----------------------------------------------------------------------------
(* The worker thread: worker_main. *)

WorkerLock ==
    /\ worker = "lock" /\ worker' = "test"
    /\ UNCHANGED <<game, missed, mode, gameSets, queues, item, stop, histories>>

(* The wait predicate, s_work_mtx held. *)
WorkerTest ==
    /\ worker = "test"
    /\ \/ /\ stop
          /\ worker' = "exited" /\ UNCHANGED <<work, item>>
       \/ /\ ~stop /\ work # <<>>
          /\ worker' = "compile" /\ item' = Head(work) /\ work' = Tail(work)
       \/ /\ ~stop /\ work = <<>>
          /\ worker' = "block" /\ UNCHANGED <<work, item>>
    /\ UNCHANGED <<game, missed, mode, gameSets, ready, readyPending, stop, histories>>

(* The condition variable releases the mutex and blocks. *)
WorkerBlock ==
    /\ worker = "block" /\ worker' = "sleep"
    /\ UNCHANGED <<game, missed, mode, gameSets, queues, item, stop, histories>>

SpuriousWakeup ==
    /\ worker = "sleep" /\ worker' = "lock"
    /\ UNCHANGED <<game, missed, mode, gameSets, queues, item, stop, histories>>

WorkerPublish ==
    /\ worker = "compile" /\ worker' = "lock"
    /\ \E ok \in BOOLEAN : ready' = Append(ready, [key |-> item, ok |-> ok])
    /\ readyPending' = readyPending + 1
    /\ UNCHANGED <<game, missed, mode, gameSets, work, item, stop, histories>>

Notified == IF worker = "sleep" THEN "lock" ELSE worker

-----------------------------------------------------------------------------
(* overlay_drain_ready, at the head of every step. *)

DrainLook ==
    /\ game = "drain"
    /\ game' = IF readyPending = 0 THEN "guest" ELSE "swap"
    /\ UNCHANGED <<missed, mode, gameSets, queues, worker, item, stop, histories>>

(* Mutants: a capture installs like any other run; a failed compilation stays
   in flight. *)
Fold_InstallsAtOnce ==
    /\ ready' = <<>> /\ readyPending' = 0
    /\ inflight' = inflight \ {ready[n].key : n \in DOMAIN ready}
    /\ healed' = healed \cup {ready[n].key : n \in DOMAIN ready}
    /\ UNCHANGED <<failed, parked>>
Fold_FailedStays ==
    LET good == {ready[n].key : n \in {m \in DOMAIN ready : ready[m].ok}}
    IN  /\ ready' = <<>> /\ readyPending' = 0
        /\ inflight' = inflight \ good /\ healed' = healed \cup good
        /\ UNCHANGED <<failed, parked>>

Fold ==
    LET done == {ready[n].key : n \in DOMAIN ready}
        good == {ready[n].key : n \in {m \in DOMAIN ready : ready[m].ok}}
    IN  /\ ready' = <<>> /\ readyPending' = 0
        /\ inflight' = inflight \ done
        /\ failed' = failed \cup (done \ good)
        /\ IF mode = "boundary"
           THEN parked' = parked \cup good /\ UNCHANGED healed
           ELSE healed' = healed \cup good /\ UNCHANGED parked

DrainSwap ==
    /\ game = "swap" /\ game' = "guest"
    /\ Fold
    /\ UNCHANGED <<missed, mode, pool, work, worker, item, stop, histories>>

-----------------------------------------------------------------------------
(* The guest runs, and may meet one function that is not native. *)

Unanswered(k) == k \notin healed \cup inflight \cup failed

(* A RAM function, or any with synchronous healing: on the game thread. *)
MissCompiledNow(k) ==
    /\ game = "guest" /\ game' = "drain"
    /\ k \in RamKeys /\ Unanswered(k)
    /\ \/ healed' = healed \cup {k} /\ UNCHANGED failed
       \/ failed' = failed \cup {k} /\ UNCHANGED healed
    /\ UNCHANGED <<missed, mode, inflight, parked, pool, queues, worker, item,
                   stop, histories>>

MissWithoutImage(k) ==
    /\ game = "guest" /\ game' = "drain"
    /\ k \in LostKeys /\ Unanswered(k)
    /\ failed' = failed \cup {k}
    /\ UNCHANGED <<missed, mode, healed, inflight, parked, pool, queues, worker,
                   item, stop, histories>>

(* Playback starts no compilation. *)
Enqueues(k) == k \in RomKeys /\ Unanswered(k) /\ mode # "replay"

MissEnqueued(k) ==
    /\ game = "guest" /\ game' = "push"
    /\ Enqueues(k)
    /\ missed' = k /\ inflight' = inflight \cup {k}
    /\ UNCHANGED <<mode, healed, failed, parked, pool, queues, worker, item,
                   stop, histories>>

Push ==
    /\ game = "push" /\ game' = "notify"
    /\ worker \notin {"test", "block"}
    /\ work' = Append(work, missed)
    /\ UNCHANGED <<missed, mode, gameSets, ready, readyPending, worker, item, stop, histories>>

(* Mutant: nobody tells the worker. *)
Notify_Nobody ==
    /\ game = "notify" /\ game' = "drain"
    /\ UNCHANGED <<missed, mode, gameSets, queues, worker, item, stop, histories>>
Notify ==
    /\ game = "notify" /\ game' = "drain"
    /\ worker' = Notified
    /\ UNCHANGED <<missed, mode, gameSets, queues, item, stop, histories>>

(* A step without a miss that changes anything. *)
Step ==
    /\ game = "guest" /\ game' = "drain"
    /\ UNCHANGED <<missed, mode, gameSets, queues, worker, item, stop, histories>>

(* overlay_adopt_parked, called by the recorder at a frame boundary. *)
CaptureFrame ==
    /\ game = "guest" /\ game' = "drain" /\ mode = "boundary"
    /\ healed' = healed \cup parked /\ parked' = {}
    /\ logged' = logged \cup parked
    /\ UNCHANGED <<missed, mode, inflight, failed, pool, queues, worker, item,
                   stop, recorded>>

(* The capture ends: overlay_set_adoption_mode(Immediate). *)
ReleaseCapture ==
    /\ game = "guest" /\ game' = "drain" /\ mode = "boundary"
    /\ mode' = "immediate"
    /\ healed' = healed \cup parked /\ parked' = {}
    /\ UNCHANGED <<missed, inflight, failed, pool, queues, worker, item,
                   stop, histories>>

(* overlay_replay_set_active(want): what is missing is taken from the pool or
   compiled here and now. *)
ReplaySetActive(want) ==
    /\ game = "guest" /\ game' = "drain" /\ mode = "replay"
    /\ \E built \in SUBSET ((want \cap (RomKeys \cup RamKeys)) \ (healed \cup pool)) :
          healed' = (want \cap (healed \cup pool)) \cup built
    /\ pool' = (pool \cup healed) \ want
    /\ recorded' = want
    /\ UNCHANGED <<missed, mode, inflight, failed, parked, queues, worker, item,
                   stop, logged>>

-----------------------------------------------------------------------------
(* overlay_loader_shutdown: s_stop is stored without s_work_mtx. *)

ShutdownStore ==
    /\ game = "guest" /\ game' = "wake"
    /\ stop' = TRUE
    /\ UNCHANGED <<missed, mode, gameSets, queues, worker, item, histories>>

ShutdownNotify ==
    /\ game = "wake" /\ game' = "join"
    /\ worker' = Notified
    /\ UNCHANGED <<missed, mode, gameSets, queues, item, stop, histories>>

ShutdownJoin ==
    /\ game = "join" /\ game' = "off"
    /\ worker = "exited"
    /\ Fold
    /\ UNCHANGED <<missed, mode, pool, work, worker, item, stop, histories>>

-----------------------------------------------------------------------------
Worker == WorkerLock \/ WorkerTest \/ WorkerBlock \/ WorkerPublish

Game ==
    \/ DrainLook \/ DrainSwap \/ Push \/ Notify \/ Step
    \/ CaptureFrame \/ ReleaseCapture
    \/ ShutdownStore \/ ShutdownNotify \/ ShutdownJoin
    \/ \E k \in Keys : MissCompiledNow(k) \/ MissWithoutImage(k) \/ MissEnqueued(k)
    \/ \E want \in SUBSET Keys : ReplaySetActive(want)

LoaderNext == Worker \/ SpuriousWakeup \/ Game

(* Both threads run; nothing promises a spurious wakeup, and a thread that
   waits for s_work_mtx gets it however often the other takes it again. *)
LoaderSpec ==
    /\ LoaderInit /\ [][LoaderNext]_loaderVars
    /\ WF_loaderVars(Worker) /\ WF_loaderVars(Game) /\ SF_loaderVars(Push)

-----------------------------------------------------------------------------
(* Properties. *)

(* A function in flight is in exactly one place - about to be pushed, queued,
   being compiled, or finished and not yet drained - and nothing else is
   anywhere, so no function is compiled twice at a time and none is lost
   between the two threads. *)
Occurrences(k) ==
    Cardinality({n \in DOMAIN work : work[n] = k})
      + Cardinality({n \in DOMAIN ready : ready[n].key = k})
      + (IF worker = "compile" /\ item = k THEN 1 ELSE 0)
      + (IF game = "push" /\ missed = k THEN 1 ELSE 0)
InflightIsAccounted ==
    \A k \in Keys : Occurrences(k) = IF k \in inflight THEN 1 ELSE 0

(* "While a capture runs, worker results are parked and only installed at
   frame boundaries, which the recorder logs" (overlay_loader.h:95): whatever
   the worker made native during a capture is in the recording. *)
CaptureLogsResults == mode = "boundary" => healed \cap RomKeys \subseteq logged

(* "Playback installs exactly the recorded set at the same boundaries and never
   adopts on its own" (overlay_loader.h:97): whatever is native in playback is
   in the set it was last told to install. *)
NeverAdoptsOnItsOwn == mode = "replay" => healed \subseteq recorded

(* Every function handed to the worker is answered while the game runs. *)
RequestIsAnswered == \A k \in RomKeys : k \in inflight ~> (k \notin inflight \/ stop)

(* "bounded: at most the in-flight compile finishes" (overlay_loader.cpp:504):
   once begun, a shutdown ends. *)
ShutdownReturns == stop ~> game = "off"
=============================================================================
