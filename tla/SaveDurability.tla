--------------------------- MODULE SaveDurability ---------------------------
(***************************************************************************)
(* What survives a kill.  One session at a time keeps the cartridge save   *)
(* in memory, writes it to the battery file once the game has left it      *)
(* alone for a while, and may leave a suspend state with a marker that     *)
(* names the battery it belongs to; the next launch reads the battery and  *)
(* resumes the suspend state when the marker still matches.                *)
(*                                                                         *)
(* Both files are replaced through a sibling temporary                     *)
(* (replace_file_preserving): one rename, or, when that is refused, the    *)
(* old file is parked first.  A session may be killed between any two      *)
(* file operations, and every one that changes a file may fail; looking    *)
(* whether a file is there, or what is in it, does not.                    *)
(*                                                                         *)
(* A save's contents are the number of the guest write that made them (0:  *)
(* an erased chip), so equal contents are the same save.  The chip keeps   *)
(* its size.  States the player loads by hand are not modelled.            *)
(***************************************************************************)
EXTENDS Integers, Sequences, FiniteSets

CONSTANTS
    Settle,      \* kSaveSettleFrames
    MaxDelay,    \* kSaveMaxDelayFrames
    Autosaves,   \* whether autosave_on holds; a set to choose from
    MaxWrites,   \* bound: guest writes in all
    MaxLosses    \* bound: failed file operations and kills in all

ASSUME DelaysAssumption ==
    /\ Settle \in Nat \ {0} /\ MaxDelay \in Nat /\ Settle <= MaxDelay
    /\ Autosaves \subseteq BOOLEAN
ASSUME LimitsAssumption == MaxWrites \in Nat /\ MaxLosses \in Nat

VARIABLES
    files,       \* the battery file and the suspend state, each with siblings
    marker,      \* the suspend marker: the battery it names
    calls,       \* what the session still has to do before it runs a frame
    at,          \* where the first of the calls has got to
    chip,        \* the running session's save memory and its bookkeeping
    running,     \* a session exists
    autosave,    \* autosave_on of this build
    writes,      \* guest writes so far (the next contents)
    losses,      \* failures and kills so far
    late,        \* history: frames the chip has been dirty with no attempt
    stuck        \* history: with no battery in place, a flush could not remove
                 \* the parked one, and went on

durable == <<files, marker>>
volatile == <<chip, calls, at, running>>
saveVars == <<files, marker, calls, at, chip, running, autosave, writes, losses, late,
              stuck>>

-----------------------------------------------------------------------------
Names == {"save", "state"}
Contents == [ram : -2..MaxWrites, dirty : BOOLEAN]
Absent == [ram |-> -1, dirty |-> FALSE]
Torn   == [ram |-> -2, dirty |-> FALSE]

Whole(c) == c.ram >= 0

\* The file the current call is replacing, and what it puts there.
File == IF Head(calls) = "flush" THEN "save" ELSE "state"
Fresh == IF Head(calls) = "flush" THEN [ram |-> chip.ram, dirty |-> FALSE]
                                  ELSE [ram |-> chip.ram, dirty |-> chip.dirty]

\* suspend_battery_fingerprint: the contents, or -1 for a missing battery.
Fingerprint == files["save"].dest.ram
NoMarker == -3
TornMarker == -2

Blank == [ram |-> 0, dirty |-> FALSE, pending |-> FALSE, quiet |-> 0, waiting |-> 0,
          ran |-> FALSE, suspended |-> FALSE]

SaveInit ==
    /\ files = [f \in Names |-> [dest |-> Absent, tmp |-> Absent, bak |-> Absent]]
    /\ marker = NoMarker
    /\ calls = <<>> /\ at = "start"
    /\ chip = Blank
    /\ running = FALSE
    /\ autosave \in Autosaves
    /\ writes = 0 /\ losses = 0 /\ late = 0 /\ stuck = FALSE

-----------------------------------------------------------------------------
\* A call ends; what follows it starts.
Returned == at' = "start" /\ calls' = Tail(calls)

\* A suspend state that was not written takes its marker call with it.
Failed ==
    /\ at' = "start"
    /\ calls' = IF Head(calls) = "suspend" THEN Tail(Tail(calls)) ELSE Tail(calls)

Lose == losses < MaxLosses /\ losses' = losses + 1

Written(f) ==
    /\ Returned
    /\ chip' = IF f = "save" THEN [chip EXCEPT !.dirty = FALSE]
               ELSE [chip EXCEPT !.suspended = TRUE]

Calling(c) == running /\ calls # <<>> /\ Head(calls) \in c

\* Clean: nothing to write.
FlushClean ==
    /\ Calling({"flush"}) /\ at = "start" /\ ~chip.dirty
    /\ Returned
    /\ UNCHANGED <<durable, chip, running, autosave, writes, losses, late, stuck>>

\* The temporary is opened, which empties it ...
OpenTemp ==
    /\ Calling({"flush", "suspend"}) /\ at = "start"
    /\ Head(calls) = "flush" => chip.dirty
    /\ \/ /\ files' = [files EXCEPT ![File].tmp = Torn]
          /\ at' = "write"
          /\ UNCHANGED <<calls, losses>>
       \/ Failed /\ Lose /\ UNCHANGED files
    /\ UNCHANGED <<marker, chip, running, autosave, writes, late, stuck>>

\* Mutant: the save counts as written before it is in place.
WriteTemp_Clean ==
    /\ Calling({"flush", "suspend"}) /\ at = "write"
    /\ files' = [files EXCEPT ![File].tmp = Fresh]
    /\ at' = "move"
    /\ chip' = [chip EXCEPT !.dirty = @ /\ File = "state"]
    /\ UNCHANGED <<marker, calls, running, autosave, writes, losses, late, stuck>>

\* ... and filled; a state that fails to write takes its temporary away.
WriteTemp ==
    /\ Calling({"flush", "suspend"}) /\ at = "write"
    /\ \/ /\ files' = [files EXCEPT ![File].tmp = Fresh]
          /\ at' = "move"
          /\ UNCHANGED <<calls, losses>>
       \/ /\ files' = [files EXCEPT ![File].tmp = IF File = "state" THEN Absent ELSE @]
          /\ Failed /\ Lose
    /\ UNCHANGED <<marker, chip, running, autosave, writes, late, stuck>>

\* rename(tmp, dest) replaces the file at once, or is refused.
MoveOver ==
    /\ Calling({"flush", "suspend"}) /\ at = "move"
    /\ \/ /\ files' = [files EXCEPT ![File].dest = files[File].tmp, ![File].tmp = Absent]
          /\ Written(File)
          /\ UNCHANGED losses
       \/ /\ at' = "clear" /\ Lose
          /\ UNCHANGED <<files, calls, chip>>
    /\ UNCHANGED <<marker, running, autosave, writes, late, stuck>>

\* A copy parked by an earlier replacement is removed; whether it was is not
\* looked at, here and when the replacement has succeeded.
ClearParked ==
    /\ Calling({"flush", "suspend"}) /\ at = "clear"
    /\ \/ /\ files' = [files EXCEPT ![File].bak = Absent]
          /\ UNCHANGED <<losses, stuck>>
       \/ /\ files[File].bak # Absent /\ Lose /\ UNCHANGED files
          /\ stuck' = (stuck \/ (File = "save" /\ files[File].dest = Absent))
    /\ at' = IF files[File].dest = Absent THEN "second" ELSE "park"
    /\ UNCHANGED <<marker, calls, chip, running, autosave, writes, late>>

\* Mutant: the old file is removed, not parked.
Park_Deletes ==
    /\ Calling({"flush", "suspend"}) /\ at = "park"
    /\ \/ /\ files' = [files EXCEPT ![File].dest = Absent]
          /\ at' = "second"
          /\ UNCHANGED <<calls, losses>>
       \/ Failed /\ Lose /\ UNCHANGED files
    /\ UNCHANGED <<marker, chip, running, autosave, writes, late, stuck>>

Park ==
    /\ Calling({"flush", "suspend"}) /\ at = "park"
    /\ \/ /\ files' = [files EXCEPT ![File].bak = files[File].dest, ![File].dest = Absent]
          /\ at' = "second"
          /\ UNCHANGED <<calls, losses>>
       \/ Failed /\ Lose /\ UNCHANGED files
    /\ UNCHANGED <<marker, chip, running, autosave, writes, late, stuck>>

MoveSecond ==
    /\ Calling({"flush", "suspend"}) /\ at = "second"
    /\ \/ /\ files' = [files EXCEPT ![File].dest = files[File].tmp, ![File].tmp = Absent]
          /\ at' = "drop"
          /\ UNCHANGED losses
       \/ at' = "restore" /\ Lose /\ UNCHANGED files
    /\ UNCHANGED <<marker, calls, chip, running, autosave, writes, late, stuck>>

\* The parked copy goes back, if there is one and the rename is allowed.
PutBack ==
    /\ Calling({"flush", "suspend"}) /\ at = "restore"
    /\ \/ /\ files[File].bak # Absent
          /\ files' = [files EXCEPT ![File].dest = files[File].bak, ![File].bak = Absent]
          /\ UNCHANGED losses
       \/ files[File].bak = Absent /\ UNCHANGED <<files, losses>>
       \/ files[File].bak # Absent /\ Lose /\ UNCHANGED files
    /\ Failed
    /\ UNCHANGED <<marker, chip, running, autosave, writes, late, stuck>>

DropParked ==
    /\ Calling({"flush", "suspend"}) /\ at = "drop"
    /\ \/ /\ files' = [files EXCEPT ![File].bak = Absent]
          /\ UNCHANGED losses
       \/ files[File].bak # Absent /\ Lose /\ UNCHANGED files
    /\ Written(File)
    /\ UNCHANGED <<marker, running, autosave, writes, late, stuck>>

-----------------------------------------------------------------------------
\* write_suspend_marker: the marker is emptied, then names the battery.
Mark ==
    /\ Calling({"mark"})
    /\ \/ at = "start" /\ marker' = TornMarker /\ at' = "write" /\ UNCHANGED <<calls, losses>>
       \/ at = "start" /\ UNCHANGED marker /\ Returned /\ Lose
       \/ at = "write" /\ marker' = Fingerprint /\ Returned /\ UNCHANGED losses
       \/ at = "write" /\ UNCHANGED marker /\ Returned /\ Lose
    /\ UNCHANGED <<files, chip, running, autosave, writes, late, stuck>>

\* clear_suspend_marker; the removal's error is not looked at.
Unmark ==
    /\ Calling({"unmark"})
    /\ \/ marker' = NoMarker /\ UNCHANGED losses
       \/ marker # NoMarker /\ UNCHANGED marker /\ Lose
    /\ Returned
    /\ UNCHANGED <<files, chip, running, autosave, writes, late, stuck>>

\* SDL_APP_TERMINATING also asks to quit; suspend_on_exit keeps the marker.
Terminate ==
    /\ Calling({"terminate"})
    /\ at' = "start"
    /\ calls' = <<"flush">> \o (IF chip.suspended \/ ~chip.ran THEN <<>> ELSE <<"unmark">>)
                \o <<"exit">>
    /\ UNCHANGED <<durable, chip, running, autosave, writes, losses, late, stuck>>

\* wait_for_foreground: live again, or destroyed while suspended.
Waited ==
    /\ Calling({"wait"})
    /\ \/ calls' = <<"unmark">>
       \/ calls' = <<"terminate">>
    /\ at' = "start"
    /\ UNCHANGED <<durable, chip, running, autosave, writes, losses, late, stuck>>

Exit ==
    /\ Calling({"exit"})
    /\ running' = FALSE /\ calls' = <<>> /\ at' = "start" /\ chip' = Blank /\ late' = 0
    /\ UNCHANGED <<durable, autosave, writes, losses, stuck>>

-----------------------------------------------------------------------------
\* Mutant: the marker is not compared with the battery.
Resumable_Unchecked == marker >= -1 /\ files["state"].dest # Absent

\* suspend_marker_matches_battery, and the state it speaks of is there.
Resumable ==
    /\ marker >= -1 /\ marker = Fingerprint
    /\ files["state"].dest # Absent

\* A session reads the battery; the other files of the scheme are never read.
Launch ==
    /\ ~running
    /\ running' = TRUE
    /\ chip' = [Blank EXCEPT !.ram = IF files["save"].dest = Absent THEN 0
                                     ELSE files["save"].dest.ram]
    /\ calls' = <<"resume">> /\ at' = "start"
    /\ UNCHANGED <<durable, autosave, writes, losses, late, stuck>>

\* The marker goes whether or not the state loads.
Resume ==
    /\ Calling({"resume"})
    /\ IF Resumable
       THEN /\ calls' = <<"unmark">>
            /\ \/ /\ chip' = [chip EXCEPT !.ram = files["state"].dest.ram,
                                          !.dirty = files["state"].dest.dirty, !.ran = TRUE]
                  /\ UNCHANGED losses
               \/ UNCHANGED chip /\ Lose
       ELSE calls' = <<>> /\ UNCHANGED <<chip, losses>>
    /\ at' = "start"
    /\ UNCHANGED <<durable, running, autosave, writes, late, stuck>>

-----------------------------------------------------------------------------
Idle == running /\ calls = <<>>

Suspend == <<"suspend", "mark">>

\* Mutant: both clocks start again with every write.
Counted_Together(c, wrote) ==
    IF ~c.dirty THEN [c EXCEPT !.pending = FALSE, !.quiet = 0, !.waiting = 0]
    ELSE [c EXCEPT !.pending = TRUE,
                   !.quiet   = IF wrote \/ ~c.pending THEN 0 ELSE @ + 1,
                   !.waiting = IF wrote \/ ~c.pending THEN 0 ELSE @ + 1]

\* The two clocks of maybe_flush_battery after one more frame.
Counted(c, wrote) ==
    IF ~c.dirty THEN [c EXCEPT !.pending = FALSE, !.quiet = 0, !.waiting = 0]
    ELSE [c EXCEPT !.pending = TRUE,
                   !.quiet   = IF wrote \/ ~c.pending THEN 0 ELSE @ + 1,
                   !.waiting = IF ~c.pending THEN 0 ELSE @ + 1]

FlushDue(c) == c.dirty /\ (c.quiet >= Settle \/ c.waiting >= MaxDelay)

\* Mutant: the snapshot still names the old battery.
AfterFlush_NoRefresh == <<"flush">>

\* Every battery flush refreshes the snapshot, so that it names the new one.
AfterFlush == IF autosave THEN <<"flush">> \o Suspend ELSE <<"flush">>

\* A frame of the guest, which may write its save, and maybe_flush_battery.
\* The autosave interval is one the session may or may not have reached.
Frame ==
    /\ Idle
    /\ \E wrote \in IF writes < MaxWrites THEN BOOLEAN ELSE {FALSE},
          due \in IF autosave THEN BOOLEAN ELSE {FALSE} :
         LET ranOn == [chip EXCEPT !.ran = TRUE, !.suspended = FALSE, !.dirty = @ \/ wrote,
                                   !.ram = IF wrote THEN writes + 1 ELSE @]
             c == Counted(ranOn, wrote)
         IN /\ writes' = IF wrote THEN writes + 1 ELSE writes
            /\ calls' = (IF due THEN Suspend ELSE <<>>)
                        \o (IF FlushDue(c) THEN AfterFlush ELSE <<>>)
            /\ chip' = IF FlushDue(c) THEN [c EXCEPT !.quiet = 0, !.waiting = 0] ELSE c
            /\ late' = IF c.dirty /\ ~FlushDue(c) THEN late + 1 ELSE 0
    /\ UNCHANGED <<durable, at, running, autosave, losses, stuck>>

\* The OS sends the session to the background, or ends it.
Background ==
    /\ Idle
    /\ \E end \in {"wait", "terminate"} :
         calls' = <<"flush">> \o (IF chip.ran THEN Suspend ELSE <<>>) \o <<end>>
    /\ chip' = [chip EXCEPT !.suspended = FALSE]
    /\ UNCHANGED <<durable, at, running, autosave, writes, losses, late, stuck>>

\* The player quits: the suspend files are a crash guard no more.
Quit ==
    /\ Idle
    /\ calls' = <<"flush", "unmark", "exit">>
    /\ UNCHANGED <<durable, at, chip, running, autosave, writes, losses, late, stuck>>

Kill ==
    /\ running /\ Lose
    /\ running' = FALSE /\ calls' = <<>> /\ at' = "start" /\ chip' = Blank /\ late' = 0
    /\ UNCHANGED <<durable, autosave, writes, stuck>>

SaveNext ==
    \/ FlushClean \/ OpenTemp \/ WriteTemp \/ MoveOver \/ ClearParked \/ Park \/ MoveSecond
    \/ PutBack \/ DropParked \/ Mark \/ Unmark \/ Terminate \/ Waited \/ Exit
    \/ Launch \/ Resume \/ Frame \/ Background \/ Quit \/ Kill

SaveSpec == SaveInit /\ [][SaveNext]_saveVars

-----------------------------------------------------------------------------
Siblings == [dest : Contents, tmp : Contents, bak : Contents]
Calls == {"flush", "suspend", "mark", "unmark", "resume", "wait", "terminate", "exit"}

\* The types; a temporary that was never filled is never moved into place.
SaveTypeOK ==
    /\ files \in [Names -> Siblings]
    /\ \A f \in Names : files[f].dest # Torn /\ files[f].bak # Torn
    /\ marker \in -3..MaxWrites
    /\ calls \in Seq(Calls)
    /\ running \in BOOLEAN /\ autosave \in BOOLEAN /\ stuck \in BOOLEAN
    /\ chip \in [ram : 0..MaxWrites, dirty : BOOLEAN, pending : BOOLEAN,
                  quiet : 0..MaxDelay, waiting : 0..MaxDelay,
                  ran : BOOLEAN, suspended : BOOLEAN]

\* "Resuming can never roll back a newer save" (runtime.cpp:4229): a launch
\* never plays a save older than the battery file ...
NeverRolledBack == running => chip.ram >= Fingerprint

\* ... and indeed it does not, whatever else failed and wherever sessions were
\* killed, unless with no battery in place the parked one could not be removed:
\* it may be put back under a session that resumed an older state.
NothingRolledBack == stuck \/ NeverRolledBack

\* A save that is not marked dirty is the one on disk, so that a session that
\* ends without a flush loses nothing: but for that case, no failure, kill or
\* resumed state makes the chip clean with an older or a newer save in the
\* battery file.
CleanMeansOnDisk ==
    running /\ ~chip.dirty /\ ~stuck => Fingerprint \in {chip.ram, Absent.ram}

\* A game that never stops writing is still flushed: the save is never dirty
\* for more than MaxDelay frames without an attempt.
FlushedInTime == late <= MaxDelay

\* While nothing has failed, a session with autosave that has left a marker
\* can be killed between any two frames and the next launch resumes it.
CrashGuardHolds ==
    Idle /\ autosave /\ losses = 0 /\ marker # NoMarker =>
        Resumable /\ files["state"].dest.ram >= Fingerprint

\* Within a replacement, as long as the session lives, the new contents stay
\* in the temporary until they are in place, and the old ones stay in place or
\* parked until the new ones are (file_replace.h).
LosesNothing ==
    running' /\ at \in {"move", "clear", "park", "second", "restore", "drop"} =>
        LET before == files[File]
            after  == files'[File]
        IN /\ after.tmp = before.tmp \/ after.dest = before.tmp
           /\ before.dest # Absent => after.dest # Absent \/ after.bak = before.dest
           /\ at \in {"second", "restore"} => after.dest # Absent \/ after.bak = before.bak

ReplaceLosesNothing == [][LosesNothing]_saveVars
=============================================================================
