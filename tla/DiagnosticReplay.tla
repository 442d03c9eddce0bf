-------------------------- MODULE DiagnosticReplay --------------------------
(***************************************************************************)
(* The diagnostic replay: a session records its inputs and fingerprints    *)
(* at every frame boundary into numbered segments, through a bounded queue *)
(* to a worker that owns the files; afterwards playback reruns them.       *)
(*                                                                         *)
(* What one frame computes is determined by the machine it starts from and *)
(* by its input, and by nothing else, so a machine is named by the frame   *)
(* that made it: past[id] tells from which machine and with which input.   *)
(* Playback knows no more than the files and this function.  Timing (T)    *)
(* and native code (N, O) records travel with checkpoints and inputs and   *)
(* are not told apart from them.                                           *)
(***************************************************************************)
EXTENDS Integers, Sequences, FiniteSets, TLC, SequencesExt, FiniteSetsExt

CONSTANTS
    Capacity,       \* kQueueBytes, in units of the smallest command
    SegmentFrames,  \* kSegmentFrames
    Segments,       \* kSegments
    MaxFrames,      \* bound: frames the session runs
    MaxRestores     \* bound: states the player restores

ASSUME QueueAssumption ==
    /\ Capacity \in Nat /\ Capacity \div 2 > 3
    /\ SegmentFrames \in Nat \ {0} /\ Segments \in Nat \ {0}

VARIABLES
    host,      \* the session: its machine, its next input, where it is
    past,      \* history: what every frame ran from and gave
    rec,       \* the recorder's fields
    todo,      \* commands the current handler still has to enqueue
    queue,     \* commands the worker has not done
    writer,    \* the open segment of the worker, last save hash, error
    disk,      \* the segments' files: their records in order
    play       \* playback

replayVars == <<host, past, rec, todo, queue, writer, disk, play>>

-----------------------------------------------------------------------------
\* A machine: the frame that made it, the guest's frame number, save memory.
Boot == [id |-> 0, frame |-> 0, save |-> 0]
Lost == [id |-> -1, frame |-> -1, save |-> -1]

\* What a frame does to a machine; one the session never ran is Lost.
Ran(m, input) ==
    LET made == {k \in DOMAIN past : past[k].from = m.id /\ past[k].input = input}
    IN IF made = {} THEN Lost ELSE past[CHOOSE k \in made : TRUE].to

\* The bytes of a command, in units of the smallest.
Cost(c) == CASE c.op = "snapshot" -> 3
             [] c.op = "frame" -> IF c.reuse THEN 1 ELSE 2
             [] OTHER -> 1

Used == FoldSeq(LAMBDA c, sum : sum + Cost(c), 0, queue)
Free == Capacity - Used

NewHost == [at |-> Boot, input |-> 0, pc |-> "end", epoch |-> 0, seq |-> 0,
            restored |-> FALSE, restores |-> 0, left |-> "no"]

NewRecorder ==
    [recording |-> TRUE, open |-> FALSE, pendingEnd |-> FALSE, gap |-> FALSE,
     gapMarker |-> FALSE, fullSave |-> TRUE, boundary |-> -1, skipBegin |-> FALSE,
     segment |-> 0, oldest |-> 1, rows |-> 0, epoch |-> 0, saveSeq |-> 0]

ReplayInit ==
    /\ host = NewHost
    /\ past = <<>>
    /\ rec = NewRecorder
    /\ todo = <<>> /\ queue = <<>>
    /\ writer = [open |-> 0, save |-> -1, error |-> FALSE]
    /\ disk = <<>>
    /\ play = [phase |-> "no"]

Recording == host.left = "no"
Between == Recording /\ todo = <<>>

-----------------------------------------------------------------------------
\* The session.

\* One guest frame, which may write save memory.
RunFrame ==
    /\ Between /\ host.pc = "run" /\ Len(past) < MaxFrames
    /\ \E wrote \in BOOLEAN :
         LET id == Len(past) + 1
             to == [id |-> id, frame |-> host.at.frame + 1,
                    save |-> IF wrote THEN id ELSE host.at.save]
         IN /\ past' = Append(past, [from |-> host.at.id, input |-> host.input, to |-> to])
            /\ host' = [host EXCEPT !.at = to, !.pc = "end", !.restored = FALSE,
                                    !.seq = IF wrote THEN @ + 1 ELSE @]
    /\ UNCHANGED <<rec, todo, queue, writer, disk, play>>

\* A state is restored at a host poll: between the two halves of a boundary or
\* in the middle of a frame.  save_write_seq does not move (GbaSave::deserialize).
Restore ==
    /\ Between /\ host.pc \in {"poll", "run"} /\ host.restores < MaxRestores
    /\ \E k \in DOMAIN past :
         host' = [host EXCEPT !.at = past[k].to, !.epoch = @ + 1, !.restored = TRUE,
                              !.restores = @ + 1]
    /\ UNCHANGED <<past, rec, todo, queue, writer, disk, play>>

\* The runner notices a restored frame number: a boundary with no frame before.
NoticeRestore ==
    /\ Between /\ host.pc = "run" /\ host.restored
    /\ host' = [host EXCEPT !.pc = "end", !.restored = FALSE]
    /\ UNCHANGED <<past, rec, todo, queue, writer, disk, play>>

-----------------------------------------------------------------------------
\* The recorder.

\* frame_end: the frame that ran is fingerprinted, or crossed out when a
\* restore landed in it.
FrameEnd ==
    /\ Between /\ host.pc = "end"
    /\ host' = [host EXCEPT !.pc = "poll"]
    /\ LET repeated == rec.boundary = host.at.frame
           ends == rec.recording /\ ~repeated /\ rec.pendingEnd
       IN /\ rec' = [rec EXCEPT !.skipBegin = rec.recording /\ repeated,
                                !.pendingEnd = @ /\ ~ends]
          /\ todo' = CASE ~ends \/ ~rec.open -> <<>>
                       [] ends /\ rec.open /\ host.epoch # rec.epoch -> <<[op |-> "X"]>>
                       [] OTHER -> <<[op |-> "frame", of |-> host.at,
                                      reuse |-> ~rec.fullSave /\ host.seq = rec.saveSeq]>>
    /\ UNCHANGED <<past, queue, writer, disk, play>>

Evictions(segment) == [i \in 1..(segment - Segments + 1 - rec.oldest) |->
                         [op |-> "remove", seg |-> rec.oldest + i - 1]]

StartSegment ==
    (IF rec.open THEN <<[op |-> "end"]>> ELSE <<>>)
    \o Evictions(rec.segment + 1)
    \o <<[op |-> "begin", seg |-> rec.segment + 1]>>

Checkpoint(kind) == <<[op |-> "snapshot", kind |-> kind, of |-> host.at]>>

Kind(discontinuity) == IF discontinuity THEN "R" ELSE "C"

\* frame_begin: a segment and a checkpoint when they are due, then the input.
\* A segment whose checkpoints have used up its bytes is closed early (early).
\* At a repeated boundary the poll leaves the guest's input alone.
FrameBegin ==
    /\ Between /\ host.pc = "poll"
    /\ host' = [host EXCEPT !.pc = "run", !.input = IF rec.skipBegin THEN @ ELSE @ + 1]
    /\ \E early \in BOOLEAN :
         LET skip == rec.skipBegin
             waits == rec.gap /\ Free < Capacity \div 2
             works == rec.recording /\ ~skip /\ ~waits /\ ~writer.error
             discontinuity == rec.open /\ host.epoch # rec.epoch
             new == ~rec.open \/ rec.rows >= SegmentFrames \/ (discontinuity /\ early)
             marks == works /\ rec.gap /\ rec.gapMarker
             input == <<[op |-> "I", frame |-> host.at.frame, input |-> host.input + 1]>>
         IN /\ rec' = [rec EXCEPT
                 !.skipBegin = FALSE,
                 !.boundary = IF skip \/ ~rec.recording THEN @ ELSE host.at.frame,
                 !.gap = @ /\ (~works \/ marks),
                 !.segment = IF works /\ ~marks /\ ~rec.open THEN @ + 1 ELSE @,
                 !.recording = @ /\ (skip \/ ~writer.error),
                 !.open = @ /\ (skip \/ ~writer.error)]
            /\ todo' = IF ~works THEN <<>>
                       ELSE (IF marks THEN <<[op |-> "G"]>> ELSE <<>>)
                            \o (CASE new -> StartSegment \o Checkpoint(Kind(discontinuity))
                                  [] ~new /\ discontinuity -> Checkpoint("R")
                                  [] OTHER -> <<>>)
                            \o input
            /\ early => discontinuity
    /\ UNCHANGED <<past, queue, writer, disk, play>>

-----------------------------------------------------------------------------
Accepted_KeepsSave(c) ==
    CASE c.op = "G"      -> [rec EXCEPT !.gapMarker = FALSE, !.gap = FALSE,
                                        !.segment = @ + 1]
      [] c.op = "end"    -> [rec EXCEPT !.open = FALSE, !.segment = @ + 1]
      [] c.op = "remove" -> [rec EXCEPT !.oldest = @ + 1]
      [] c.op = "begin"  -> [rec EXCEPT !.open = TRUE, !.rows = 0]
      [] c.op = "I"      -> [rec EXCEPT !.epoch = host.epoch, !.pendingEnd = TRUE]
      [] c.op = "X"      -> [rec EXCEPT !.rows = @ + 1]
      [] c.op = "frame"  -> [rec EXCEPT !.rows = @ + 1, !.fullSave = FALSE,
                                        !.saveSeq = host.seq]
      [] OTHER -> rec

\* What the recorder does once a command is in the queue.  (A gap's marker is
\* followed by start_segment, with nothing to close.)
Accepted(c) ==
    CASE c.op = "G"      -> [rec EXCEPT !.gapMarker = FALSE, !.gap = FALSE,
                                        !.segment = @ + 1]
      [] c.op = "end"    -> [rec EXCEPT !.open = FALSE, !.segment = @ + 1]
      [] c.op = "remove" -> [rec EXCEPT !.oldest = @ + 1]
      [] c.op = "begin"  -> [rec EXCEPT !.open = TRUE, !.rows = 0]
      [] c.op = "snapshot" -> [rec EXCEPT !.fullSave = TRUE]
      [] c.op = "I"      -> [rec EXCEPT !.epoch = host.epoch, !.pendingEnd = TRUE]
      [] c.op = "X"      -> [rec EXCEPT !.rows = @ + 1]
      [] c.op = "frame"  -> [rec EXCEPT !.rows = @ + 1, !.fullSave = FALSE,
                                        !.saveSeq = host.seq]
      [] OTHER -> rec

\* note_writer_failure: a full queue is a gap, after an error capture stops.
\* A refused marker is simply tried again at the next boundary.
Refused ==
    CASE Head(todo).op = "G" -> rec
      [] Head(todo).op # "G" /\ writer.error ->
            [rec EXCEPT !.recording = FALSE, !.open = FALSE, !.pendingEnd = FALSE]
      [] OTHER -> [rec EXCEPT !.gap = TRUE, !.gapMarker = @ \/ rec.open,
                              !.open = FALSE, !.pendingEnd = FALSE]

\* ReplayWriter::enqueue of the next command, which fits or is refused at once.
Enqueue ==
    /\ Recording /\ todo # <<>>
    /\ IF ~writer.error /\ Cost(Head(todo)) <= Free
       THEN /\ queue' = Append(queue, Head(todo))
            /\ rec' = Accepted(Head(todo))
            /\ todo' = Tail(todo)
       ELSE /\ rec' = Refused
            /\ todo' = <<>>
            /\ UNCHANGED queue
    /\ UNCHANGED <<host, past, writer, disk, play>>

\* shutdown: the newest segment is ended while the disk keeps up; what the
\* worker has not done by then is done before the process exits.
Marker == IF rec.gapMarker THEN <<[op |-> "G"]>> ELSE <<>>

QuitSession ==
    /\ Between /\ host.pc \in {"end", "run"}
    /\ \E ends \in {<<>>, Marker, Marker \o <<[op |-> "E"]>>} :
         queue' = queue \o (IF rec.recording /\ rec.segment > 0 THEN ends ELSE <<>>)
                        \o (IF rec.open THEN <<[op |-> "end"]>> ELSE <<>>)
    /\ host' = [NewHost EXCEPT !.left = "quit"] /\ rec' = NewRecorder
    /\ UNCHANGED <<past, todo, writer, disk, play>>

\* The process is killed: what was queued, or in the buffers of the open
\* segment, is lost.
KillSession ==
    /\ Recording
    /\ host' = [NewHost EXCEPT !.left = "killed"] /\ rec' = NewRecorder
    /\ queue' = <<>> /\ todo' = <<>>
    /\ writer' = [open |-> 0, save |-> -1, error |-> FALSE]
    /\ IF writer.open \notin DOMAIN disk THEN UNCHANGED disk
       ELSE \E n \in 0..Len(disk[writer.open]) :
              disk' = [disk EXCEPT ![writer.open] = SubSeq(@, 1, n)]
    /\ UNCHANGED <<past, play>>

-----------------------------------------------------------------------------
\* The worker (ReplayWriter::Impl::run).
Row(r) == disk' = [disk EXCEPT ![writer.open] = Append(@, r)]

SaveHash(c) == IF c.reuse THEN writer.save ELSE c.of.save

Work ==
    /\ host.left # "killed" /\ queue # <<>> /\ ~writer.error
    /\ LET c == Head(queue)
       IN CASE c.op = "begin" ->
                 /\ writer' = [writer EXCEPT !.open = c.seg, !.save = -1]
                 /\ disk' = [s \in DOMAIN disk \cup {c.seg} |->
                                IF s = c.seg THEN <<[op |-> "header"]>> ELSE disk[s]]
            [] c.op = "end" -> writer' = [writer EXCEPT !.open = 0] /\ UNCHANGED disk
            [] c.op = "remove" ->
                 disk' = [s \in DOMAIN disk \ {c.seg} |-> disk[s]] /\ UNCHANGED writer
            [] c.op = "frame" /\ writer.open # 0 ->
                 /\ writer' = [writer EXCEPT !.save = SaveHash(c)]
                 /\ Row([op |-> "H", id |-> c.of.id, save |-> SaveHash(c)])
            [] c.op \in {"snapshot", "I", "X", "G", "E"} /\ writer.open # 0 ->
                 Row(c) /\ UNCHANGED writer
            [] OTHER -> writer' = [writer EXCEPT !.error = TRUE, !.open = 0] /\ UNCHANGED disk
    /\ queue' = Tail(queue)
    /\ UNCHANGED <<host, past, rec, todo, play>>

\* A write, a flush or a close fails; the worker closes its files and ends.
WorkFails ==
    /\ host.left # "killed" /\ ~writer.error
    /\ queue # <<>> \/ writer.open # 0
    /\ writer' = [writer EXCEPT !.error = TRUE, !.open = 0]
    /\ UNCHANGED <<host, past, rec, todo, queue, disk, play>>

-----------------------------------------------------------------------------
\* Playback, from any segment that was kept.
Over == ~Recording /\ (queue = <<>> \/ writer.error)

StartPlayback ==
    /\ Over /\ play.phase = "no"
    /\ \E s \in DOMAIN disk :
         play' = [phase |-> IF disk[s] = <<>> THEN "done" ELSE "begin",
                  result |-> IF disk[s] = <<>> THEN "cut" ELSE "none",
                  seg |-> s, pos |-> 2, at |-> Lost, input |-> 0, first |-> TRUE,
                  resync |-> TRUE, kind |-> "none", check |-> Lost]
    /\ queue' = <<>> /\ writer' = [open |-> 0, save |-> -1, error |-> FALSE]
    /\ UNCHANGED <<host, past, rec, todo, disk>>

Playing(phase) == play.phase = phase /\ UNCHANGED <<host, past, rec, todo, queue, writer, disk>>
AtEof == play.pos > Len(disk[play.seg])
Record == disk[play.seg][play.pos]
Read(op) == ~AtEof /\ Record.op = op
Ends(result) == play' = [play EXCEPT !.phase = "done", !.result = result]
Resyncs == play' = [play EXCEPT !.phase = "begin", !.pos = @ + 1, !.resync = TRUE]

\* playback_begin, one record at a time.
PlayNextSegment ==
    /\ Playing("begin") /\ AtEof
    /\ CASE play.seg + 1 \notin DOMAIN disk -> Ends("matched")
         [] play.seg + 1 \in DOMAIN disk /\ disk[play.seg + 1] = <<>> -> Ends("cut")
         [] OTHER -> play' = [play EXCEPT !.seg = @ + 1, !.pos = 2]

PlayGap == Playing("begin") /\ Read("G") /\ Resyncs

PlayExit == Playing("begin") /\ Read("E") /\ Ends("ended")

PlayCheckpoint ==
    /\ Playing("begin") /\ Read("snapshot")
    /\ play' = [play EXCEPT !.kind = Record.kind, !.check = Record.of, !.pos = @ + 1]

\* R: the session restored this state here.  C: it merely went on, so a
\* playback that is in step has nothing to load.
Loads == play.kind = "R" \/ (play.kind = "C" /\ play.resync)

PlayInput ==
    /\ Playing("begin") /\ Read("I")
    /\ LET at == IF Loads THEN play.check ELSE play.at
       IN IF (play.kind = "none" /\ play.first) \/ at.frame # Record.frame
          THEN Ends("diverged")
          ELSE play' = [play EXCEPT !.at = at, !.kind = "none", !.first = FALSE,
                                    !.resync = @ /\ play.kind = "none",
                                    !.input = Record.input, !.phase = "run", !.pos = @ + 1]

PlayUnexpected == Playing("begin") /\ (Read("X") \/ Read("H")) /\ Ends("diverged")

PlayRun ==
    /\ Playing("run")
    /\ play' = [play EXCEPT !.at = Ran(play.at, play.input), !.phase = "end"]

\* playback_end: the frame that ran is compared with the recorded one.
PlayMatch ==
    /\ Playing("end") /\ Read("H")
    /\ IF play.at.id = Record.id /\ play.at.save = Record.save
       THEN play' = [play EXCEPT !.phase = "begin", !.pos = @ + 1]
       ELSE Ends("diverged")

PlayCrossedOut ==
    /\ Playing("end") /\ Read("X")
    /\ play' = [play EXCEPT !.phase = "begin", !.pos = @ + 1]

PlayEndGap == Playing("end") /\ Read("G") /\ Resyncs
PlayEndExit == Playing("end") /\ Read("E") /\ Ends("ended")
PlayEndUnexpected ==
    /\ Playing("end")
    /\ Read("I") \/ Read("snapshot")
    /\ Ends("diverged")

PlayCutShort ==
    /\ Playing("end") /\ AtEof
    /\ IF play.seg + 1 \in DOMAIN disk
       THEN play' = [play EXCEPT !.phase = "begin", !.resync = TRUE]
       ELSE Ends("incomplete")

Playback == StartPlayback \/ PlayNextSegment \/ PlayGap \/ PlayExit \/ PlayCheckpoint
            \/ PlayInput \/ PlayUnexpected \/ PlayRun \/ PlayMatch \/ PlayCrossedOut
            \/ PlayEndGap \/ PlayEndExit \/ PlayEndUnexpected \/ PlayCutShort

ReplayNext ==
    \/ RunFrame \/ Restore \/ NoticeRestore \/ FrameEnd \/ FrameBegin \/ Enqueue
    \/ QuitSession \/ KillSession \/ Work \/ WorkFails \/ Playback

ReplaySpec == ReplayInit /\ [][ReplayNext]_replayVars

-----------------------------------------------------------------------------
Played == play.phase = "done"

\* The types, and the bounds of the queue and of the history.
ReplayTypeOK ==
    /\ rec.oldest \in 1..rec.segment + 1
    /\ Recording => /\ Used <= Capacity
                    /\ DOMAIN disk \cup {writer.open} \subseteq 0..rec.segment
    /\ Played => play.result \in {"matched", "ended", "incomplete", "cut", "diverged"}

\* What was recorded reruns: wherever the queue filled up, a state was
\* restored, the disk failed or the session was killed, playback from any
\* segment that was kept reaches every fingerprinted machine again and never
\* meets a record it cannot follow.
RecordingReruns == Played => play.result # "diverged"

\* Playback that reports agreement has compared every fingerprint in the
\* segments that follow the one it began with (DIAGNOSTIC_REPLAY.md, "Playback
\* resynchronizes at the next checkpoint").
MatchedMeansAll ==
    Played /\ play.result \in {"matched", "ended"} =>
        \A s \in DOMAIN disk :
            s > play.seg => \A i \in DOMAIN disk[s] : disk[s][i].op # "H"
=============================================================================
