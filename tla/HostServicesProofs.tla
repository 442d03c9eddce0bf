------------------------- MODULE HostServicesProofs -------------------------
(***************************************************************************)
(* Two services of the host, neither of which reads the other's state.     *)
(*                                                                         *)
(* The battery save, whatever fails and whenever a session is killed,      *)
(* however often: a dirty save is flushed in time, and, until a flush that *)
(* finds no battery in place cannot remove a parked one (`stuck`), a       *)
(* launch plays no save older than the battery file and a clean save is on *)
(* disk.  While nothing has failed, the suspend state of a killed session  *)
(* can be resumed.                                                         *)
(*                                                                         *)
(* The overlay loader, for any functions and any interleaving of the game  *)
(* thread, the worker and a shutdown: a function handed to the worker is   *)
(* in one place until the game folds it in, and a capture logs every       *)
(* result it installs.                                                     *)
(***************************************************************************)
EXTENDS SaveDurability, OverlayLoader, FiniteSetTheorems, TLAPS

-----------------------------------------------------------------------------
(* The inductive invariant of the battery save.                              *)

Positions == {"start", "write", "move", "clear", "park", "second", "restore", "drop"}

(* SaveTypeOK, with the counters. *)
Types ==
    /\ SaveTypeOK
    /\ at \in Positions /\ writes \in 0..MaxWrites /\ losses \in Nat /\ late \in Nat
    /\ ~running => calls = <<>> /\ at = "start"
    /\ stuck => losses # 0

(* A file in place or parked is whole or missing, and nothing is newer than the
   last write. *)
Sound(c) == c = Absent \/ Whole(c)
Contained ==
    /\ \A f \in Names : /\ Sound(files[f].dest) /\ files[f].dest.ram <= writes
                        /\ Sound(files[f].bak) /\ files[f].bak.ram <= writes
    /\ chip.ram <= writes /\ marker <= writes

(* The marker's call comes right after that of its state and only there. *)
Shape(s) ==
    /\ \A i \in 1..Len(s) : s[i] = "suspend" => i < Len(s) /\ s[i + 1] = "mark"
    /\ \A i \in 2..Len(s) : s[i] = "mark" => s[i - 1] = "suspend"

Planned ==
    /\ Shape(calls)
    /\ Calling({"mark"}) =>
          files["state"].dest = [ram |-> chip.ram, dirty |-> chip.dirty]

(* What a replacement has got to. *)
InFlight ==
    /\ at # "start" => Calling({"flush", "suspend", "mark"})
    /\ Calling({"flush"}) /\ at # "start" => chip.dirty
    /\ Calling({"flush", "suspend"}) =>
          /\ at \in {"move", "clear", "park", "second"} => files[File].tmp = Fresh
          /\ at = "drop" => files[File].dest = Fresh
    /\ Calling({"flush"}) /\ at \in {"second", "restore"} =>
          stuck \/ files["save"].bak.ram <= chip.ram

(* The marker names a battery that is lost for good: it is not in place, will
   not be put back, and the chip has nothing to write that is the same ... *)
Gone ==
    /\ Fingerprint # marker
    /\ running /\ chip.dirty => chip.ram # marker
    /\ Calling({"flush"}) /\ at \in {"second", "restore"} => files["save"].bak.ram # marker

(* ... or the state and the chip continue the battery it names.  A parked
   state that no other has taken the place of does too: it may come back. *)
Fits(c) == c # Absent => c.ram >= marker /\ (c.dirty \/ c.ram = marker)
Continues ==
    /\ Fits(files["state"].dest)
    /\ Calling({"suspend"}) /\ at \in {"second", "restore"} => Fits(files["state"].bak)
    /\ files["state"].dest = Absent => Fits(files["state"].bak)
    /\ running => chip.ram >= marker /\ (chip.dirty \/ chip.ram = marker)

(* Neither, once a parked battery has stayed that should have gone. *)
Marked == ~stuck /\ marker >= 0 => Gone \/ Continues

(* How long the save has been dirty. *)
Timely ==
    /\ late <= MaxDelay
    /\ late <= IF chip.pending THEN chip.waiting + 1 ELSE 0
    /\ ~running => late = 0 /\ chip = Blank

Kept == Contained /\ Planned /\ InFlight /\ Marked /\ NothingRolledBack /\ CleanMeansOnDisk
SaveInv == Types /\ Kept /\ Timely

-----------------------------------------------------------------------------
(* What a call leaves to be done when it ends. *)
LEMMA TailFacts ==
    ASSUME NEW s \in Seq(Calls), s # <<>>
    PROVE  /\ Tail(s) \in Seq(Calls) /\ Len(s) \in Nat /\ Len(s) >= 1
           /\ Len(Tail(s)) = Len(s) - 1
           /\ \A i \in 1..Len(s) - 1 : Tail(s)[i] = s[i + 1]
OBVIOUS

LEMMA ReturnedCalls ==
    ASSUME calls \in Seq(Calls), calls # <<>>, Shape(calls), calls' = Tail(calls)
    PROVE  /\ calls' \in Seq(Calls) /\ Shape(calls')
           /\ calls' # <<>> /\ Head(calls') = "mark" => Head(calls) = "suspend"
<1>1. /\ Len(calls) \in Nat /\ Len(calls) >= 1 /\ Len(calls') = Len(calls) - 1
      /\ calls' \in Seq(Calls) /\ \A i \in 1..Len(calls') : calls'[i] = calls[i + 1]
  OBVIOUS
<1>2. ASSUME NEW i \in 1..Len(calls'), calls'[i] = "suspend"
      PROVE  i < Len(calls') /\ calls'[i + 1] = "mark"
  <2>1. i + 1 \in 1..Len(calls) /\ calls[i + 1] = "suspend"
    BY <1>1, <1>2
  <2>2. i + 1 < Len(calls) /\ calls[i + 2] = "mark"
    BY <2>1 DEF Shape
  <2> QED
    BY <1>1, <2>1, <2>2
<1>3. ASSUME NEW i \in 2..Len(calls'), calls'[i] = "mark"
      PROVE  calls'[i - 1] = "suspend"
  <2>1. i + 1 \in 2..Len(calls) /\ calls[i + 1] = "mark"
    BY <1>1, <1>3
  <2>2. calls[i] = "suspend"
    BY <2>1 DEF Shape
  <2> QED
    BY <1>1, <2>2
<1>4. ASSUME calls' # <<>>, Head(calls') = "mark"
      PROVE  Head(calls) = "suspend"
  <2>1. Len(calls') >= 1 /\ calls'[1] = "mark"
    BY <1>1, <1>4
  <2>2. 2 \in 2..Len(calls) /\ calls[2] = "mark"
    BY <1>1, <2>1
  <2> QED
    BY <1>1, <2>2 DEF Shape
<1> QED
  BY <1>1, <1>2, <1>3, <1>4 DEF Shape

LEMMA FailedCalls ==
    ASSUME calls \in Seq(Calls), calls # <<>>, Shape(calls), Failed,
           Head(calls) # "mark"
    PROVE  /\ calls' \in Seq(Calls) /\ Shape(calls')
           /\ calls' # <<>> => Head(calls') # "mark"
<1>1. CASE Head(calls) # "suspend"
  BY <1>1, ReturnedCalls DEF Failed
<1>2. CASE Head(calls) = "suspend"
  <2>1. /\ Len(calls) \in Nat /\ Len(calls) >= 2 /\ calls[2] = "mark"
    BY <1>2 DEF Shape
  <2>2. calls' = Tail(Tail(calls))
    BY <1>2 DEF Failed
  <2>3. /\ Tail(calls) \in Seq(Calls) /\ Len(Tail(calls)) = Len(calls) - 1
        /\ \A i \in 1..Len(calls) - 1 : Tail(calls)[i] = calls[i + 1]
    BY TailFacts
  <2>4. /\ Len(calls') = Len(calls) - 2 /\ calls' \in Seq(Calls)
        /\ \A i \in 1..Len(calls') : calls'[i] = calls[i + 2]
    <3>1. Tail(calls) # <<>>
      <4>1. Len(Tail(calls)) >= 1
        BY <2>1, <2>3
      <4> QED
        BY SMTT(30), <4>1
    <3> QED
      BY <2>1, <2>2, <2>3, <3>1, TailFacts
  <2>5. ASSUME NEW i \in 1..Len(calls'), calls'[i] = "suspend"
        PROVE  i < Len(calls') /\ calls'[i + 1] = "mark"
    <3>1. i + 2 \in 1..Len(calls) /\ calls[i + 2] = "suspend"
      BY <2>1, <2>4, <2>5
    <3>2. i + 2 < Len(calls) /\ calls[i + 3] = "mark"
      BY <3>1 DEF Shape
    <3> QED
      BY <2>1, <2>4, <3>1, <3>2
  <2>6. ASSUME NEW i \in 2..Len(calls'), calls'[i] = "mark"
        PROVE  calls'[i - 1] = "suspend"
    <3>1. i + 2 \in 2..Len(calls) /\ calls[i + 2] = "mark"
      BY <2>1, <2>4, <2>6
    <3>2. calls[i + 1] = "suspend"
      BY <3>1 DEF Shape
    <3> QED
      BY <2>1, <2>4, <3>2
  <2>7. ASSUME calls' # <<>>, Head(calls') = "mark"
        PROVE  FALSE
    <3>1. Len(calls') >= 1 /\ calls'[1] = "mark"
      BY <2>4, <2>7
    <3>2. 3 \in 2..Len(calls) /\ calls[3] = "mark"
      BY <2>1, <2>4, <3>1
    <3>3. calls[2] = "suspend"
      BY <3>2 DEF Shape
    <3> QED
      BY <2>1, <3>3
  <2> QED
    BY <2>4, <2>5, <2>6, <2>7 DEF Shape
<1> QED
  BY <1>1, <1>2

-----------------------------------------------------------------------------
(* The parts of the invariant.                                               *)
LEMMA Parts ==
    ASSUME SaveInv
    PROVE  /\ Types /\ Contained /\ Planned /\ InFlight /\ Marked
           /\ NothingRolledBack /\ CleanMeansOnDisk /\ Timely
BY DEF SaveInv, Kept

LEMMA WholeTyped ==
    ASSUME NEW r \in 0..MaxWrites, NEW d \in BOOLEAN
    PROVE  /\ [ram |-> r, dirty |-> d] \in Contents
           /\ [ram |-> r, dirty |-> d] \notin {Absent, Torn}
BY LimitsAssumption DEF Contents, Absent, Torn

LEMMA TornTyped ==
    Absent \in Contents /\ Torn \in Contents /\ Absent # Torn
BY LimitsAssumption DEF Contents, Absent, Torn

LEMMA FlushFile ==
    ASSUME Calling({"flush"})
    PROVE  /\ calls # <<>> /\ Head(calls) = "flush" /\ running
           /\ File = "save" /\ Fresh = [ram |-> chip.ram, dirty |-> FALSE]
BY DEF Calling, File, Fresh

LEMMA SuspendFile ==
    ASSUME Calling({"suspend"})
    PROVE  /\ calls # <<>> /\ Head(calls) = "suspend" /\ running
           /\ File = "state" /\ Fresh = [ram |-> chip.ram, dirty |-> chip.dirty]
BY DEF Calling, File, Fresh

LEMMA FreshTyped ==
    ASSUME Types
    PROVE  Fresh \in Contents /\ Fresh \notin {Absent, Torn}
<1>1. chip.ram \in 0..MaxWrites /\ chip.dirty \in BOOLEAN
  BY DEF Types, SaveTypeOK
<1> QED
  BY <1>1, WholeTyped DEF Fresh

(* One file gets a new row, the other stays. *)
LEMMA NewRow ==
    ASSUME Types, NEW f \in Names, NEW row \in Siblings,
           row.dest # Torn, row.bak # Torn, files' = [files EXCEPT ![f] = row]
    PROVE  /\ files' \in [Names -> Siblings]
           /\ \A g \in Names : files'[g].dest # Torn /\ files'[g].bak # Torn
           /\ files'[f] = row /\ \A g \in Names : g # f => files'[g] = files[g]
BY DEF Types, SaveTypeOK

LEMMA NewTmp ==
    ASSUME Types, NEW f \in Names, NEW c \in Contents,
           files' = [files EXCEPT ![f].tmp = c]
    PROVE  /\ files' \in [Names -> Siblings]
           /\ \A g \in Names : files'[g].dest # Torn /\ files'[g].bak # Torn
           /\ \A g \in Names : files'[g].dest = files[g].dest /\ files'[g].bak = files[g].bak
           /\ files'[f].tmp = c
<1> DEFINE row == [files[f] EXCEPT !.tmp = c]
<1>1. files[f] \in Siblings /\ files[f].dest # Torn /\ files[f].bak # Torn
  BY DEF Types, SaveTypeOK
<1>2. row \in Siblings /\ row.dest = files[f].dest /\ row.bak = files[f].bak /\ row.tmp = c
  BY <1>1 DEF Siblings
<1>3. files' = [files EXCEPT ![f] = row]
  BY <1>1
<1> HIDE DEF row
<1> QED
  BY <1>1, <1>2, <1>3, NewRow

(* A step that leaves both files in place, the marker, the chip and the session
   alone, and puts nothing where it could come back from. *)
LEMMA Untouched ==
    ASSUME SaveInv, UNCHANGED <<marker, chip, running, writes, late>>, stuck => stuck',
           \A f \in Names : /\ files'[f].dest = files[f].dest
                            /\ files'[f].bak = files[f].bak \/ files'[f].bak = Absent,
           \/ at' = "start"
           \/ /\ calls' = calls
              /\ at' \in {"second", "restore"} =>
                    \/ at = "second" \/ at = "restore" \/ files'[File].bak = Absent
                    \/ stuck' \/ (File = "state" /\ files["state"].dest = Absent)
    PROVE  Contained' /\ Marked' /\ NothingRolledBack' /\ CleanMeansOnDisk' /\ Timely'
<1> USE DEF Names
<1>0. /\ Contained /\ Marked /\ NothingRolledBack /\ CleanMeansOnDisk /\ Timely /\ Types
  BY Parts
<1>1. Contained'
  BY <1>0 DEF Contained, Sound, Whole, Absent, Types
<1>2. Fingerprint' = Fingerprint
  BY DEF Fingerprint
<1>3. Marked'
  <2>1. CASE at' = "start"
    BY <1>0, <1>2, <2>1 DEF Marked, Gone, Continues, Fits
  <2>2. CASE /\ calls' = calls
             /\ at' \in {"second", "restore"} =>
                   \/ at = "second" \/ at = "restore" \/ files'[File].bak = Absent
                   \/ stuck' \/ (File = "state" /\ files["state"].dest = Absent)
    BY <1>0, <1>2, <2>2 DEF Marked, Gone, Continues, Fits, Absent, Calling, File
  <2> QED
    BY <2>1, <2>2
<1>4. NothingRolledBack' /\ CleanMeansOnDisk' /\ Timely'
  BY <1>0, <1>2 DEF NothingRolledBack, NeverRolledBack, CleanMeansOnDisk, Timely
<1> QED
  BY <1>1, <1>3, <1>4

(* A step on a file that leaves the session as it is. *)
LEMMA StillTyped ==
    ASSUME Types, UNCHANGED <<marker, chip, running, autosave, writes, late>>, running,
           files' \in [Names -> Siblings],
           \A f \in Names : files'[f].dest # Torn /\ files'[f].bak # Torn,
           calls' \in Seq(Calls), at' \in Positions, losses' = losses \/ Lose,
           stuck' = stuck \/ (stuck' = TRUE /\ Lose)
    PROVE  Types'
<1>1. losses' \in Nat
  BY DEF Types, Lose
<1>2. stuck' \in BOOLEAN
  BY Zenon DEF Types, SaveTypeOK
<1>3. stuck' => losses' # 0
  <2>1. losses \in Nat /\ (stuck => losses # 0) /\ (Lose => losses' = losses + 1)
    BY DEF Types, Lose
  <2>2. Lose => losses' # 0
    BY <2>1
  <2>3. CASE losses' = losses /\ stuck' = stuck
    BY <2>1, <2>3, Zenon
  <2> QED
    BY <2>2, <2>3, Zenon
<1> QED
  BY <1>1, <1>2, <1>3 DEF Types, SaveTypeOK

-----------------------------------------------------------------------------
(* Steps beside the files in place.                                          *)
LEMMA FlushCleanKeeps ==
    ASSUME SaveInv, FlushClean
    PROVE  SaveInv'
<1>1. /\ UNCHANGED <<files, marker, chip, running, autosave, writes, losses, late, stuck>>
      /\ at' = "start" /\ calls' = Tail(calls) /\ Calling({"flush"})
  BY DEF FlushClean, Returned, durable
<1>2. /\ Types /\ Planned /\ calls \in Seq(Calls) /\ calls # <<>> /\ Head(calls) = "flush"
  BY <1>1, Parts, FlushFile DEF Types, SaveTypeOK
<1>3. calls' \in Seq(Calls) /\ Shape(calls') /\ (calls' # <<>> => Head(calls') # "mark")
  BY <1>1, <1>2, ReturnedCalls DEF Planned
<1>4. Types'
  BY <1>1, <1>2, <1>3 DEF Types, SaveTypeOK, Calling, Positions
<1>5. Planned' /\ InFlight'
  BY <1>1, <1>3 DEF Planned, InFlight, Calling
<1>6. Contained' /\ Marked' /\ NothingRolledBack' /\ CleanMeansOnDisk' /\ Timely'
  BY <1>1, Untouched
<1> QED
  BY <1>4, <1>5, <1>6 DEF SaveInv, Kept

LEMMA Replacing ==
    ASSUME SaveInv, Calling({"flush", "suspend"})
    PROVE  /\ running /\ calls \in Seq(Calls) /\ calls # <<>> /\ Shape(calls)
           /\ Head(calls) \in {"flush", "suspend"} /\ File \in Names
           /\ files \in [Names -> Siblings] /\ files[File] \in Siblings
           /\ \A f \in Names : files[f].dest # Torn /\ files[f].bak # Torn
<1>1. Types /\ Planned
  BY Parts
<1> QED
  BY <1>1 DEF Calling, Types, SaveTypeOK, File, Names, Planned

(* What the files may have become. *)
Beside ==
    /\ files' \in [Names -> Siblings]
    /\ \A f \in Names : /\ files'[f].dest # Torn /\ files'[f].bak # Torn
                        /\ files'[f].dest = files[f].dest
                        /\ files'[f].bak = files[f].bak \/ files'[f].bak = Absent

(* A replacement that gives up. *)
LEMMA FailedKeeps ==
    ASSUME SaveInv, Calling({"flush", "suspend"}), Failed, losses' = losses \/ Lose,
           UNCHANGED <<marker, chip, running, autosave, writes, late, stuck>>, Beside
    PROVE  SaveInv'
<1>0. Types /\ Planned
  BY Parts
<1>1. /\ calls' \in Seq(Calls) /\ Shape(calls') /\ (calls' # <<>> => Head(calls') # "mark")
      /\ at' = "start"
  BY Replacing, FailedCalls DEF Failed
<1>2. Types'
  BY <1>0, <1>1, Replacing, StillTyped DEF Positions, Beside
<1>3. Contained' /\ Marked' /\ NothingRolledBack' /\ CleanMeansOnDisk' /\ Timely'
  BY <1>1, Untouched DEF Beside
<1>4. Planned' /\ InFlight'
  BY <1>1 DEF Planned, InFlight, Calling
<1> QED
  BY <1>2, <1>3, <1>4 DEF SaveInv, Kept

(* A replacement that goes on, with both files still in place. *)
LEMMA GoesOn ==
    ASSUME SaveInv, Calling({"flush", "suspend"}), calls' = calls, losses' = losses \/ Lose,
           UNCHANGED <<marker, chip, running, autosave, writes, late>>, Beside,
           stuck' = stuck \/ (stuck' = TRUE /\ Lose), at' \in Positions,
           at' \in {"second", "restore"} =>
               \/ at = "second" \/ at = "restore" \/ files'[File].bak = Absent
               \/ stuck' \/ (File = "state" /\ files["state"].dest = Absent),
           InFlight'
    PROVE  SaveInv'
<1>0. Types /\ Planned
  BY Parts
<1>2. Types'
  BY <1>0, Replacing, StillTyped DEF Beside
<1>3. Contained' /\ Marked' /\ NothingRolledBack' /\ CleanMeansOnDisk' /\ Timely'
  BY Untouched DEF Beside
<1>4. Planned'
  BY <1>0, Replacing DEF Planned, Calling
<1> QED
  BY <1>2, <1>3, <1>4 DEF SaveInv, Kept

LEMMA OpenTempKeeps ==
    ASSUME SaveInv, OpenTemp
    PROVE  SaveInv'
<1>1. /\ UNCHANGED <<marker, chip, running, autosave, writes, late, stuck>>
      /\ Calling({"flush", "suspend"}) /\ at = "start"
      /\ Head(calls) = "flush" => chip.dirty
  BY DEF OpenTemp
<1>2. CASE files' = [files EXCEPT ![File].tmp = Torn] /\ at' = "write"
           /\ UNCHANGED <<calls, losses>>
  <2>1. Beside
    BY <1>1, <1>2, Parts, Replacing, NewTmp, TornTyped DEF Beside
  <2>2. InFlight'
    BY <1>1, <1>2 DEF InFlight, Calling
  <2> QED
    BY <1>1, <1>2, <2>1, <2>2, GoesOn DEF Positions
<1>3. CASE Failed /\ Lose /\ UNCHANGED files
  BY <1>1, <1>3, Replacing, FailedKeeps DEF Beside
<1> QED
  BY <1>2, <1>3 DEF OpenTemp

LEMMA WriteTempKeeps ==
    ASSUME SaveInv, WriteTemp
    PROVE  SaveInv'
<1>1. /\ UNCHANGED <<marker, chip, running, autosave, writes, late, stuck>>
      /\ Calling({"flush", "suspend"}) /\ at = "write"
  BY DEF WriteTemp
<1>2. CASE files' = [files EXCEPT ![File].tmp = Fresh] /\ at' = "move"
           /\ UNCHANGED <<calls, losses>>
  <2>1. Beside /\ files'[File].tmp = Fresh
    BY <1>1, <1>2, Parts, Replacing, NewTmp, FreshTyped DEF Beside
  <2>2. InFlight'
    BY <1>1, <1>2, <2>1, Parts DEF InFlight, Calling, File, Fresh
  <2> QED
    BY <1>1, <1>2, <2>1, <2>2, GoesOn DEF Positions
<1>3. CASE /\ Failed /\ Lose
           /\ files' = [files EXCEPT ![File].tmp = IF File = "state" THEN Absent ELSE @]
  <2>1. PICK c \in Contents : files' = [files EXCEPT ![File].tmp = c]
    <3>1. files[File].tmp \in Contents
      BY <1>1, Replacing DEF Siblings
    <3>2. CASE File = "state"
      BY <1>3, <3>2, TornTyped
    <3>3. CASE File # "state"
      BY <1>3, <3>1, <3>3
    <3> QED
      BY <3>2, <3>3
  <2>2. Beside
    BY <1>1, <2>1, Parts, Replacing, NewTmp DEF Beside
  <2> QED
    BY <1>1, <1>3, <2>2, FailedKeeps
<1> QED
  BY <1>1, <1>2, <1>3 DEF WriteTemp

LEMMA ClearParkedKeeps ==
    ASSUME SaveInv, ClearParked
    PROVE  SaveInv'
<1>1. /\ UNCHANGED <<marker, calls, chip, running, autosave, writes, late>>
      /\ Calling({"flush", "suspend"}) /\ at = "clear"
      /\ at' = IF files[File].dest = Absent THEN "second" ELSE "park"
  BY DEF ClearParked
<1>2. Calling({"flush", "suspend"})' /\ File' = File /\ Fresh' = Fresh
  BY <1>1 DEF Calling, File, Fresh
<1>3. /\ files[File].tmp = Fresh /\ (Head(calls) = "flush" => chip.dirty)
      /\ stuck \in BOOLEAN
  BY <1>1, Parts DEF InFlight, Calling, Types, SaveTypeOK
<1>4. CASE files' = [files EXCEPT ![File].bak = Absent] /\ UNCHANGED <<losses, stuck>>
  <2> DEFINE row == [files[File] EXCEPT !.bak = Absent]
  <2>1. /\ row \in Siblings /\ row.dest = files[File].dest /\ row.bak = Absent
        /\ row.tmp = files[File].tmp /\ files' = [files EXCEPT ![File] = row]
    BY <1>1, <1>4, Replacing, TornTyped DEF Siblings
  <2> HIDE DEF row
  <2>2. Beside /\ files'[File].tmp = files[File].tmp /\ files'[File].bak = Absent
    BY <1>1, <2>1, Parts, Replacing, NewRow, TornTyped DEF Beside
  <2>3. Head(calls) = "flush" => File = "save" /\ -1 <= chip.ram
    BY <1>1, Parts DEF File, Types, SaveTypeOK
  <2>4. InFlight'
    BY <1>1, <1>2, <1>3, <2>2, <2>3 DEF InFlight, Calling, Absent
  <2> QED
    BY <1>1, <1>4, <2>2, <2>4, GoesOn DEF Positions
<1>5. CASE /\ Lose /\ UNCHANGED files
           /\ stuck' = (stuck \/ (File = "save" /\ files[File].dest = Absent))
  <2>1. Beside
    BY <1>1, <1>5, Replacing DEF Beside
  <2>2. /\ stuck' = stuck \/ stuck' = TRUE
        /\ stuck => stuck'
    BY <1>3, <1>5
  <2>3. Head(calls) = "flush" /\ files[File].dest = Absent => stuck'
    BY <1>3, <1>5 DEF File
  <2>4. InFlight'
    BY <1>1, <1>2, <1>3, <1>5, <2>3 DEF InFlight, Calling
  <2>5. at' # "restore" /\ at' \in Positions
    BY <1>1 DEF Positions
  <2>6. Head(calls) # "flush" => (at' = "second" => File = "state" /\ files["state"].dest = Absent)
    BY <1>1 DEF File
  <2>10. at' = "second" => files[File].dest = Absent
    BY <1>1
  <2>7. at' = "second" => stuck' \/ (File = "state" /\ files["state"].dest = Absent)
    BY <2>3, <2>6, <2>10, Zenon
  <2>8. at' \in {"second", "restore"} =>
            \/ at = "second" \/ at = "restore" \/ files'[File].bak = Absent
            \/ stuck' \/ (File = "state" /\ files["state"].dest = Absent)
    <3> SUFFICES ASSUME at' \in {"second", "restore"}
                 PROVE  stuck' \/ (File = "state" /\ files["state"].dest = Absent)
      OBVIOUS
    <3>1. at' = "second"
      BY <2>5
    <3> QED
      BY <2>7, <3>1, Zenon
  <2>9. stuck' = stuck \/ (stuck' = TRUE /\ Lose)
    BY <1>5, <2>2, Zenon
  <2> QED
    BY <1>1, <1>5, <2>1, <2>4, <2>5, <2>8, <2>9, GoesOn, Zenon
<1> QED
  BY <1>4, <1>5 DEF ClearParked

-----------------------------------------------------------------------------
(* Steps that change a file in place.                                        *)

(* The new contents are in place and the call ends. *)
LEMMA WrittenKeeps ==
    ASSUME SaveInv, Calling({"flush", "suspend"}), Written(File), losses' = losses \/ Lose,
           UNCHANGED <<marker, running, autosave, writes, late, stuck>>,
           at # "start",
           NEW row \in Siblings, files' = [files EXCEPT ![File] = row],
           row.dest = Fresh, row.bak = files[File].bak \/ row.bak = Absent
    PROVE  SaveInv'
<1> USE DEF Names
<1>0. /\ Types /\ Contained /\ Planned /\ InFlight /\ Marked
      /\ NothingRolledBack /\ CleanMeansOnDisk /\ Timely
  BY Parts
<1>1. /\ running /\ calls \in Seq(Calls) /\ calls # <<>> /\ Shape(calls)
      /\ at' = "start" /\ calls' = Tail(calls) /\ Fresh \in Contents /\ Fresh \notin {Absent, Torn}
  BY <1>0, Replacing, FreshTyped DEF Written, Returned
<1>2. /\ calls' \in Seq(Calls) /\ Shape(calls')
      /\ calls' # <<>> /\ Head(calls') = "mark" => Head(calls) = "suspend"
  BY <1>1, ReturnedCalls
<1>3. /\ files' \in [Names -> Siblings]
      /\ \A g \in Names : files'[g].dest # Torn /\ files'[g].bak # Torn
      /\ files'[File] = row /\ \A g \in Names : g # File => files'[g] = files[g]
  BY <1>0, <1>1, NewRow, TornTyped, Replacing
<1>4. InFlight'
  BY <1>1 DEF InFlight
<1>5. chip.ram \in 0..MaxWrites /\ chip.dirty \in BOOLEAN /\ marker \in -3..MaxWrites
      /\ chip.ram <= writes /\ writes \in Nat
  BY <1>0 DEF Types, SaveTypeOK, Contained
<1>9. losses' \in Nat /\ (stuck' => losses' # 0)
  <2>1. losses \in Nat /\ (stuck => losses # 0) /\ (Lose => losses' = losses + 1)
    BY <1>0 DEF Types, Lose
  <2>2. (Lose => losses' # 0) /\ losses' \in Nat
    BY <2>1
  <2> QED
    BY <2>1, <2>2, Zenon
<1>6. CASE Head(calls) = "flush"
  <2>1. /\ File = "save" /\ Fresh = [ram |-> chip.ram, dirty |-> FALSE] /\ chip.dirty
        /\ chip' = [chip EXCEPT !.dirty = FALSE]
    BY <1>0, <1>1, <1>6 DEF File, Fresh, InFlight, Calling, Written
  <2>2. /\ files'["state"] = files["state"] /\ Fingerprint' = chip.ram
        /\ files'["save"] = row
    BY <1>3, <2>1 DEF Fingerprint
  <2>3. chip'.ram = chip.ram /\ chip'.dirty = FALSE
    BY <1>0, <2>1 DEF Types, SaveTypeOK
  <2>4. Types'
    BY <1>0, <1>1, <1>2, <1>3, <1>9, <2>1 DEF Types, SaveTypeOK, Positions
  <2>5. Contained'
    <3>1. row.dest.ram = chip.ram /\ Whole(row.dest)
      BY <1>5, <2>1 DEF Whole
    <3>2. Sound(row.bak) /\ row.bak.ram <= writes
      BY <1>0, <1>5, <2>1 DEF Contained, Sound, Absent
    <3> QED
      BY <1>0, <1>3, <1>5, <2>1, <2>2, <2>3, <3>1, <3>2 DEF Contained, Sound
  <2>6. Planned'
    BY <1>2, <1>6 DEF Planned, Calling
  <2>7. Marked'
    BY <1>0, <1>1, <1>5, <2>1, <2>2, <2>3 DEF Marked, Gone, Continues, Fits
  <2>8. NothingRolledBack' /\ CleanMeansOnDisk'
    BY <1>5, <2>2, <2>3 DEF NothingRolledBack, NeverRolledBack, CleanMeansOnDisk
  <2>9. Timely'
    BY <1>0, <1>1, <2>1 DEF Timely, Types, SaveTypeOK
  <2> QED
    BY <1>4, <2>4, <2>5, <2>6, <2>7, <2>8, <2>9 DEF SaveInv, Kept
<1>7. CASE Head(calls) = "suspend"
  <2>1. /\ File = "state" /\ Fresh = [ram |-> chip.ram, dirty |-> chip.dirty]
        /\ chip' = [chip EXCEPT !.suspended = TRUE]
    BY <1>0, <1>1, <1>7 DEF File, Fresh, Written
  <2>2. /\ files'["save"] = files["save"] /\ Fingerprint' = Fingerprint
        /\ files'["state"] = row
    BY <1>3, <2>1 DEF Fingerprint
  <2>3. chip'.ram = chip.ram /\ chip'.dirty = chip.dirty
    BY <1>0, <2>1 DEF Types, SaveTypeOK
  <2>4. Types'
    BY <1>0, <1>1, <1>2, <1>3, <1>9, <2>1 DEF Types, SaveTypeOK, Positions
  <2>5. Contained'
    <3>1. row.dest.ram = chip.ram /\ Whole(row.dest)
      BY <1>5, <2>1 DEF Whole
    <3>2. Sound(row.bak) /\ row.bak.ram <= writes
      BY <1>0, <1>5, <2>1 DEF Contained, Sound, Absent
    <3> QED
      BY <1>0, <1>3, <1>5, <2>1, <2>2, <2>3, <3>1, <3>2 DEF Contained, Sound
  <2>6. Planned'
    BY <1>2, <2>1, <2>2, <2>3 DEF Planned, Calling
  <2>7. Marked'
    BY <1>0, <1>1, <1>5, <2>1, <2>2, <2>3 DEF Marked, Gone, Continues, Fits
  <2>8. NothingRolledBack' /\ CleanMeansOnDisk'
    BY <1>0, <2>2, <2>3 DEF NothingRolledBack, NeverRolledBack, CleanMeansOnDisk
  <2>9. Timely'
    BY <1>0, <1>1, <2>1 DEF Timely, Types, SaveTypeOK
  <2> QED
    BY <1>4, <2>4, <2>5, <2>6, <2>7, <2>8, <2>9 DEF SaveInv, Kept
<1> QED
  BY <1>6, <1>7, Replacing

LEMMA MoveOverKeeps ==
    ASSUME SaveInv, MoveOver
    PROVE  SaveInv'
<1>1. /\ UNCHANGED <<marker, running, autosave, writes, late, stuck>>
      /\ Calling({"flush", "suspend"}) /\ at = "move"
  BY DEF MoveOver
<1>2. files[File].tmp = Fresh /\ (Head(calls) = "flush" => chip.dirty)
  BY <1>1, Parts DEF InFlight, Calling
<1>3. CASE /\ files' = [files EXCEPT ![File].dest = files[File].tmp, ![File].tmp = Absent]
           /\ Written(File) /\ UNCHANGED losses
  <2> DEFINE row == [files[File] EXCEPT !.dest = Fresh, !.tmp = Absent]
  <2>1. /\ row \in Siblings /\ row.dest = Fresh /\ row.bak = files[File].bak
        /\ files' = [files EXCEPT ![File] = row]
    BY <1>1, <1>2, <1>3, Replacing, FreshTyped, TornTyped, Parts DEF Siblings
  <2> HIDE DEF row
  <2> QED
    BY <1>1, <1>3, <2>1, WrittenKeeps
<1>4. CASE at' = "clear" /\ Lose /\ UNCHANGED <<files, calls, chip>>
  <2>1. Beside
    BY <1>4, Replacing, <1>1 DEF Beside
  <2>2. InFlight'
    BY <1>1, <1>2, <1>4 DEF InFlight, Calling, File, Fresh
  <2> QED
    BY <1>1, <1>4, <2>1, <2>2, GoesOn DEF Positions
<1> QED
  BY <1>3, <1>4 DEF MoveOver

LEMMA DropParkedKeeps ==
    ASSUME SaveInv, DropParked
    PROVE  SaveInv'
<1>1. /\ UNCHANGED <<marker, running, autosave, writes, late, stuck>>
      /\ Calling({"flush", "suspend"}) /\ at = "drop" /\ Written(File)
  BY DEF DropParked
<1>2. files[File].dest = Fresh
  BY <1>1, Parts DEF InFlight, Calling
<1>3. CASE files' = [files EXCEPT ![File].bak = Absent] /\ UNCHANGED losses
  <2> DEFINE row == [files[File] EXCEPT !.bak = Absent]
  <2>1. /\ row \in Siblings /\ row.dest = Fresh /\ row.bak = Absent
        /\ files' = [files EXCEPT ![File] = row]
    BY <1>1, <1>2, <1>3, Replacing, TornTyped DEF Siblings
  <2> HIDE DEF row
  <2> QED
    BY <1>1, <1>3, <2>1, WrittenKeeps
<1>4. CASE Lose /\ UNCHANGED files
  <2>1. /\ files[File] \in Siblings /\ files' = [files EXCEPT ![File] = files[File]]
    BY <1>1, <1>4, Replacing
  <2> QED
    BY <1>1, <1>2, <1>4, <2>1, WrittenKeeps
<1> QED
  BY <1>3, <1>4 DEF DropParked

(* The old contents are parked.  They stay what they were, and what is missing
   is older than any save. *)
LEMMA ParkKeeps ==
    ASSUME SaveInv, Park
    PROVE  SaveInv'
<1> USE DEF Names
<1>0. /\ Types /\ Contained /\ Planned /\ InFlight /\ Marked
      /\ NothingRolledBack /\ CleanMeansOnDisk /\ Timely
  BY Parts
<1>1. /\ UNCHANGED <<marker, chip, running, autosave, writes, late, stuck>>
      /\ Calling({"flush", "suspend"}) /\ at = "park"
  BY DEF Park
<1>2. files[File].tmp = Fresh /\ (Head(calls) = "flush" => chip.dirty)
  BY <1>0, <1>1 DEF InFlight, Calling
<1>3. CASE /\ files' = [files EXCEPT ![File].bak = files[File].dest, ![File].dest = Absent]
           /\ at' = "second" /\ UNCHANGED <<calls, losses>>
  <2> DEFINE row == [files[File] EXCEPT !.bak = files[File].dest, !.dest = Absent]
  <2>1. /\ row \in Siblings /\ row.dest = Absent /\ row.bak = files[File].dest
        /\ row.tmp = files[File].tmp /\ files' = [files EXCEPT ![File] = row]
    BY <1>1, <1>3, Replacing, TornTyped DEF Siblings
  <2> HIDE DEF row
  <2>2. /\ files' \in [Names -> Siblings]
        /\ \A g \in Names : files'[g].dest # Torn /\ files'[g].bak # Torn
        /\ files'[File] = row /\ \A g \in Names : g # File => files'[g] = files[g]
    BY <1>0, <1>1, <2>1, NewRow, TornTyped, Replacing
  <2>3. chip.ram \in 0..MaxWrites /\ chip.dirty \in BOOLEAN /\ marker \in -3..MaxWrites
        /\ chip.ram <= writes /\ writes \in Nat
    BY <1>0 DEF Types, SaveTypeOK, Contained
  <2>4. Types'
    BY <1>0, <1>1, <1>3, <2>2, StillTyped, Replacing DEF Positions
  <2>5. Planned'
    BY <1>0, <1>1, <1>3 DEF Planned, Calling
  <2>6. Contained'
    BY <1>0, <1>1, <2>1, <2>2, <2>3 DEF Contained, Sound, Absent
  <2>7. Timely'
    BY <1>0, <1>1 DEF Timely
  <2>8. CASE Head(calls) = "flush"
    <3>1. /\ File = "save" /\ File' = File /\ Fresh' = Fresh /\ chip.dirty
          /\ files'["save"] = row /\ files'["state"] = files["state"] /\ Fingerprint' = -1
      BY <1>1, <1>2, <1>3, <2>1, <2>2, <2>8 DEF File, Fresh, Fingerprint, Absent
    <3>2. files["save"].dest.ram = Fingerprint /\ (stuck \/ chip.ram >= Fingerprint)
      BY <1>0, <1>1 DEF Fingerprint, NothingRolledBack, NeverRolledBack, Calling
    <3>3. InFlight'
      BY <1>1, <1>2, <1>3, <2>1, <2>3, <2>8, <3>1, <3>2 DEF InFlight, Calling
    <3>4. Marked'
      BY <1>0, <1>1, <1>3, <2>1, <2>3, <2>8, <3>1, <3>2
         DEF Marked, Gone, Continues, Fits, Calling
    <3>5. NothingRolledBack' /\ CleanMeansOnDisk'
      BY <1>1, <2>3, <3>1 DEF NothingRolledBack, NeverRolledBack, CleanMeansOnDisk, Absent
    <3> QED
      BY <2>4, <2>5, <2>6, <2>7, <3>3, <3>4, <3>5 DEF SaveInv, Kept
  <2>9. CASE Head(calls) = "suspend"
    <3>1. /\ File = "state" /\ File' = File /\ Fresh' = Fresh
          /\ files'["state"] = row /\ files'["save"] = files["save"]
          /\ Fingerprint' = Fingerprint
      BY <1>1, <1>3, <2>2, <2>9 DEF File, Fresh, Fingerprint
    <3>2. InFlight'
      BY <1>1, <1>2, <1>3, <2>1, <2>9, <3>1 DEF InFlight, Calling
    <3>3. Marked'
      BY <1>0, <1>1, <1>3, <2>1, <2>3, <2>9, <3>1
         DEF Marked, Gone, Continues, Fits, Calling
    <3>4. NothingRolledBack' /\ CleanMeansOnDisk'
      BY <1>0, <1>1, <3>1 DEF NothingRolledBack, NeverRolledBack, CleanMeansOnDisk
    <3> QED
      BY <2>4, <2>5, <2>6, <2>7, <3>2, <3>3, <3>4 DEF SaveInv, Kept
  <2> QED
    BY <1>1, <2>8, <2>9, Replacing
<1>4. CASE Failed /\ Lose /\ UNCHANGED files
  BY <1>1, <1>4, Replacing, FailedKeeps DEF Beside
<1> QED
  BY <1>3, <1>4 DEF Park

(* A file in place changes and the chip does not: what is left to be shown. *)
LEMMA InPlace ==
    ASSUME SaveInv, Calling({"flush", "suspend"}),
           UNCHANGED <<marker, chip, running, autosave, writes, late, stuck>>,
           losses' = losses \/ Lose, calls' \in Seq(Calls), at' \in Positions,
           NEW row \in Siblings, files' = [files EXCEPT ![File] = row],
           row.dest # Torn, row.bak # Torn,
           Sound(row.dest), row.dest.ram <= writes, Sound(row.bak), row.bak.ram <= writes
    PROVE  /\ Types' /\ Contained' /\ Timely'
           /\ files'[File] = row /\ \A g \in Names : g # File => files'[g] = files[g]
<1>0. Types /\ Contained /\ Timely
  BY Parts
<1>1. /\ files' \in [Names -> Siblings]
      /\ \A g \in Names : files'[g].dest # Torn /\ files'[g].bak # Torn
      /\ files'[File] = row /\ \A g \in Names : g # File => files'[g] = files[g]
  BY <1>0, NewRow, Replacing
<1>2. Types'
  BY <1>0, <1>1, StillTyped, Replacing
<1>3. Contained'
  <2>1. ASSUME NEW g \in Names
        PROVE  /\ Sound(files'[g].dest) /\ files'[g].dest.ram <= writes
               /\ Sound(files'[g].bak) /\ files'[g].bak.ram <= writes
    BY <1>0, <1>1 DEF Contained
  <2> QED
    BY <1>0, <2>1 DEF Contained, Sound
<1>4. Timely'
  BY <1>0 DEF Timely
<1> QED
  BY <1>1, <1>2, <1>3, <1>4

LEMMA MoveSecondKeeps ==
    ASSUME SaveInv, MoveSecond
    PROVE  SaveInv'
<1> USE DEF Names
<1>0. /\ Types /\ Contained /\ Planned /\ InFlight /\ Marked
      /\ NothingRolledBack /\ CleanMeansOnDisk /\ Timely
  BY Parts
<1>1. /\ UNCHANGED <<marker, calls, chip, running, autosave, writes, late, stuck>>
      /\ Calling({"flush", "suspend"}) /\ at = "second"
  BY DEF MoveSecond
<1>2. files[File].tmp = Fresh /\ (Head(calls) = "flush" => chip.dirty)
  BY <1>0, <1>1 DEF InFlight, Calling
<1>3. CASE /\ files' = [files EXCEPT ![File].dest = files[File].tmp, ![File].tmp = Absent]
           /\ at' = "drop" /\ UNCHANGED losses
  <2> DEFINE row == [files[File] EXCEPT !.dest = Fresh, !.tmp = Absent]
  <2>1. /\ row \in Siblings /\ row.dest = Fresh /\ row.bak = files[File].bak
        /\ files' = [files EXCEPT ![File] = row] /\ Fresh # Torn /\ files[File].bak # Torn
    BY <1>0, <1>1, <1>2, <1>3, Replacing, FreshTyped, TornTyped DEF Siblings
  <2> HIDE DEF row
  <2>2. chip.ram \in 0..MaxWrites /\ chip.dirty \in BOOLEAN /\ marker \in -3..MaxWrites
        /\ chip.ram <= writes /\ writes \in Nat /\ running
    BY <1>0, <1>1 DEF Types, SaveTypeOK, Contained, Calling
  <2>3. Fresh.ram = chip.ram /\ Whole(Fresh)
    BY <2>2 DEF Fresh, Whole
  <2>4. Sound(row.bak) /\ row.bak.ram <= writes /\ Sound(row.dest) /\ row.dest.ram <= writes
    BY <1>0, <1>1, <2>1, <2>2, <2>3, Replacing DEF Contained, Sound
  <2>5. /\ Types' /\ Contained' /\ Timely' /\ files'[File] = row
        /\ \A g \in Names : g # File => files'[g] = files[g]
    BY <1>1, <1>3, <2>1, <2>4, InPlace, Replacing DEF Positions
  <2>6. Planned'
    BY <1>0, <1>1 DEF Planned, Calling
  <2>7. InFlight'
    BY <1>1, <1>2, <1>3, <2>1, <2>5 DEF InFlight, Calling, File, Fresh
  <2>8. CASE Head(calls) = "flush"
    <3>1. /\ File = "save" /\ chip.dirty /\ files'["state"] = files["state"]
          /\ Fingerprint' = chip.ram
      BY <1>2, <2>1, <2>3, <2>5, <2>8 DEF File, Fingerprint
    <3>2. Marked'
      BY <1>0, <1>1, <1>3, <2>2, <2>8, <3>1 DEF Marked, Gone, Continues, Fits, Calling
    <3>3. NothingRolledBack' /\ CleanMeansOnDisk'
      BY <1>1, <2>2, <3>1 DEF NothingRolledBack, NeverRolledBack, CleanMeansOnDisk
    <3> QED
      BY <2>5, <2>6, <2>7, <3>2, <3>3 DEF SaveInv, Kept
  <2>9. CASE Head(calls) = "suspend"
    <3>1. /\ File = "state" /\ files'["save"] = files["save"] /\ Fingerprint' = Fingerprint
          /\ files'["state"].dest = [ram |-> chip.ram, dirty |-> chip.dirty]
      BY <2>1, <2>5, <2>9 DEF File, Fingerprint, Fresh
    <3>2. Marked'
      BY <1>0, <1>1, <1>3, <2>2, <2>9, <3>1
         DEF Marked, Gone, Continues, Fits, Calling, Absent
    <3>3. NothingRolledBack' /\ CleanMeansOnDisk'
      BY <1>0, <1>1, <3>1 DEF NothingRolledBack, NeverRolledBack, CleanMeansOnDisk
    <3> QED
      BY <2>5, <2>6, <2>7, <3>2, <3>3 DEF SaveInv, Kept
  <2> QED
    BY <1>1, <2>8, <2>9, Replacing
<1>4. CASE at' = "restore" /\ Lose /\ UNCHANGED files
  <2>1. Beside
    BY <1>1, <1>4, Replacing DEF Beside
  <2>2. InFlight'
    BY <1>0, <1>1, <1>2, <1>4 DEF InFlight, Calling
  <2> QED
    BY <1>1, <1>4, <2>1, <2>2, GoesOn DEF Positions
<1> QED
  BY <1>3, <1>4 DEF MoveSecond

LEMMA PutBackKeeps ==
    ASSUME SaveInv, PutBack
    PROVE  SaveInv'
<1> USE DEF Names
<1>0. /\ Types /\ Contained /\ Planned /\ InFlight /\ Marked
      /\ NothingRolledBack /\ CleanMeansOnDisk /\ Timely
  BY Parts
<1>1. /\ UNCHANGED <<marker, chip, running, autosave, writes, late, stuck>>
      /\ Calling({"flush", "suspend"}) /\ at = "restore" /\ Failed
  BY DEF PutBack
<1>2. /\ calls' \in Seq(Calls) /\ Shape(calls') /\ (calls' # <<>> => Head(calls') # "mark")
      /\ at' = "start"
  BY <1>1, Replacing, FailedCalls DEF Failed
<1>3. CASE /\ files' = [files EXCEPT ![File].dest = files[File].bak, ![File].bak = Absent]
           /\ UNCHANGED losses
  <2> DEFINE row == [files[File] EXCEPT !.dest = files[File].bak, !.bak = Absent]
  <2>1. /\ row \in Siblings /\ row.dest = files[File].bak /\ row.bak = Absent
        /\ files' = [files EXCEPT ![File] = row] /\ files[File].bak # Torn /\ Absent # Torn
    BY <1>1, <1>3, Replacing, TornTyped DEF Siblings
  <2> HIDE DEF row
  <2>2. chip.ram \in 0..MaxWrites /\ chip.dirty \in BOOLEAN /\ marker \in -3..MaxWrites
        /\ chip.ram <= writes /\ writes \in Nat /\ running
    BY <1>0, <1>1 DEF Types, SaveTypeOK, Contained, Calling
  <2>3. Sound(row.bak) /\ row.bak.ram <= writes /\ Sound(row.dest) /\ row.dest.ram <= writes
    BY <1>0, <1>1, <2>1, <2>2, Replacing DEF Contained, Sound, Absent
  <2>4. /\ Types' /\ Contained' /\ Timely' /\ files'[File] = row
        /\ \A g \in Names : g # File => files'[g] = files[g]
    BY <1>1, <1>2, <1>3, <2>1, <2>3, InPlace, Replacing DEF Positions
  <2>5. Planned' /\ InFlight'
    BY <1>2 DEF Planned, InFlight, Calling
  <2>6. CASE Head(calls) = "flush"
    <3>1. /\ File = "save" /\ chip.dirty /\ (stuck \/ files["save"].bak.ram <= chip.ram)
          /\ files'["state"] = files["state"] /\ Fingerprint' = files["save"].bak.ram
      BY <1>0, <1>1, <2>1, <2>4, <2>6 DEF File, InFlight, Calling, Fingerprint
    <3>2. Marked'
      BY <1>0, <1>1, <1>2, <2>2, <2>6, <3>1 DEF Marked, Gone, Continues, Fits, Calling
    <3>3. NothingRolledBack' /\ CleanMeansOnDisk'
      BY <1>1, <3>1 DEF NothingRolledBack, NeverRolledBack, CleanMeansOnDisk
    <3> QED
      BY <2>4, <2>5, <3>2, <3>3 DEF SaveInv, Kept
  <2>7. CASE Head(calls) = "suspend"
    <3>1. /\ File = "state" /\ files'["save"] = files["save"] /\ Fingerprint' = Fingerprint
          /\ files'["state"].dest = files["state"].bak /\ files'["state"].bak = Absent
      BY <2>1, <2>4, <2>7 DEF File, Fingerprint
    <3>2. Marked'
      BY <1>0, <1>1, <1>2, <2>2, <2>7, <3>1 DEF Marked, Gone, Continues, Fits, Calling
    <3>3. NothingRolledBack' /\ CleanMeansOnDisk'
      BY <1>0, <1>1, <3>1 DEF NothingRolledBack, NeverRolledBack, CleanMeansOnDisk
    <3> QED
      BY <2>4, <2>5, <3>2, <3>3 DEF SaveInv, Kept
  <2> QED
    BY <1>1, <2>6, <2>7, Replacing
<1>4. CASE UNCHANGED files /\ (losses' = losses \/ Lose)
  BY <1>1, <1>4, Replacing, FailedKeeps DEF Beside
<1> QED
  BY <1>3, <1>4 DEF PutBack

-----------------------------------------------------------------------------
(* Plans.                                                                    *)
Plan(s) == s \in Seq(Calls) /\ Shape(s) /\ (s # <<>> => Head(s) # "mark")

LEMMA PlanFacts ==
    ASSUME NEW s \in Seq(Calls)
    PROVE  Plan(s) <=> /\ \A i \in 1..Len(s) : s[i] = "suspend" => i < Len(s) /\ s[i + 1] = "mark"
                       /\ \A i \in 1..Len(s) : s[i] = "mark" => i > 1 /\ s[i - 1] = "suspend"
BY DEF Plan, Shape

(* One plan after the other is a plan. *)
LEMMA PlansFollow ==
    ASSUME NEW s, NEW t, Plan(s), Plan(t)
    PROVE  Plan(s \o t)
<1>1. /\ s \in Seq(Calls) /\ t \in Seq(Calls) /\ s \o t \in Seq(Calls)
      /\ Len(s) \in Nat /\ Len(t) \in Nat /\ Len(s \o t) = Len(s) + Len(t)
      /\ \A i \in 1..Len(s) : (s \o t)[i] = s[i]
      /\ \A i \in 1..Len(t) : (s \o t)[i + Len(s)] = t[i]
  BY DEF Plan
<1>2. /\ \A i \in 1..Len(s) : s[i] = "suspend" => i < Len(s) /\ s[i + 1] = "mark"
      /\ \A i \in 1..Len(s) : s[i] = "mark" => i > 1 /\ s[i - 1] = "suspend"
      /\ \A i \in 1..Len(t) : t[i] = "suspend" => i < Len(t) /\ t[i + 1] = "mark"
      /\ \A i \in 1..Len(t) : t[i] = "mark" => i > 1 /\ t[i - 1] = "suspend"
  BY <1>1, PlanFacts
<1> DEFINE st == s \o t
<1>3. \A i \in 1..Len(st) : i \in 1..Len(s) \/ (i - Len(s) \in 1..Len(t) /\ st[i] = t[i - Len(s)])
  <2> TAKE i \in 1..Len(st)
  <2>1. CASE i > Len(s)
    <3>1. i - Len(s) \in 1..Len(t)
      BY <1>1, <2>1
    <3>2. st[(i - Len(s)) + Len(s)] = t[i - Len(s)]
      BY <1>1, <3>1
    <3> QED
      BY <1>1, <3>1, <3>2
  <2> QED
    BY <1>1, <2>1
<1>4. ASSUME NEW i \in 1..Len(st), st[i] = "suspend"
      PROVE  i < Len(st) /\ st[i + 1] = "mark"
  <2>1. CASE i \in 1..Len(s)
    <3>1. i < Len(s) /\ s[i + 1] = "mark"
      BY <1>1, <1>2, <1>4, <2>1
    <3> QED
      BY <1>1, <2>1, <3>1
  <2>2. CASE i - Len(s) \in 1..Len(t) /\ st[i] = t[i - Len(s)]
    <3>1. i - Len(s) < Len(t) /\ t[i - Len(s) + 1] = "mark"
      BY <1>2, <1>4, <2>2
    <3>2. i - Len(s) + 1 \in 1..Len(t)
      BY <1>1, <2>2, <3>1
    <3>3. st[(i - Len(s) + 1) + Len(s)] = t[i - Len(s) + 1]
      BY <1>1, <3>2
    <3> QED
      BY <1>1, <3>1, <3>3
  <2> QED
    BY <1>3, <2>1, <2>2
<1>5. ASSUME NEW i \in 1..Len(st), st[i] = "mark"
      PROVE  i > 1 /\ st[i - 1] = "suspend"
  <2>1. CASE i \in 1..Len(s)
    <3>1. i > 1 /\ s[i - 1] = "suspend"
      BY <1>1, <1>2, <1>5, <2>1
    <3> QED
      BY <1>1, <2>1, <3>1
  <2>2. CASE i - Len(s) \in 1..Len(t) /\ st[i] = t[i - Len(s)]
    <3>1. i - Len(s) > 1 /\ t[i - Len(s) - 1] = "suspend"
      BY <1>2, <1>5, <2>2
    <3>2. i - Len(s) - 1 \in 1..Len(t)
      BY <1>1, <2>2, <3>1
    <3>3. st[(i - Len(s) - 1) + Len(s)] = t[i - Len(s) - 1]
      BY <1>1, <3>2
    <3> QED
      BY <1>1, <3>1, <3>3
  <2> QED
    BY <1>3, <2>1, <2>2
<1> HIDE DEF st
<1>6. Plan(st)
  BY <1>1, <1>4, <1>5, PlanFacts DEF st
<1> QED
  BY <1>6 DEF st

LEMMA ShortPlans ==
    /\ Plan(<<>>) /\ Plan(Suspend)
    /\ \A c \in Calls \ {"suspend", "mark"} : Plan(<<c>>)
<1>1. Plan(<<>>)
  BY DEF Plan, Shape
<1>2. Plan(Suspend)
  <2>1. /\ Suspend \in Seq(Calls) /\ Len(Suspend) = 2
        /\ Suspend[1] = "suspend" /\ Suspend[2] = "mark"
    BY DEF Suspend, Calls
  <2>2. \A i \in 1..Len(Suspend) : i = 1 \/ i = 2
    BY <2>1
  <2> QED
    BY <2>1, <2>2, PlanFacts
<1>3. ASSUME NEW c \in Calls \ {"suspend", "mark"}
      PROVE  Plan(<<c>>)
  <2>1. <<c>> \in Seq(Calls) /\ Len(<<c>>) = 1 /\ <<c>>[1] = c
    OBVIOUS
  <2>2. \A i \in 1..Len(<<c>>) : i = 1
    BY <2>1
  <2> QED
    BY <2>1, <2>2, PlanFacts
<1> QED
  BY <1>1, <1>2, <1>3

-----------------------------------------------------------------------------
(* The chip's record. *)
Chips == [ram : 0..MaxWrites, dirty : BOOLEAN, pending : BOOLEAN,
          quiet : 0..MaxDelay, waiting : 0..MaxDelay, ran : BOOLEAN, suspended : BOOLEAN]

LEMMA BlankTyped ==
    /\ Blank \in Chips /\ Blank.ram = 0 /\ ~Blank.pending
    /\ 0 \in 0..MaxWrites /\ 0 \in 0..MaxDelay
<1>1. 0 \in 0..MaxWrites /\ 0 \in 0..MaxDelay
  BY LimitsAssumption, DelaysAssumption
<1> QED
  BY <1>1 DEF Blank, Chips

LEMMA LoadedTyped ==
    ASSUME NEW n \in 0..MaxWrites, NEW c, c = [Blank EXCEPT !.ram = n]
    PROVE  c \in Chips /\ c.ram = n /\ ~c.pending /\ c.dirty = FALSE
<1>1. c = [ram |-> n, dirty |-> FALSE, pending |-> FALSE, quiet |-> 0, waiting |-> 0,
           ran |-> FALSE, suspended |-> FALSE]
  BY DEF Blank
<1> QED
  BY <1>1, BlankTyped DEF Chips

(* Steps that leave the files alone.                                         *)

(* The session gets a new plan; the chip stays or takes a new write; the marker
   stays or goes. *)
LEMMA Rescheduled ==
    ASSUME SaveInv, running, running', UNCHANGED <<files, stuck>>, at' = "start",
           Plan(calls'), marker' = marker \/ marker' < 0,
           writes' \in Nat, writes <= writes',
           marker' \in -3..MaxWrites,
           chip'.ram \in 0..writes', chip'.dirty \in BOOLEAN,
           \/ chip'.ram = chip.ram /\ chip'.dirty = chip.dirty
           \/ chip'.ram > writes /\ chip'.dirty
    PROVE  Kept'
<1> USE DEF Names
<1>0. /\ Types /\ Contained /\ Marked /\ NothingRolledBack /\ CleanMeansOnDisk
  BY Parts
<1>1. /\ Fingerprint' = Fingerprint /\ Fingerprint <= writes /\ marker <= writes
      /\ chip.ram \in 0..MaxWrites /\ writes \in Nat /\ marker \in -3..MaxWrites
      /\ Fingerprint \in -2..MaxWrites
  BY <1>0 DEF Fingerprint, Contained, Types, SaveTypeOK, Siblings, Contents
<1>2. Contained'
  <2>1. ASSUME NEW f \in Names
        PROVE  files[f].dest.ram \in Int /\ files[f].bak.ram \in Int
    BY SMTT(30), <1>0 DEF Types, SaveTypeOK, Siblings, Contents
  <2> QED
    BY <1>0, <1>1, <2>1 DEF Contained, Sound
<1>3. Planned' /\ InFlight'
  BY DEF Plan, Planned, InFlight, Calling
<1>4. Marked'
  BY <1>0, <1>1 DEF Marked, Gone, Continues, Fits
<1>5. NothingRolledBack' /\ CleanMeansOnDisk'
  BY <1>0, <1>1 DEF NothingRolledBack, NeverRolledBack, CleanMeansOnDisk
<1> QED
  BY <1>2, <1>3, <1>4, <1>5 DEF Kept

(* The same, with the chip as it was. *)
LEMMA NewPlan ==
    ASSUME SaveInv, running, UNCHANGED <<files, running, autosave, writes, late, stuck>>,
           at' = "start", Plan(calls'), marker' = marker \/ marker' \in -3..-1,
           losses' = losses \/ Lose,
           \/ chip' = chip
           \/ chip' = [chip EXCEPT !.suspended = FALSE]
    PROVE  SaveInv'
<1> USE DEF Chips
<1>0. Types /\ Timely /\ Contained
  BY Parts
<1>1. chip' \in Chips
      /\ chip'.ram = chip.ram /\ chip'.dirty = chip.dirty
      /\ chip'.pending = chip.pending /\ chip'.waiting = chip.waiting
  BY <1>0 DEF Types, SaveTypeOK
<1>2. marker' \in -3..MaxWrites
  BY <1>0, LimitsAssumption DEF Types, SaveTypeOK
<1>3. Types'
  BY <1>0, <1>1, <1>2 DEF Types, SaveTypeOK, Plan, Positions, Lose
<1>4. chip'.ram \in 0..writes' /\ writes' \in Nat /\ chip'.dirty \in BOOLEAN
  BY <1>0, <1>1 DEF Types, SaveTypeOK, Contained
<1>5. Kept'
  BY <1>1, <1>2, <1>4, Rescheduled
<1>6. Timely'
  BY <1>0, <1>1 DEF Timely
<1> QED
  BY <1>3, <1>5, <1>6 DEF SaveInv

LEMMA MarkKeeps ==
    ASSUME SaveInv, Mark
    PROVE  SaveInv'
<1> USE DEF Names
<1>0. /\ Types /\ Contained /\ Planned /\ NothingRolledBack /\ CleanMeansOnDisk /\ Timely
  BY Parts
<1>1. /\ UNCHANGED <<files, chip, running, autosave, writes, late, stuck>>
      /\ Calling({"mark"}) /\ running /\ calls # <<>> /\ Head(calls) = "mark"
      /\ calls \in Seq(Calls)
  BY <1>0 DEF Mark, Calling, Types, SaveTypeOK
<1>2. ASSUME Returned
      PROVE  Plan(calls') /\ at' = "start"
  BY <1>0, <1>1, <1>2, ReturnedCalls DEF Returned, Plan, Planned
<1>3. CASE marker' = TornMarker /\ at' = "write" /\ UNCHANGED <<calls, losses>>
  <2>1. Types'
    BY <1>0, <1>1, <1>3, LimitsAssumption DEF Types, SaveTypeOK, TornMarker, Positions
  <2>2. Contained' /\ Planned' /\ Timely'
    BY <1>0, <1>1, <1>3 DEF Contained, Planned, Timely, TornMarker, Calling, Types
  <2>3. InFlight'
    BY <1>1, <1>3 DEF InFlight, Calling
  <2>4. Marked' /\ NothingRolledBack' /\ CleanMeansOnDisk'
    BY <1>0, <1>1, <1>3 DEF Marked, NothingRolledBack, NeverRolledBack, CleanMeansOnDisk, TornMarker, Fingerprint
  <2> QED
    BY <2>1, <2>2, <2>3, <2>4 DEF SaveInv, Kept
<1>4. CASE UNCHANGED marker /\ Returned /\ Lose
  BY <1>1, <1>2, <1>4, NewPlan
<1>5. CASE marker' = Fingerprint /\ Returned /\ UNCHANGED losses
  <2>1. /\ Fingerprint \in -3..MaxWrites /\ Fingerprint <= writes /\ Fingerprint' = Fingerprint
    BY <1>0, <1>1 DEF Fingerprint, Types, SaveTypeOK, Siblings, Contents, Contained
  <2>2. files["state"].dest = [ram |-> chip.ram, dirty |-> chip.dirty]
    BY <1>0, <1>1 DEF Planned
  <2>3. Types'
    BY <1>0, <1>1, <1>2, <1>5, <2>1 DEF Types, SaveTypeOK, Positions, Plan
  <2>4. Contained' /\ Timely'
    BY <1>0, <1>1, <1>5, <2>1 DEF Contained, Timely
  <2>5. Planned' /\ InFlight'
    BY <1>2, <1>5 DEF Planned, InFlight, Calling, Plan
  <2>6. Marked'
    <3>1. ASSUME marker' >= 0, ~stuck
          PROVE  Continues'
      BY <1>0, <1>1, <1>2, <1>5, <2>1, <2>2, <3>1
         DEF Continues, Fits, NothingRolledBack, NeverRolledBack, CleanMeansOnDisk, Absent, Calling
    <3> QED
      BY <1>1, <3>1 DEF Marked
  <2>7. NothingRolledBack' /\ CleanMeansOnDisk'
    BY <1>0, <1>1, <2>1 DEF NothingRolledBack, NeverRolledBack, CleanMeansOnDisk
  <2> QED
    BY <2>3, <2>4, <2>5, <2>6, <2>7 DEF SaveInv, Kept
<1> QED
  BY <1>3, <1>4, <1>5 DEF Mark

LEMMA UnmarkKeeps ==
    ASSUME SaveInv, Unmark
    PROVE  SaveInv'
<1>1. /\ UNCHANGED <<files, chip, running, autosave, writes, late, stuck>> /\ Returned
      /\ running /\ calls # <<>> /\ Head(calls) = "unmark"
      /\ marker' = marker \/ marker' = NoMarker
  BY DEF Unmark, Calling
<1>2. losses' = losses \/ Lose
  BY DEF Unmark
<1>3. Plan(calls') /\ at' = "start"
  BY <1>1, Parts, ReturnedCalls DEF Returned, Plan, Planned, Types, SaveTypeOK
<1> QED
  BY <1>1, <1>2, <1>3, NewPlan DEF Unmark, NoMarker

LEMMA TerminateKeeps ==
    ASSUME SaveInv, Terminate
    PROVE  SaveInv'
<1>1. /\ UNCHANGED <<files, marker, chip, running, autosave, writes, losses, late, stuck>>
      /\ running /\ at' = "start"
      /\ calls' = <<"flush">> \o (IF chip.suspended \/ ~chip.ran THEN <<>> ELSE <<"unmark">>)
                  \o <<"exit">>
  BY DEF Terminate, Calling, durable
<1>2. Plan(<<"flush">>) /\ Plan(<<"unmark">>) /\ Plan(<<"exit">>) /\ Plan(<<>>)
  BY ShortPlans DEF Calls
<1>3. Plan(<<"flush">> \o (IF chip.suspended \/ ~chip.ran THEN <<>> ELSE <<"unmark">>))
  BY <1>2, PlansFollow, Zenon
<1>4. Plan(calls')
  BY <1>1, <1>2, <1>3, PlansFollow, Zenon
<1> QED
  BY <1>1, <1>4, NewPlan

LEMMA WaitedKeeps ==
    ASSUME SaveInv, Waited
    PROVE  SaveInv'
<1>1. /\ UNCHANGED <<files, marker, chip, running, autosave, writes, losses, late, stuck>>
      /\ running /\ at' = "start" /\ (calls' = <<"unmark">> \/ calls' = <<"terminate">>)
  BY DEF Waited, Calling, durable
<1>2. Plan(calls')
  BY <1>1, ShortPlans DEF Calls
<1> QED
  BY <1>1, <1>2, NewPlan

LEMMA QuitKeeps ==
    ASSUME SaveInv, Quit
    PROVE  SaveInv'
<1>1. /\ UNCHANGED <<files, marker, chip, running, autosave, writes, losses, late, stuck>>
      /\ running /\ at' = at /\ calls = <<>> /\ calls' = <<"flush", "unmark", "exit">>
  BY DEF Quit, Idle, durable
<1>2. at = "start"
  BY <1>1, Parts DEF InFlight, Calling
<1>3. Plan(calls')
  <2>1. /\ calls' \in Seq(Calls) /\ Len(calls') = 3
        /\ calls'[1] = "flush" /\ calls'[2] = "unmark" /\ calls'[3] = "exit"
    BY <1>1 DEF Calls
  <2>2. \A i \in 1..Len(calls') : i = 1 \/ i = 2 \/ i = 3
    BY <2>1
  <2> QED
    BY <2>1, <2>2, PlanFacts
<1> QED
  BY <1>1, <1>2, <1>3, NewPlan

LEMMA BackgroundKeeps ==
    ASSUME SaveInv, Background
    PROVE  SaveInv'
<1>1. /\ UNCHANGED <<files, marker, running, autosave, writes, losses, late, stuck>>
      /\ running /\ at' = at /\ calls = <<>> /\ chip' = [chip EXCEPT !.suspended = FALSE]
  BY DEF Background, Idle, durable
<1>2. at = "start"
  BY <1>1, Parts DEF InFlight, Calling
<1>3. PICK end \in {"wait", "terminate"} :
         calls' = <<"flush">> \o (IF chip.ran THEN Suspend ELSE <<>>) \o <<end>>
  BY DEF Background
<1>4. Plan(<<"flush">>) /\ Plan(Suspend) /\ Plan(<<end>>) /\ Plan(<<>>)
  BY ShortPlans DEF Calls
<1>5. Plan(<<"flush">> \o (IF chip.ran THEN Suspend ELSE <<>>))
  BY <1>4, PlansFollow, Zenon
<1>6. Plan(calls')
  BY <1>3, <1>4, <1>5, PlansFollow, Zenon
<1> QED
  BY <1>1, <1>2, <1>6, NewPlan

(* The session ends, however it ends. *)
LEMMA Ended ==
    ASSUME SaveInv, ~running', calls' = <<>>, at' = "start", chip' = Blank, late' = 0,
           UNCHANGED <<files, marker, autosave, writes, stuck>>, running' \in BOOLEAN,
           losses' = losses \/ Lose
    PROVE  SaveInv'
<1> USE DEF Names
<1>0. Types /\ Contained /\ Marked
  BY Parts
<1>1. chip' \in Chips /\ chip'.ram = 0 /\ ~chip'.pending
  BY BlankTyped
<1>2. Types'
  BY <1>0, <1>1, ShortPlans DEF Types, SaveTypeOK, Positions, Lose, Plan, Chips
<1>3. Contained'
  BY <1>0, <1>1 DEF Contained, Types
<1>4. Planned' /\ InFlight'
  BY ShortPlans DEF Planned, InFlight, Calling, Plan
<1>5. Marked'
  BY <1>0 DEF Marked, Gone, Continues, Fits, Fingerprint, Calling
<1>6. NothingRolledBack' /\ CleanMeansOnDisk'
  BY DEF NothingRolledBack, NeverRolledBack, CleanMeansOnDisk
<1>7. Timely'
  BY <1>1, DelaysAssumption DEF Timely, Blank
<1> QED
  BY <1>2, <1>3, <1>4, <1>5, <1>6, <1>7 DEF SaveInv, Kept

LEMMA ExitKeeps ==
    ASSUME SaveInv, Exit
    PROVE  SaveInv'
<1>1. /\ running' = FALSE /\ calls' = <<>> /\ at' = "start" /\ chip' = Blank /\ late' = 0
      /\ UNCHANGED <<files, marker, autosave, writes, losses, stuck>>
  BY DEF Exit, durable
<1> QED
  BY <1>1, Ended

LEMMA KillKeeps ==
    ASSUME SaveInv, Kill
    PROVE  SaveInv'
<1>1. /\ running' = FALSE /\ calls' = <<>> /\ at' = "start" /\ chip' = Blank /\ late' = 0
      /\ UNCHANGED <<files, marker, autosave, writes, stuck>> /\ Lose
  BY DEF Kill, durable
<1> QED
  BY <1>1, Ended

(* A session starts from the battery: its chip is the one the marker names, or
   that one is lost. *)
LEMMA LaunchKeeps ==
    ASSUME SaveInv, Launch
    PROVE  SaveInv'
<1> USE DEF Names
<1>0. /\ Types /\ Contained /\ Marked /\ Timely
  BY Parts
<1>1. /\ ~running /\ running' = TRUE /\ calls' = <<"resume">> /\ at' = "start"
      /\ UNCHANGED <<files, marker, autosave, writes, losses, late, stuck>>
      /\ chip' = [Blank EXCEPT !.ram = IF files["save"].dest = Absent THEN 0
                                       ELSE files["save"].dest.ram]
  BY DEF Launch, durable
<1>2. PICK n \in 0..MaxWrites :
         /\ chip' = [Blank EXCEPT !.ram = n] /\ n <= writes
         /\ \/ n = Fingerprint
            \/ Fingerprint = -1
  <2>1. CASE files["save"].dest = Absent
    BY <1>0, <1>1, <2>1, LimitsAssumption DEF Fingerprint, Absent, Types
  <2>2. CASE files["save"].dest # Absent
    BY SMTT(30), <1>0, <1>1, <2>2 DEF Fingerprint, Types, SaveTypeOK, Siblings, Contents, Contained,
                            Sound, Whole
  <2> QED
    BY <2>1, <2>2
<1>3. /\ chip' \in Chips
      /\ chip'.ram = n /\ chip'.dirty = FALSE /\ ~chip'.pending
  BY <1>2, LoadedTyped
<1>4. Plan(calls') /\ calls' # <<>> /\ Head(calls') = "resume"
  BY <1>1, ShortPlans DEF Calls
<1>5. Types'
  BY <1>0, <1>1, <1>3, <1>4 DEF Types, SaveTypeOK, Positions, Plan, Chips
<1>6. Contained'
  BY <1>0, <1>1, <1>2, <1>3 DEF Contained
<1>7. Planned' /\ InFlight'
  BY <1>1, <1>4 DEF Planned, InFlight, Calling, Plan
<1>8. Fingerprint' = Fingerprint
  BY <1>1 DEF Fingerprint
<1>9. Marked'
  BY <1>0, <1>1, <1>2, <1>3, <1>8 DEF Marked, Gone, Continues, Fits, Calling, Types
<1>10. NothingRolledBack' /\ CleanMeansOnDisk'
  BY <1>2, <1>3, <1>8 DEF NothingRolledBack, NeverRolledBack, CleanMeansOnDisk, Absent
<1>11. Timely'
  BY <1>0, <1>1, <1>3 DEF Timely
<1> QED
  BY <1>5, <1>6, <1>7, <1>9, <1>10, <1>11 DEF SaveInv, Kept

(* A state is only resumed over the battery it was made on, so it continues it. *)
LEMMA ResumeKeeps ==
    ASSUME SaveInv, Resume
    PROVE  SaveInv'
<1> USE DEF Names
<1>0. /\ Types /\ Contained /\ Marked /\ Timely
  BY Parts
<1>1. /\ running /\ at' = "start"
      /\ UNCHANGED <<files, marker, running, autosave, writes, late, stuck>>
  BY DEF Resume, Calling, durable
<1>2. CASE Resumable /\ calls' = <<"unmark">> /\ UNCHANGED losses
           /\ chip' = [chip EXCEPT !.ram = files["state"].dest.ram,
                                   !.dirty = files["state"].dest.dirty, !.ran = TRUE]
  <2>1. /\ files["state"].dest \in Contents /\ Whole(files["state"].dest)
        /\ files["state"].dest.ram <= writes /\ files["state"].dest # Absent
        /\ marker = Fingerprint /\ marker >= -1 /\ marker \in -3..MaxWrites
    BY <1>0, <1>2 DEF Types, SaveTypeOK, Siblings, Contained, Sound, Resumable
  <2> DEFINE n == files["state"].dest.ram
             d == files["state"].dest.dirty
  <2>2. n \in 0..MaxWrites /\ d \in BOOLEAN /\ n <= writes
    BY <2>1 DEF Contents, Whole
  <2> HIDE DEF n, d
  <2>3. /\ chip' \in Chips
        /\ chip'.ram = n /\ chip'.dirty = d
        /\ chip'.pending = chip.pending /\ chip'.waiting = chip.waiting
    BY <1>0, <1>2, <2>2 DEF Types, SaveTypeOK, n, d, Chips
  <2>4. Plan(calls') /\ Head(calls') = "unmark"
    BY <1>2, ShortPlans DEF Calls
  <2>5. Types'
    BY <1>0, <1>1, <1>2, <2>3, <2>4 DEF Types, SaveTypeOK, Positions, Plan, Chips
  <2>6. Contained'
    BY <1>0, <1>1, <2>2, <2>3 DEF Contained
  <2>7. Planned' /\ InFlight'
    BY <1>1, <2>4 DEF Planned, InFlight, Calling, Plan
  <2>8. ~stuck /\ marker >= 0 => Continues /\ n >= marker /\ (d \/ n = marker)
    BY <1>0, <2>1 DEF Marked, Gone, Continues, Fits, n, d
  <2>9. Marked'
    <3>1. ASSUME marker' >= 0, ~stuck
          PROVE  Continues'
      BY <1>1, <2>3, <2>8, <3>1 DEF Continues, Fits
    <3> QED
      BY <1>1, <3>1 DEF Marked
  <2>10. NothingRolledBack' /\ CleanMeansOnDisk'
    BY <1>1, <2>1, <2>2, <2>3, <2>8 DEF NothingRolledBack, NeverRolledBack, CleanMeansOnDisk, Fingerprint, Absent
  <2>11. Timely'
    BY <1>0, <1>1, <2>3 DEF Timely
  <2> QED
    BY <2>5, <2>6, <2>7, <2>9, <2>10, <2>11 DEF SaveInv, Kept
<1>3. CASE chip' = chip /\ (losses' = losses \/ Lose) /\ (calls' = <<>> \/ calls' = <<"unmark">>)
  BY <1>1, <1>3, NewPlan, ShortPlans DEF Calls
<1>4. \/ Resumable /\ calls' = <<"unmark">> /\ UNCHANGED losses
         /\ chip' = [chip EXCEPT !.ram = files["state"].dest.ram,
                                 !.dirty = files["state"].dest.dirty, !.ran = TRUE]
      \/ calls' = <<"unmark">> /\ UNCHANGED chip /\ Lose
      \/ calls' = <<>> /\ UNCHANGED <<chip, losses>>
  BY Zenon DEF Resume
<1> QED
  BY <1>2, <1>3, <1>4

-----------------------------------------------------------------------------
(* A frame.                                                                  *)

(* The clocks count one frame ... *)
LEMMA CountedClocks ==
    ASSUME NEW k \in Chips, NEW wrote \in BOOLEAN, NEW c, c = Counted(k, wrote)
    PROVE  /\ c.ram = k.ram /\ c.dirty = k.dirty
           /\ ~k.dirty => c \in Chips /\ ~c.pending /\ ~FlushDue(c)
           /\ k.dirty => /\ c.pending
                         /\ c.waiting = IF ~k.pending THEN 0 ELSE k.waiting + 1
                         /\ ~FlushDue(c) => c \in Chips /\ c.waiting < MaxDelay
                         /\ [k EXCEPT !.pending = TRUE, !.quiet = 0, !.waiting = 0] =
                                [c EXCEPT !.quiet = 0, !.waiting = 0]
<1> USE DelaysAssumption
<1>1. TRUE \in BOOLEAN /\ FALSE \in BOOLEAN /\ 0 \in 0..MaxDelay
  OBVIOUS
<1>2. k.quiet \in Nat /\ k.waiting \in Nat
  BY DEF Chips
<1>3. CASE ~k.dirty
  <2>1. c = [k EXCEPT !.pending = FALSE, !.quiet = 0, !.waiting = 0]
    BY <1>3 DEF Counted
  <2>2. c \in Chips /\ c.ram = k.ram /\ c.dirty = k.dirty /\ c.pending = FALSE
    BY <1>1, <2>1 DEF Chips
  <2> QED
    BY <1>3, <2>2 DEF FlushDue
<1>4. CASE k.dirty
  <2> DEFINE q == IF wrote \/ ~k.pending THEN 0 ELSE k.quiet + 1
             w == IF ~k.pending THEN 0 ELSE k.waiting + 1
  <2>1. c = [k EXCEPT !.pending = TRUE, !.quiet = q, !.waiting = w]
    BY <1>4 DEF Counted
  <2>2. q \in Nat /\ w \in Nat /\ w = IF ~k.pending THEN 0 ELSE k.waiting + 1
    BY <1>2
  <2> HIDE DEF q, w
  <2>3. /\ c.ram = k.ram /\ c.dirty = k.dirty /\ c.pending = TRUE /\ c.quiet = q
        /\ c.waiting = w
    BY <2>1 DEF Chips
  <2>4. ASSUME ~FlushDue(c)
        PROVE  c \in Chips /\ c.waiting < MaxDelay
    <3>1. q \in 0..MaxDelay /\ w \in 0..MaxDelay /\ w < MaxDelay
      BY <1>4, <2>2, <2>3, <2>4 DEF FlushDue
    <3> QED
      BY <1>1, <2>1, <2>3, <3>1 DEF Chips
  <2>5. [k EXCEPT !.pending = TRUE, !.quiet = 0, !.waiting = 0] =
            [c EXCEPT !.quiet = 0, !.waiting = 0]
    BY <2>1 DEF Chips
  <2> QED
    BY <1>4, <2>2, <2>3, <2>4, <2>5
<1> QED
  BY <1>3, <1>4

LEMMA Flushed ==
    ASSUME NEW k \in Chips, NEW n,
           n = [k EXCEPT !.pending = TRUE, !.quiet = 0, !.waiting = 0]
    PROVE  n \in Chips /\ n.ram = k.ram /\ n.dirty = k.dirty /\ n.pending /\ n.waiting = 0
BY BlankTyped DEF Chips

(* ... and a flush is due before they pass MaxDelay. *)
LEMMA Clocks ==
    ASSUME Types, Timely, running', NEW k \in Chips, NEW wrote \in BOOLEAN,
           k.pending = chip.pending, k.waiting = chip.waiting,
           NEW c, c = Counted(k, wrote),
           chip' = IF FlushDue(c) THEN [c EXCEPT !.quiet = 0, !.waiting = 0] ELSE c,
           late' = IF c.dirty /\ ~FlushDue(c) THEN late + 1 ELSE 0
    PROVE  /\ chip' \in Chips /\ chip'.ram = k.ram /\ chip'.dirty = k.dirty
           /\ late' \in Nat /\ Timely'
<1> USE DelaysAssumption
<1>1. /\ late \in Nat /\ late <= MaxDelay /\ chip.waiting \in Nat
      /\ late <= IF chip.pending THEN chip.waiting + 1 ELSE 0
  BY DEF Types, SaveTypeOK, Timely
<1>2. /\ c.ram = k.ram /\ c.dirty = k.dirty
      /\ ~k.dirty => c \in Chips /\ ~c.pending /\ ~FlushDue(c)
      /\ k.dirty => /\ c.pending
                    /\ c.waiting = IF ~k.pending THEN 0 ELSE k.waiting + 1
                    /\ ~FlushDue(c) => c \in Chips /\ c.waiting < MaxDelay
                    /\ [k EXCEPT !.pending = TRUE, !.quiet = 0, !.waiting = 0] =
                           [c EXCEPT !.quiet = 0, !.waiting = 0]
  BY CountedClocks
<1>3. CASE ~k.dirty
  <2>1. chip' = c /\ late' = 0 /\ ~c.pending /\ c \in Chips
    BY <1>2, <1>3
  <2> QED
    BY <1>2, <2>1 DEF Timely
<1>4. CASE k.dirty /\ FlushDue(c)
  <2>1. chip' = [k EXCEPT !.pending = TRUE, !.quiet = 0, !.waiting = 0] /\ late' = 0
    BY <1>2, <1>4
  <2>2. chip' \in Chips /\ chip'.ram = k.ram /\ chip'.dirty = k.dirty /\ chip'.pending
        /\ chip'.waiting = 0
    BY <2>1, Flushed
  <2> QED
    BY <2>1, <2>2 DEF Timely
<1>5. CASE k.dirty /\ ~FlushDue(c)
  <2>1. chip' = c /\ late' = late + 1 /\ c.pending /\ c \in Chips /\ c.waiting < MaxDelay
        /\ c.waiting = IF ~k.pending THEN 0 ELSE k.waiting + 1
    BY <1>2, <1>5
  <2>2. late <= c.waiting /\ c.waiting \in Nat
    BY <1>1, <2>1
  <2> QED
    BY <1>1, <1>2, <2>1, <2>2 DEF Timely
<1> QED
  BY <1>3, <1>4, <1>5

LEMMA FrameKeeps ==
    ASSUME SaveInv, Frame
    PROVE  SaveInv'
<1>0. Types /\ Timely /\ Contained /\ InFlight
  BY Parts
<1>1. /\ UNCHANGED <<files, marker, at, running, autosave, losses, stuck>>
      /\ running /\ calls = <<>>
  BY DEF Frame, Idle, durable
<1>2. at = "start" /\ writes \in 0..MaxWrites
  BY <1>0, <1>1 DEF InFlight, Calling, Types
<1>3. PICK wrote \in IF writes < MaxWrites THEN BOOLEAN ELSE {FALSE}, due \in BOOLEAN :
         LET ranOn == [chip EXCEPT !.ran = TRUE, !.suspended = FALSE, !.dirty = @ \/ wrote,
                                   !.ram = IF wrote THEN writes + 1 ELSE @]
             c == Counted(ranOn, wrote)
         IN /\ writes' = IF wrote THEN writes + 1 ELSE writes
            /\ calls' = (IF due THEN Suspend ELSE <<>>)
                        \o (IF FlushDue(c) THEN AfterFlush ELSE <<>>)
            /\ chip' = IF FlushDue(c) THEN [c EXCEPT !.quiet = 0, !.waiting = 0] ELSE c
            /\ late' = IF c.dirty /\ ~FlushDue(c) THEN late + 1 ELSE 0
  BY DEF Frame
<1> DEFINE r == IF wrote THEN writes + 1 ELSE chip.ram
           ranOn == [chip EXCEPT !.ran = TRUE, !.suspended = FALSE, !.dirty = @ \/ wrote,
                                 !.ram = r]
           c == Counted(ranOn, wrote)
<1>4. /\ wrote \in BOOLEAN /\ r \in 0..MaxWrites /\ writes' \in writes..MaxWrites
      /\ writes' = IF wrote THEN writes + 1 ELSE writes
      /\ r <= writes' /\ (IF wrote THEN r > writes ELSE r = chip.ram)
  <2>1. wrote \in BOOLEAN /\ (wrote => writes < MaxWrites)
    OBVIOUS
  <2>2. writes' = IF wrote THEN writes + 1 ELSE writes
    BY <1>3, Zenon
  <2>3. chip.ram \in 0..MaxWrites /\ chip.ram <= writes
    BY <1>0 DEF Types, SaveTypeOK, Contained
  <2> QED
    BY <1>2, <2>1, <2>2, <2>3, LimitsAssumption
<1>5. /\ calls' = (IF due THEN Suspend ELSE <<>>) \o (IF FlushDue(c) THEN AfterFlush ELSE <<>>)
      /\ chip' = IF FlushDue(c) THEN [c EXCEPT !.quiet = 0, !.waiting = 0] ELSE c
      /\ late' = IF c.dirty /\ ~FlushDue(c) THEN late + 1 ELSE 0
      /\ ranOn = [chip EXCEPT !.ran = TRUE, !.suspended = FALSE, !.dirty = @ \/ wrote,
                              !.ram = r]
  BY <1>3, Zenon
<1>6. c = Counted(ranOn, wrote)
  OBVIOUS
<1> HIDE DEF r, ranOn, c
<1>7. chip \in Chips
  BY <1>0 DEF Types, SaveTypeOK, Chips
<1>8. /\ ranOn \in Chips /\ ranOn.ram = r /\ (ranOn.dirty <=> chip.dirty \/ wrote)
       /\ ranOn.pending = chip.pending /\ ranOn.waiting = chip.waiting
  BY <1>4, <1>5, <1>7 DEF Chips
<1>9. /\ chip' \in Chips /\ chip'.ram = ranOn.ram /\ chip'.dirty = ranOn.dirty
       /\ late' \in Nat /\ Timely'
  BY <1>0, <1>1, <1>4, <1>5, <1>6, <1>8, Clocks
<1>10. /\ chip' \in Chips
      /\ chip'.ram = r /\ (chip'.dirty <=> chip.dirty \/ wrote)
      /\ late' \in Nat /\ Timely'
  BY <1>8, <1>9
<1>11. Plan(calls')
  <2>1. Plan(<<"flush">>) /\ Plan(Suspend) /\ Plan(<<>>)
    BY ShortPlans DEF Calls
  <2>2. Plan(<<"flush">> \o Suspend)
    BY <2>1, PlansFollow
  <2>3. Plan(AfterFlush)
    BY <2>1, <2>2, Zenon DEF AfterFlush
  <2> QED
    BY <1>5, <2>1, <2>3, PlansFollow, Zenon
<1>12. Types'
  <2>1. calls' \in Seq(Calls) /\ writes' \in 0..MaxWrites /\ running' /\ at' = at
    BY <1>1, <1>2, <1>4, <1>11 DEF Plan
  <2> QED
    BY <1>0, <1>1, <1>10, <2>1 DEF Types, SaveTypeOK, Chips
<1>13. Kept'
  <2>1. chip'.ram \in 0..writes' /\ writes <= writes' /\ writes' \in Nat /\ chip'.dirty \in BOOLEAN
    <3>1. r \in 0..writes' /\ chip'.ram = r /\ chip' \in Chips
      BY <1>2, <1>4, <1>10
    <3>2. chip'.dirty \in BOOLEAN
      BY <3>1 DEF Chips
    <3> QED
      BY <1>2, <1>4, <3>1, <3>2
  <2>2. \/ chip'.ram = chip.ram /\ chip'.dirty = chip.dirty
        \/ chip'.ram > writes /\ chip'.dirty
    BY <1>0, <1>4, <1>10, <2>1 DEF Types, SaveTypeOK
  <2>3. marker' = marker /\ marker' \in -3..MaxWrites /\ running' /\ at' = "start"
    BY <1>0, <1>1, <1>2 DEF Types, SaveTypeOK
  <2> QED
    BY <1>1, <1>11, <2>1, <2>2, <2>3, Rescheduled
<1> QED
  BY <1>10, <1>12, <1>13 DEF SaveInv

-----------------------------------------------------------------------------
(* The invariant and what it is for.                                         *)

LEMMA SaveStarts ==
    ASSUME SaveInit
    PROVE  SaveInv
<1> USE DEF Names
<1>1. /\ files = [f \in Names |-> [dest |-> Absent, tmp |-> Absent, bak |-> Absent]]
      /\ marker = -3 /\ calls = <<>> /\ at = "start" /\ running = FALSE
      /\ autosave \in BOOLEAN /\ writes = 0 /\ losses = 0 /\ late = 0
      /\ chip = Blank /\ stuck = FALSE
  BY DelaysAssumption DEF SaveInit, NoMarker
<1>2. /\ chip \in Chips
      /\ chip.ram = 0
  BY <1>1, BlankTyped
<1>3. /\ files \in [Names -> Siblings]
      /\ \A f \in Names : files[f].dest = Absent /\ files[f].bak = Absent
  BY <1>1, TornTyped DEF Siblings
<1>4. Types
  <2>1. marker \in -3..MaxWrites /\ writes \in 0..MaxWrites /\ losses \in Nat /\ late \in Nat
    BY <1>1, LimitsAssumption
  <2>2. /\ calls \in Seq(Calls) /\ running \in BOOLEAN /\ autosave \in BOOLEAN
        /\ stuck \in BOOLEAN
    BY <1>1, ShortPlans DEF Plan
  <2>3. \A f \in Names : files[f].dest # Torn /\ files[f].bak # Torn
    BY <1>3, TornTyped
  <2> QED
    BY <1>1, <1>2, <1>3, <2>1, <2>2, <2>3 DEF Types, SaveTypeOK, Positions, Chips
<1>5. Contained
  BY <1>1, <1>2, <1>3 DEF Contained, Sound, Absent
<1>6. Planned /\ InFlight /\ Marked /\ NothingRolledBack /\ CleanMeansOnDisk
  BY <1>1, ShortPlans DEF Planned, InFlight, Marked, NothingRolledBack, NeverRolledBack, CleanMeansOnDisk,
                          Calling, Plan
<1>7. Timely
  BY <1>1, DelaysAssumption DEF Timely, Blank
<1> QED
  BY <1>4, <1>5, <1>6, <1>7 DEF SaveInv, Kept

LEMMA SaveStutters ==
    ASSUME SaveInv, UNCHANGED saveVars
    PROVE  SaveInv'
<1>1. UNCHANGED <<files, marker, calls, at, chip, running, autosave, writes, losses, late, stuck>>
  BY DEF saveVars
<1>2. /\ Types /\ Contained /\ Planned /\ InFlight /\ Marked
      /\ NothingRolledBack /\ CleanMeansOnDisk /\ Timely
  BY Parts
<1>3. Fingerprint' = Fingerprint /\ Fresh' = Fresh /\ File' = File
  BY <1>1 DEF Fingerprint, Fresh, File
<1>4. Types' /\ Contained'
  BY <1>1, <1>2 DEF Types, SaveTypeOK, Contained
<1>5. Planned' /\ InFlight'
  BY <1>1, <1>2, <1>3 DEF Planned, InFlight, Calling
<1>6. Marked'
  BY <1>1, <1>2, <1>3 DEF Marked, Gone, Continues, Fits, Calling
<1>7. NothingRolledBack' /\ CleanMeansOnDisk' /\ Timely'
  BY <1>1, <1>2, <1>3 DEF NothingRolledBack, NeverRolledBack, CleanMeansOnDisk, Timely
<1> QED
  BY <1>4, <1>5, <1>6, <1>7 DEF SaveInv, Kept

(* SaveInv holds of the battery file, the suspend state, the marker and the
   session through every step of SaveDurability, kills and failures included. *)
THEOREM SaveInvariant == SaveSpec => []SaveInv
<1>1. SaveInit => SaveInv
  BY SaveStarts
<1>2. SaveInv /\ [SaveNext]_saveVars => SaveInv'
  <2> SUFFICES ASSUME SaveInv, [SaveNext]_saveVars
               PROVE  SaveInv'
    OBVIOUS
  <2>1. CASE UNCHANGED saveVars
    BY <2>1, SaveStutters
  <2>2. CASE FlushClean \/ OpenTemp \/ WriteTemp \/ MoveOver \/ ClearParked \/ Park
             \/ MoveSecond \/ PutBack \/ DropParked
    BY <2>2, FlushCleanKeeps, OpenTempKeeps, WriteTempKeeps, MoveOverKeeps, ClearParkedKeeps,
       ParkKeeps, MoveSecondKeeps, PutBackKeeps, DropParkedKeeps
  <2>3. CASE Mark \/ Unmark \/ Terminate \/ Waited \/ Exit \/ Launch \/ Resume \/ Frame
             \/ Background \/ Quit \/ Kill
    BY <2>3, MarkKeeps, UnmarkKeeps, TerminateKeeps, WaitedKeeps, ExitKeeps, LaunchKeeps,
       ResumeKeeps, FrameKeeps, BackgroundKeeps, QuitKeeps, KillKeeps
  <2> QED
    BY <2>1, <2>2, <2>3, Zenon DEF SaveNext
<1> QED
  BY <1>1, <1>2, PTL DEF SaveSpec

(* Resuming never rolls a save back (runtime.cpp:4229): however many file
   operations failed and wherever sessions were killed, what runs is no older
   than the battery file, unless a parked battery could not be removed. *)
THEOREM SaveNotRolledBack == SaveSpec => []NothingRolledBack
<1>1. SaveInv => NothingRolledBack
  BY DEF SaveInv, Kept
<1> QED
  BY <1>1, SaveInvariant, PTL

(* A session whose save is not dirty holds what is in the battery file, so that
   ending without a flush (maybe_flush_battery leaves a clean chip alone) loses
   nothing; unless a parked battery could not be removed. *)
THEOREM SaveCleanIsOnDisk == SaveSpec => []CleanMeansOnDisk
<1>1. SaveInv => CleanMeansOnDisk
  BY DEF SaveInv, Kept
<1> QED
  BY <1>1, SaveInvariant, PTL

(* maybe_flush_battery attempts a write at the latest MaxDelay frames after the
   save became dirty, however often the game writes. *)
THEOREM SaveFlushedInTime == SaveSpec => []FlushedInTime
<1>1. SaveInv => FlushedInTime
  BY DEF SaveInv, Timely, FlushedInTime
<1> QED
  BY <1>1, SaveInvariant, PTL

(* The files, the marker, the pending calls and the chip keep their types, and
   no half-written file is ever in place or parked. *)
THEOREM SaveTypes == SaveSpec => []SaveTypeOK
<1>1. SaveInv => SaveTypeOK
  BY DEF SaveInv, Types
<1> QED
  BY <1>1, SaveInvariant, PTL

-----------------------------------------------------------------------------
(* One replacement.                                                          *)
LEMMA ReplacementSteps ==
    ASSUME SaveInv,
           MoveOver \/ ClearParked \/ Park \/ MoveSecond \/ PutBack \/ DropParked
    PROVE  LosesNothing
<1>1. Calling({"flush", "suspend"})
  BY DEF MoveOver, ClearParked, Park, MoveSecond, PutBack, DropParked
<1>2. File \in Names /\ files \in [Names -> Siblings] /\ files[File] \in Siblings
  BY <1>1, Replacing
<1>3. at \in {"move", "second"} => files[File].tmp = Fresh /\ Fresh # Absent
  BY <1>1, Parts, FreshTyped DEF InFlight
<1>4. CASE MoveOver
  BY <1>2, <1>3, <1>4 DEF MoveOver, LosesNothing, Siblings
<1>5. CASE ClearParked
  BY <1>2, <1>5 DEF ClearParked, LosesNothing, Siblings
<1>6. CASE Park
  BY <1>2, <1>6 DEF Park, LosesNothing, Siblings
<1>7. CASE MoveSecond
  BY <1>2, <1>3, <1>7 DEF MoveSecond, LosesNothing, Siblings
<1>8. CASE PutBack
  BY <1>2, <1>8 DEF PutBack, LosesNothing, Siblings
<1>9. CASE DropParked
  BY <1>2, <1>9 DEF DropParked, LosesNothing, Siblings
<1> QED
  BY <1>4, <1>5, <1>6, <1>7, <1>8, <1>9

(* replace_file_preserving keeps the old contents in place or parked until the
   new ones are in place, and the new ones in the temporary until then,
   whichever of its renames are refused. *)
THEOREM SaveReplaceLosesNothing == SaveSpec => ReplaceLosesNothing
<1>1. SaveInv /\ [SaveNext]_saveVars => [LosesNothing]_saveVars
  <2> SUFFICES ASSUME SaveInv, SaveNext
               PROVE  LosesNothing
    BY DEF saveVars
  <2>1. CASE MoveOver \/ ClearParked \/ Park \/ MoveSecond \/ PutBack \/ DropParked
    BY <2>1, ReplacementSteps
  <2>2. CASE FlushClean \/ Mark \/ Unmark \/ Terminate \/ Waited \/ Launch \/ Resume
             \/ Frame \/ Background \/ Quit
    <3>1. UNCHANGED files
      BY <2>2, Zenon DEF FlushClean, Mark, Unmark, Terminate, Waited, Launch, Resume, Frame,
                  Background, Quit, durable
    <3> QED
      BY <3>1 DEF LosesNothing
  <2>3. CASE OpenTemp \/ WriteTemp \/ Exit \/ Kill
    BY <2>3 DEF OpenTemp, WriteTemp, Exit, Kill, LosesNothing
  <2> QED
    BY <2>1, <2>2, <2>3, Zenon DEF SaveNext
<1> QED
  BY <1>1, SaveInvariant, PTL DEF SaveSpec, ReplaceLosesNothing

-----------------------------------------------------------------------------
(* The crash guard, while nothing has failed.                                *)

(* The marker will be written, or taken away, from the i-th call on. *)
FixFrom(s, i) == \E j \in i..Len(s) : s[j] \in {"mark", "unmark"}

(* A save is flushed before the session may end, and the marker is put right
   after every flush that changes the battery file; a call that plans anew is
   the last of its plan. *)
Settled(s, dirty) ==
    /\ \A i \in 1..Len(s) : s[i] = "flush" => ~dirty \/ FixFrom(s, i)
    /\ \A i \in 1..Len(s) : s[i] \in {"wait", "terminate"} =>
          ~dirty \/ \E j \in 1..(i - 1) : s[j] = "flush"
    /\ \A i \in 1..Len(s) : s[i] \in {"wait", "terminate", "exit", "resume"} => i = Len(s)

(* What CrashGuardHolds asks of the files. *)
Guards == marker # NoMarker => Resumable /\ files["state"].dest.ram >= Fingerprint

Guarded ==
    autosave /\ losses = 0 =>
        /\ at \in {"start", "write", "move"}
        /\ Settled(calls, chip.dirty)
        /\ ~FixFrom(calls, 1) => Guards
        /\ ~chip.ran => ~chip.dirty

(* After a failure there is nothing to be kept. *)
LEMMA LostGuard ==
    ASSUME Types, Lose
    PROVE  Guarded'
BY DEF Types, Lose, Guarded

(* The rest of a plan: the save is no dirtier, and clean after a flush. *)
LEMMA SettledTail ==
    ASSUME NEW s \in Seq(Calls), s # <<>>, NEW d \in BOOLEAN, NEW e \in BOOLEAN,
           Settled(s, d), e => d /\ Head(s) # "flush"
    PROVE  /\ Settled(Tail(s), e)
           /\ FixFrom(s, 1) => FixFrom(Tail(s), 1) \/ Head(s) \in {"mark", "unmark"}
<1> DEFINE t == Tail(s)
<1>1. /\ Len(s) \in Nat /\ Len(s) >= 1 /\ Len(t) = Len(s) - 1
      /\ \A i \in 1..Len(t) : i + 1 \in 1..Len(s) /\ t[i] = s[i + 1]
      /\ \A j \in 2..Len(s) : j - 1 \in 1..Len(t) /\ t[j - 1] = s[j]
      /\ Head(s) = s[1]
  OBVIOUS
<1> HIDE DEF t
<1>2. ASSUME NEW i \in 1..Len(t), t[i] = "flush", e
      PROVE  FixFrom(t, i)
  <2>1. PICK j \in (i + 1)..Len(s) : s[j] \in {"mark", "unmark"}
    BY <1>1, <1>2 DEF Settled, FixFrom
  <2>2. j - 1 \in i..Len(t) /\ t[j - 1] = s[j]
    BY <1>1, <2>1
  <2> QED
    BY <2>1, <2>2 DEF FixFrom
<1>3. ASSUME NEW i \in 1..Len(t), t[i] \in {"wait", "terminate"}, e
      PROVE  \E j \in 1..(i - 1) : t[j] = "flush"
  <2>1. PICK j \in 1..i : s[j] = "flush"
    BY <1>1, <1>3 DEF Settled
  <2>2. j # 1
    BY <1>1, <1>3, <2>1
  <2>3. i \in Int /\ i + 1 <= Len(s)
    BY <1>1
  <2>4. j \in 2..Len(s) /\ j - 1 \in 1..(i - 1)
    BY <1>1, <2>1, <2>2, <2>3
  <2>5. t[j - 1] = s[j]
    BY <1>1, <2>4
  <2> QED
    BY <2>1, <2>4, <2>5
<1>4. ASSUME NEW i \in 1..Len(t), t[i] \in {"wait", "terminate", "exit", "resume"}
      PROVE  i = Len(t)
  BY <1>1, <1>4 DEF Settled
<1>5. ASSUME FixFrom(s, 1), Head(s) \notin {"mark", "unmark"}
      PROVE  FixFrom(t, 1)
  <2>1. PICK j \in 1..Len(s) : s[j] \in {"mark", "unmark"}
    BY <1>5 DEF FixFrom
  <2>2. j - 1 \in 1..Len(t) /\ t[j - 1] = s[j]
    BY <1>1, <1>5, <2>1
  <2> QED
    BY <2>1, <2>2 DEF FixFrom
<1> QED
  BY <1>2, <1>3, <1>4, <1>5 DEF Settled, t

(* A plan that puts the marker right at its end. *)
Refreshes(s) ==
    /\ s \in Seq(Calls) /\ s # <<>> /\ s[Len(s)] \in {"mark", "unmark"}
    /\ \A i \in 1..Len(s) : s[i] \notin {"wait", "terminate", "exit", "resume"}

LEMMA RefreshesSettled ==
    ASSUME NEW s, Refreshes(s), NEW d \in BOOLEAN
    PROVE  Settled(s, d) /\ FixFrom(s, 1)
<1>1. Len(s) \in Nat /\ Len(s) >= 1
  BY DEF Refreshes
<1> QED
  BY <1>1 DEF Refreshes, Settled, FixFrom

LEMMA RefreshesFollow ==
    ASSUME NEW s, Refreshes(s) \/ s = <<"flush">>, NEW t, Refreshes(t)
    PROVE  Refreshes(s \o t)
<1> DEFINE st == s \o t
<1>1. /\ s \in Seq(Calls) /\ t \in Seq(Calls) /\ Len(s) \in Nat /\ Len(t) \in Nat /\ Len(t) >= 1
      /\ \A i \in 1..Len(s) : s[i] \notin {"wait", "terminate", "exit", "resume"}
  <2>1. ASSUME NEW u, Refreshes(u)
        PROVE  /\ u \in Seq(Calls) /\ Len(u) \in Nat /\ Len(u) >= 1
               /\ \A i \in 1..Len(u) : u[i] \notin {"wait", "terminate", "exit", "resume"}
    BY <2>1 DEF Refreshes
  <2>2. CASE s = <<"flush">>
    <3>1. s \in Seq(Calls) /\ Len(s) = 1 /\ s[1] = "flush"
      BY <2>2 DEF Calls
    <3> QED
      BY <2>1, <3>1
  <2> QED
    BY <2>1, <2>2
<1>2. /\ st \in Seq(Calls) /\ Len(st) = Len(s) + Len(t)
      /\ \A i \in 1..Len(s) : st[i] = s[i]
      /\ \A i \in 1..Len(t) : st[i + Len(s)] = t[i]
  BY <1>1
<1> HIDE DEF st
<1>3. st[Len(st)] = t[Len(t)] /\ st # <<>>
  <2>1. Len(t) \in 1..Len(t)
    BY <1>1
  <2>2. st[Len(t) + Len(s)] = t[Len(t)]
    BY <1>2, <2>1
  <2> QED
    BY <1>1, <1>2, <2>2
<1>4. ASSUME NEW i \in 1..Len(st)
      PROVE  st[i] \notin {"wait", "terminate", "exit", "resume"}
  <2>1. CASE i <= Len(s)
    BY <1>1, <1>2, <2>1
  <2>2. CASE i > Len(s)
    <3>1. i - Len(s) \in 1..Len(t)
      BY <1>1, <1>2, <2>2
    <3>2. st[(i - Len(s)) + Len(s)] = t[i - Len(s)]
      BY <1>2, <3>1
    <3> QED
      BY <1>1, <1>2, <3>1, <3>2 DEF Refreshes
  <2> QED
    BY <1>1, <1>2, <2>1, <2>2
<1> QED
  BY <1>2, <1>3, <1>4 DEF Refreshes, st

LEMMA SuspendRefreshes ==
    Refreshes(Suspend) /\ Refreshes(<<"unmark">>)
<1>1. /\ Suspend \in Seq(Calls) /\ Len(Suspend) = 2
      /\ Suspend[1] = "suspend" /\ Suspend[2] = "mark"
  BY DEF Suspend, Calls
<1>2. /\ <<"unmark">> \in Seq(Calls) /\ Len(<<"unmark">>) = 1 /\ <<"unmark">>[1] = "unmark"
  BY DEF Calls
<1> QED
  BY <1>1, <1>2 DEF Refreshes

(* Short plans. *)
LEMMA ShortSettled ==
    /\ \A d \in BOOLEAN : Settled(<<>>, d)
    /\ \A c \in {"wait", "terminate", "exit", "resume"} : \A e \in BOOLEAN :
          (e => c \in {"exit", "resume"}) => Settled(<<c>>, e) /\ ~FixFrom(<<c>>, 1)
    /\ ~FixFrom(<<>>, 1)
<1>1. ASSUME NEW c \in {"wait", "terminate", "exit", "resume"}, NEW e \in BOOLEAN,
             e => c \in {"exit", "resume"}
      PROVE  Settled(<<c>>, e) /\ ~FixFrom(<<c>>, 1)
  <2>1. Len(<<c>>) = 1 /\ <<c>>[1] = c
    OBVIOUS
  <2>2. \A i \in 1..1 : i = 1
    OBVIOUS
  <2> QED
    BY <1>1, <2>1, <2>2 DEF Settled, FixFrom
<1>2. \A d \in BOOLEAN : Settled(<<>>, d) /\ ~FixFrom(<<>>, 1)
  BY DEF Settled, FixFrom
<1> QED
  BY <1>1, <1>2

(* flush, what refreshes the guard, and the call that plans anew. *)
LEMMA ExitSettled ==
    ASSUME NEW s, s = <<>> \/ Refreshes(s), NEW d \in BOOLEAN, d => s # <<>>,
           NEW end \in {"wait", "terminate", "exit"}
    PROVE  LET plan == (<<"flush">> \o s) \o <<end>>
           IN /\ Settled(plan, d)
              /\ s # <<>> => FixFrom(plan, 1)
              /\ s = <<>> => ~FixFrom(plan, 1)
<1> DEFINE plan == (<<"flush">> \o s) \o <<end>>
<1>1. s \in Seq(Calls) /\ Len(s) \in Nat /\ (s # <<>> => Len(s) >= 1)
  <2>1. CASE s = <<>>
    BY <2>1
  <2>2. CASE Refreshes(s)
    BY <2>2 DEF Refreshes
  <2> QED
    BY <2>1, <2>2
<1>2. \A i \in 1..Len(s) : s[i] \notin {"wait", "terminate", "exit", "resume"}
  <2>1. CASE s = <<>>
    BY <2>1
  <2>2. CASE Refreshes(s)
    BY <2>2 DEF Refreshes
  <2> QED
    BY <2>1, <2>2
<1>3. /\ Len(plan) = Len(s) + 2 /\ plan[1] = "flush" /\ plan[Len(s) + 2] = end
      /\ \A i \in 1..Len(s) : plan[i + 1] = s[i]
  BY <1>1 DEF Calls
<1> HIDE DEF plan
<1>4. \A i \in 1..Len(plan) : \/ i = 1 \/ i = Len(plan)
                              \/ i - 1 \in 1..Len(s) /\ plan[i] = s[i - 1]
  <2> TAKE i \in 1..Len(plan)
  <2>1. CASE i # 1 /\ i # Len(plan)
    <3>1. i - 1 \in 1..Len(s)
      BY <1>1, <1>3, <2>1
    <3>2. plan[(i - 1) + 1] = s[i - 1]
      BY <1>3, <3>1
    <3> QED
      BY <3>1, <3>2
  <2> QED
    BY <2>1
<1>5. ASSUME s # <<>>
      PROVE  Len(s) + 1 \in 2..Len(plan) /\ plan[Len(s) + 1] \in {"mark", "unmark"}
  BY <1>1, <1>3, <1>5 DEF Refreshes
<1>6. ASSUME NEW i \in 1..Len(plan), plan[i] = "flush", d
      PROVE  FixFrom(plan, i)
  <2>1. s # <<>> /\ i <= Len(s) + 1
    BY <1>1, <1>3, <1>6
  <2>2. Len(s) + 1 \in i..Len(plan)
    BY <1>1, <1>3, <2>1
  <2> QED
    BY <1>5, <2>1, <2>2 DEF FixFrom
<1>7. ASSUME NEW i \in 1..Len(plan), plan[i] \in {"wait", "terminate", "exit", "resume"}
      PROVE  i = Len(plan)
  BY <1>2, <1>3, <1>4, <1>7
<1>8. Settled(plan, d)
  <2>1. \A i \in 1..Len(plan) : plan[i] \in {"wait", "terminate"} =>
           1 \in 1..(i - 1) /\ plan[1] = "flush"
    BY <1>1, <1>3, <1>7
  <2> QED
    BY <1>6, <1>7, <2>1 DEF Settled
<1>9. ASSUME s = <<>>
      PROVE  ~FixFrom(plan, 1)
  <2>1. Len(s) = 0
    BY <1>9
  <2>2. \A i \in 1..Len(plan) : plan[i] \in {"flush", end}
    BY <1>3, <2>1
  <2> QED
    BY <2>2 DEF FixFrom
<1>10. ASSUME s # <<>>
       PROVE  FixFrom(plan, 1)
  <2>1. Len(s) + 1 \in 1..Len(plan)
    BY <1>5, <1>10
  <2> QED
    BY <1>5, <1>10, <2>1 DEF FixFrom
<1> QED
  BY <1>8, <1>9, <1>10 DEF plan

(* A step that leaves the plan, the chip, the marker and the files in place. *)
LEMMA StillGuarded ==
    ASSUME Guarded, losses \in Nat, UNCHANGED <<marker, calls, chip, autosave, losses>>,
           \A f \in Names : files'[f].dest = files[f].dest,
           at \in {"start", "write", "move"} => at' \in {"start", "write", "move"}
    PROVE  Guarded'
<1>1. Guards' <=> Guards
  BY DEF Guards, Resumable, Fingerprint, Names
<1> QED
  BY <1>1 DEF Guarded

LEMMA ReplacingGuarded ==
    ASSUME SaveInv, Guarded,
           OpenTemp \/ WriteTemp \/ ClearParked \/ Park \/ MoveSecond \/ PutBack \/ DropParked
    PROVE  Guarded'
<1> USE DEF Names
<1>0. Types /\ losses \in Nat
  BY Parts DEF Types
<1>1. CASE Lose
  BY <1>0, <1>1, LostGuard
<1>2. CASE OpenTemp /\ ~Lose
  <2>1. /\ UNCHANGED <<marker, calls, chip, autosave, losses>> /\ Calling({"flush", "suspend"})
        /\ files' = [files EXCEPT ![File].tmp = Torn] /\ at' = "write"
    BY <1>2 DEF OpenTemp
  <2>2. \A f \in Names : files'[f].dest = files[f].dest
    BY <1>0, <2>1, NewTmp, TornTyped, Replacing
  <2> QED
    BY <1>0, <2>1, <2>2, StillGuarded
<1>3. CASE WriteTemp /\ ~Lose
  <2>1. /\ UNCHANGED <<marker, calls, chip, autosave, losses>> /\ Calling({"flush", "suspend"})
        /\ files' = [files EXCEPT ![File].tmp = Fresh] /\ at' = "move"
    BY <1>3 DEF WriteTemp
  <2>2. \A f \in Names : files'[f].dest = files[f].dest
    BY <1>0, <2>1, NewTmp, FreshTyped, Replacing
  <2> QED
    BY <1>0, <2>1, <2>2, StillGuarded
<1>4. CASE (ClearParked \/ Park \/ MoveSecond \/ PutBack \/ DropParked) /\ ~Lose
  <2>1. at \notin {"start", "write", "move"} /\ UNCHANGED <<autosave, losses>>
    BY <1>4 DEF ClearParked, Park, MoveSecond, PutBack, DropParked
  <2> QED
    BY <2>1 DEF Guarded
<1> QED
  BY <1>1, <1>2, <1>3, <1>4

(* A new save is in place, and its guard will be; or a new state is, and its
   marker will be. *)
LEMMA MoveOverGuarded ==
    ASSUME SaveInv, Guarded, MoveOver
    PROVE  Guarded'
<1> USE DEF Names
<1>0. /\ Types /\ Planned /\ InFlight /\ losses \in Nat /\ calls \in Seq(Calls)
      /\ chip \in Chips
  BY Parts DEF Types, SaveTypeOK, Chips
<1>1. CASE Lose
  BY <1>0, <1>1, LostGuard
<1>2. CASE ~Lose
  <2>1. /\ Calling({"flush", "suspend"}) /\ at = "move" /\ Written(File)
        /\ UNCHANGED <<marker, autosave, losses>> /\ calls # <<>>
        /\ at' = "start" /\ calls' = Tail(calls)
    BY <1>2 DEF MoveOver, Written, Returned, Calling
  <2> SUFFICES ASSUME autosave, losses = 0
               PROVE  /\ Settled(calls', chip'.dirty) /\ FixFrom(calls', 1)
                      /\ ~chip'.ran => ~chip'.dirty
    BY <2>1 DEF Guarded
  <2>2. Settled(calls, chip.dirty) /\ (~chip.ran => ~chip.dirty)
    BY DEF Guarded
  <2>3. CASE Head(calls) = "flush"
    <3>1. File = "save" /\ chip.dirty /\ chip' = [chip EXCEPT !.dirty = FALSE]
      BY <1>0, <2>1, <2>3 DEF File, InFlight, Calling, Written
    <3>2. chip'.dirty = FALSE
      BY <1>0, <3>1 DEF Chips
    <3>3. Len(calls) >= 1 /\ calls[1] = "flush"
      BY <1>0, <2>1, <2>3
    <3>4. FixFrom(calls, 1)
      BY <1>0, <2>2, <3>1, <3>3 DEF Settled
    <3>5. chip.dirty \in BOOLEAN
      BY <1>0 DEF Chips
    <3> QED
      BY <1>0, <2>1, <2>2, <2>3, <3>2, <3>4, <3>5, SettledTail
  <2>4. CASE Head(calls) = "suspend"
    <3>1. File = "state" /\ chip' = [chip EXCEPT !.suspended = TRUE]
      BY <2>1, <2>4 DEF File, Written
    <3>2. chip'.dirty = chip.dirty /\ chip'.ran = chip.ran /\ chip.dirty \in BOOLEAN
      BY <1>0, <3>1 DEF Chips
    <3>3. Len(calls) >= 2 /\ calls[2] = "mark"
      BY <1>0, <2>1, <2>4 DEF Planned, Shape
    <3>4. FixFrom(calls, 1)
      BY <1>0, <3>3 DEF FixFrom
    <3> QED
      BY <1>0, <2>1, <2>2, <2>4, <3>2, <3>4, SettledTail
  <2> QED
    BY <2>1, <2>3, <2>4 DEF Calling
<1> QED
  BY <1>1, <1>2

LEMMA FlushCleanGuarded ==
    ASSUME SaveInv, Guarded, FlushClean
    PROVE  Guarded'
<1>0. Types /\ losses \in Nat /\ calls \in Seq(Calls) /\ chip.dirty \in BOOLEAN
  BY Parts DEF Types, SaveTypeOK
<1>1. /\ UNCHANGED <<files, marker, chip, autosave, losses>> /\ at' = "start"
      /\ calls' = Tail(calls) /\ calls # <<>> /\ Head(calls) = "flush" /\ chip.dirty = FALSE
  BY <1>0 DEF FlushClean, Calling, Returned, durable
<1>2. Guards' <=> Guards
  BY <1>1 DEF Guards, Resumable, Fingerprint
<1> SUFFICES ASSUME autosave, losses = 0
             PROVE  Settled(calls', chip'.dirty) /\ (~FixFrom(calls', 1) => Guards')
  BY <1>1 DEF Guarded
<1>3. Settled(calls, chip.dirty) /\ (~FixFrom(calls, 1) => Guards)
  BY DEF Guarded
<1> QED
  BY <1>0, <1>1, <1>2, <1>3, SettledTail

(* The marker names the battery beside the state that was just written. *)
LEMMA MarkGuarded ==
    ASSUME SaveInv, Guarded, Mark \/ Unmark
    PROVE  Guarded'
<1>0. /\ Types /\ losses \in Nat /\ calls \in Seq(Calls) /\ chip.dirty \in BOOLEAN
      /\ Planned /\ NothingRolledBack /\ Contained
  BY Parts DEF Types, SaveTypeOK
<1>1. /\ UNCHANGED <<files, chip, running, autosave>> /\ Calling({"mark", "unmark"})
      /\ calls # <<>> /\ Head(calls) \in {"mark", "unmark"} /\ running
  BY DEF Mark, Unmark, Calling
<1>2. CASE Lose
  BY <1>0, <1>2, LostGuard
<1>3. CASE Mark /\ marker' = TornMarker /\ at' = "write" /\ UNCHANGED <<calls, losses>>
  <2>1. Len(calls) >= 1 /\ calls[1] \in {"mark", "unmark"}
    BY <1>0, <1>1
  <2>2. FixFrom(calls, 1)
    BY <1>0, <2>1 DEF FixFrom
  <2> QED
    BY <1>1, <1>3, <2>2 DEF Guarded
<1>4. CASE Returned /\ UNCHANGED losses /\ (losses = 0 => Guards')
  <2>1. at' = "start" /\ calls' = Tail(calls)
    BY <1>4 DEF Returned
  <2> SUFFICES ASSUME autosave, losses = 0
               PROVE  Settled(calls', chip'.dirty)
    BY <1>1, <1>4, <2>1 DEF Guarded
  <2>2. Settled(calls, chip.dirty)
    BY DEF Guarded
  <2> QED
    BY <1>0, <1>1, <2>1, <2>2, SettledTail
<1>5. CASE Mark /\ marker' = Fingerprint /\ Returned /\ UNCHANGED losses
  <2> SUFFICES ASSUME losses = 0
               PROVE  Guards'
    BY <1>4, <1>5
  <2>0. ~stuck
    BY <1>0 DEF Types
  <2>1. files["state"].dest = [ram |-> chip.ram, dirty |-> chip.dirty] /\ chip.ram >= Fingerprint
    BY <1>0, <1>1, <1>5, <2>0 DEF Planned, NothingRolledBack, NeverRolledBack, Mark
  <2>2. Fingerprint' = Fingerprint /\ Fingerprint >= -1
    BY <1>0, <1>1 DEF Fingerprint, Contained, Sound, Whole, Absent, Names, Types, SaveTypeOK,
                      Siblings, Contents
  <2>3. files["state"].dest # Absent
    BY <1>0, <2>1 DEF Absent, Types, SaveTypeOK
  <2>4. files' = files /\ marker' = Fingerprint
    BY <1>1, <1>5
  <2> QED
    BY <2>1, <2>2, <2>3, <2>4 DEF Guards, Resumable
<1>6. CASE Unmark /\ marker' = NoMarker /\ UNCHANGED losses
  BY <1>4, <1>6 DEF Unmark, Guards
<1> QED
  BY <1>2, <1>3, <1>5, <1>6 DEF Mark, Unmark

(* A new plan, with the files as they were. *)
LEMMA PlanGuarded ==
    ASSUME Guarded, losses \in Nat, UNCHANGED <<files, marker, autosave, losses>>,
           at' \in {"start", "write", "move"} \/ at' = at,
           autosave /\ losses = 0 => /\ Settled(calls', chip'.dirty)
                                     /\ ~FixFrom(calls', 1) => ~FixFrom(calls, 1)
                                     /\ ~chip'.ran => ~chip'.dirty
    PROVE  Guarded'
<1>1. Guards' <=> Guards
  BY DEF Guards, Resumable, Fingerprint
<1> QED
  BY <1>1 DEF Guarded

(* A call that plans anew is alone. *)
LEMMA LastCall ==
    ASSUME NEW s \in Seq(Calls), s # <<>>, NEW d \in BOOLEAN, Settled(s, d),
           Head(s) \in {"wait", "terminate", "exit", "resume"}
    PROVE  ~FixFrom(s, 1) /\ (Head(s) \in {"wait", "terminate"} => d = FALSE)
<1>1. Len(s) \in Nat /\ 1 \in 1..Len(s) /\ s[1] = Head(s)
  OBVIOUS
<1>2. 1 = Len(s)
  BY <1>1 DEF Settled
<1>3. ~FixFrom(s, 1)
  <2>1. \A j \in 1..1 : j = 1
    OBVIOUS
  <2>2. \A j \in 1..Len(s) : s[j] = Head(s)
    BY <1>1, <1>2, <2>1
  <2> QED
    BY <2>2 DEF FixFrom
<1>4. Head(s) \in {"wait", "terminate"} => d = FALSE
  <2>1. \A j : j \notin 1..(1 - 1)
    OBVIOUS
  <2> QED
    BY <1>1, <2>1 DEF Settled
<1> QED
  BY <1>3, <1>4

LEMMA TerminateGuarded ==
    ASSUME SaveInv, Guarded, Terminate
    PROVE  Guarded'
<1>0. Types /\ losses \in Nat /\ calls \in Seq(Calls) /\ chip.dirty \in BOOLEAN
  BY Parts DEF Types, SaveTypeOK
<1>1. /\ UNCHANGED <<files, marker, chip, running, autosave, losses>> /\ at' = "start"
      /\ calls # <<>> /\ Head(calls) = "terminate"
      /\ calls' = (<<"flush">> \o (IF chip.suspended \/ ~chip.ran THEN <<>> ELSE <<"unmark">>))
                  \o <<"exit">>
  BY DEF Terminate, Calling, durable
<1> SUFFICES ASSUME autosave, losses = 0
             PROVE  Settled(calls', chip'.dirty) /\ ~FixFrom(calls, 1) /\ (~chip.ran => ~chip.dirty)
  BY <1>0, <1>1, PlanGuarded
<1>2. Settled(calls, chip.dirty) /\ (~chip.ran => ~chip.dirty)
  BY DEF Guarded
<1>3. ~FixFrom(calls, 1) /\ chip.dirty = FALSE
  BY <1>0, <1>1, <1>2, LastCall
<1>4. Settled(calls', FALSE)
  <2>1. CASE chip.suspended \/ ~chip.ran
    BY <1>1, <2>1, ExitSettled
  <2>2. CASE ~(chip.suspended \/ ~chip.ran)
    BY <1>1, <2>2, ExitSettled, SuspendRefreshes
  <2> QED
    BY <2>1, <2>2
<1> QED
  BY <1>1, <1>2, <1>3, <1>4

LEMMA WaitedGuarded ==
    ASSUME SaveInv, Guarded, Waited
    PROVE  Guarded'
<1>0. Types /\ losses \in Nat /\ calls \in Seq(Calls) /\ chip.dirty \in BOOLEAN
  BY Parts DEF Types, SaveTypeOK
<1>1. /\ UNCHANGED <<files, marker, chip, running, autosave, losses>> /\ at' = "start"
      /\ calls # <<>> /\ Head(calls) = "wait"
      /\ calls' = <<"unmark">> \/ calls' = <<"terminate">>
  BY DEF Waited, Calling, durable
<1> SUFFICES ASSUME autosave, losses = 0
             PROVE  /\ Settled(calls', chip'.dirty) /\ ~FixFrom(calls, 1)
                    /\ ~chip.ran => ~chip.dirty
  BY <1>0, <1>1, PlanGuarded
<1>2. Settled(calls, chip.dirty) /\ (~chip.ran => ~chip.dirty)
  BY DEF Guarded
<1>3. ~FixFrom(calls, 1) /\ chip.dirty = FALSE
  BY <1>0, <1>1, <1>2, LastCall
<1>4. Settled(<<"unmark">>, FALSE) /\ Settled(<<"terminate">>, FALSE)
  BY SuspendRefreshes, RefreshesSettled, ShortSettled
<1> QED
  BY <1>1, <1>2, <1>3, <1>4

(* A session ends, or starts: what guards is all there is. *)
LEMMA ExitGuarded ==
    ASSUME SaveInv, Guarded, Exit \/ Kill
    PROVE  Guarded'
<1>0. Types /\ losses \in Nat /\ calls \in Seq(Calls)
  BY Parts DEF Types, SaveTypeOK
<1>1. CASE Kill
  BY <1>0, <1>1, LostGuard DEF Kill
<1>2. CASE Exit
  <2>1. /\ UNCHANGED <<files, marker, autosave, losses>> /\ at' = "start" /\ calls' = <<>>
        /\ calls # <<>> /\ Head(calls) = "exit" /\ chip' = Blank
    BY <1>2 DEF Exit, Calling, durable
  <2>2. chip'.dirty = FALSE
    BY <2>1 DEF Blank
  <2> SUFFICES ASSUME autosave, losses = 0
               PROVE  Settled(calls', chip'.dirty) /\ ~FixFrom(calls, 1)
    BY <1>0, <2>1, <2>2, PlanGuarded
  <2>3. Settled(calls, chip.dirty) /\ chip.dirty \in BOOLEAN
    BY <1>0 DEF Guarded, Types, SaveTypeOK
  <2>4. ~FixFrom(calls, 1)
    BY <1>0, <2>1, <2>3, LastCall
  <2> QED
    BY <2>1, <2>2, <2>4, ShortSettled
<1> QED
  BY <1>1, <1>2

LEMMA LaunchGuarded ==
    ASSUME SaveInv, Guarded, Launch
    PROVE  Guarded'
<1>0. Types /\ losses \in Nat
  BY Parts DEF Types
<1>1. /\ UNCHANGED <<files, marker, autosave, losses>> /\ at' = "start"
      /\ calls = <<>> /\ calls' = <<"resume">>
      /\ chip' = [Blank EXCEPT !.ram = IF files["save"].dest = Absent THEN 0
                                       ELSE files["save"].dest.ram]
  BY <1>0 DEF Launch, durable, Types
<1>2. chip'.dirty = FALSE
  BY <1>1 DEF Blank
<1>3. ~FixFrom(<<>>, 1) /\ Settled(<<"resume">>, FALSE)
  BY ShortSettled
<1> QED
  BY <1>0, <1>1, <1>2, <1>3, PlanGuarded

(* A state that is resumed takes the marker away at once. *)
LEMMA ResumeGuarded ==
    ASSUME SaveInv, Guarded, Resume
    PROVE  Guarded'
<1>0. Types /\ Contained /\ losses \in Nat /\ calls \in Seq(Calls) /\ chip \in Chips
  BY Parts DEF Types, SaveTypeOK, Chips
<1>1. /\ UNCHANGED <<files, marker, autosave>> /\ at' = "start"
      /\ calls # <<>> /\ Head(calls) = "resume"
  BY DEF Resume, Calling, durable
<1>2. CASE Lose
  BY <1>0, <1>2, LostGuard
<1>3. CASE Resumable /\ calls' = <<"unmark">> /\ UNCHANGED losses
           /\ chip' = [chip EXCEPT !.ram = files["state"].dest.ram,
                                   !.dirty = files["state"].dest.dirty, !.ran = TRUE]
  <2>1. files["state"].dest \in Contents
    BY <1>0 DEF Types, SaveTypeOK, Siblings, Names
  <2>2. chip'.dirty \in BOOLEAN /\ chip'.ran
    BY <1>0, <1>3, <2>1 DEF Chips, Contents
  <2>3. Settled(calls', chip'.dirty) /\ FixFrom(calls', 1)
    BY <1>3, <2>2, SuspendRefreshes, RefreshesSettled
  <2> QED
    BY <1>0, <1>1, <1>3, <2>2, <2>3, PlanGuarded
<1>4. CASE calls' = <<>> /\ UNCHANGED <<chip, losses>>
  <2> SUFFICES ASSUME autosave, losses = 0
               PROVE  /\ Settled(calls', chip'.dirty) /\ ~FixFrom(calls, 1)
                      /\ ~chip'.ran => ~chip'.dirty
    BY <1>0, <1>1, <1>4, PlanGuarded
  <2>1. Settled(calls, chip.dirty) /\ (~chip.ran => ~chip.dirty) /\ chip.dirty \in BOOLEAN
    BY <1>0 DEF Guarded, Chips
  <2>2. ~FixFrom(calls, 1)
    BY <1>0, <1>1, <2>1, LastCall
  <2> QED
    BY <1>4, <2>1, <2>2, ShortSettled
<1>5. \/ Resumable /\ calls' = <<"unmark">> /\ UNCHANGED losses
         /\ chip' = [chip EXCEPT !.ram = files["state"].dest.ram,
                                 !.dirty = files["state"].dest.dirty, !.ran = TRUE]
      \/ Lose
      \/ calls' = <<>> /\ UNCHANGED <<chip, losses>>
  BY Zenon DEF Resume
<1> QED
  BY <1>2, <1>3, <1>4, <1>5

LEMMA FrameGuarded ==
    ASSUME SaveInv, Guarded, Frame
    PROVE  Guarded'
<1>0. Types /\ losses \in Nat /\ chip \in Chips
  BY Parts DEF Types, SaveTypeOK, Chips
<1>1. /\ UNCHANGED <<files, marker, at, autosave, losses>> /\ calls = <<>>
  BY DEF Frame, Idle, durable
<1>2. PICK wrote \in IF writes < MaxWrites THEN BOOLEAN ELSE {FALSE}, due \in BOOLEAN :
         LET ranOn == [chip EXCEPT !.ran = TRUE, !.suspended = FALSE, !.dirty = @ \/ wrote,
                                   !.ram = IF wrote THEN writes + 1 ELSE @]
             c == Counted(ranOn, wrote)
         IN /\ calls' = (IF due THEN Suspend ELSE <<>>)
                        \o (IF FlushDue(c) THEN AfterFlush ELSE <<>>)
            /\ chip' = IF FlushDue(c) THEN [c EXCEPT !.quiet = 0, !.waiting = 0] ELSE c
  BY DEF Frame
<1>3. chip'.ran = TRUE /\ chip'.dirty \in BOOLEAN
  <2> DEFINE ranOn == [chip EXCEPT !.ran = TRUE, !.suspended = FALSE, !.dirty = @ \/ wrote,
                                   !.ram = IF wrote THEN writes + 1 ELSE @]
             c == Counted(ranOn, wrote)
  <2>1. chip' = IF FlushDue(c) THEN [c EXCEPT !.quiet = 0, !.waiting = 0] ELSE c
    BY <1>2, Zenon
  <2>2. /\ ranOn.ran = TRUE /\ ranOn.dirty \in BOOLEAN
        /\ DOMAIN ranOn = DOMAIN chip /\ DOMAIN chip = {"ram", "dirty", "pending", "quiet",
                                                         "waiting", "ran", "suspended"}
    <3>1. wrote \in BOOLEAN
      OBVIOUS
    <3> QED
      BY <1>0, <3>1 DEF Chips
  <2> HIDE DEF ranOn
  <2>3. /\ c.ran = TRUE /\ c.dirty = ranOn.dirty
        /\ [c EXCEPT !.quiet = 0, !.waiting = 0].ran = TRUE
        /\ [c EXCEPT !.quiet = 0, !.waiting = 0].dirty = ranOn.dirty
    BY <2>2 DEF Counted
  <2> HIDE DEF c
  <2> QED
    BY <2>1, <2>2, <2>3
<1> SUFFICES ASSUME autosave
             PROVE  Settled(calls', chip'.dirty) /\ ~FixFrom(calls, 1)
  BY <1>0, <1>1, <1>3, PlanGuarded
<1>4. Refreshes(Suspend) /\ Refreshes(AfterFlush) /\ Refreshes(Suspend \o AfterFlush)
  BY SuspendRefreshes, RefreshesFollow DEF AfterFlush
<1>5. /\ Suspend \in Seq(Calls) /\ AfterFlush \in Seq(Calls)
      /\ Suspend \o <<>> = Suspend /\ <<>> \o AfterFlush = AfterFlush
      /\ <<>> \o <<>> = <<>>
  <2>1. Suspend \in Seq(Calls) /\ AfterFlush \in Seq(Calls)
    BY <1>4 DEF Refreshes
  <2> QED
    BY <2>1
<1>6. calls' \in {<<>>, Suspend, AfterFlush, Suspend \o AfterFlush}
  BY <1>2, <1>5, Zenon
<1>7. Settled(calls', chip'.dirty)
  BY <1>3, <1>4, <1>6, RefreshesSettled, ShortSettled
<1> QED
  BY <1>1, <1>7, ShortSettled

LEMMA BackgroundGuarded ==
    ASSUME SaveInv, Guarded, Background
    PROVE  Guarded'
<1>0. Types /\ losses \in Nat /\ chip \in Chips
  BY Parts DEF Types, SaveTypeOK, Chips
<1>1. /\ UNCHANGED <<files, marker, at, autosave, losses>> /\ calls = <<>>
      /\ chip' = [chip EXCEPT !.suspended = FALSE]
  BY DEF Background, Idle, durable
<1>2. PICK end \in {"wait", "terminate"} :
         calls' = (<<"flush">> \o (IF chip.ran THEN Suspend ELSE <<>>)) \o <<end>>
  BY DEF Background
<1>3. chip'.dirty = chip.dirty /\ chip'.ran = chip.ran /\ chip.dirty \in BOOLEAN
  BY <1>0, <1>1 DEF Chips
<1> SUFFICES ASSUME autosave, losses = 0
             PROVE  /\ Settled(calls', chip'.dirty) /\ ~FixFrom(calls, 1)
                    /\ ~chip'.ran => ~chip'.dirty
  BY <1>0, <1>1, PlanGuarded
<1>4. ~chip.ran => ~chip.dirty
  BY DEF Guarded
<1>5. Settled(calls', chip.dirty)
  <2>1. CASE chip.ran
    <3>1. Suspend # <<>> /\ calls' = (<<"flush">> \o Suspend) \o <<end>>
      BY <1>2, <2>1, SuspendRefreshes DEF Refreshes
    <3> QED
      BY <1>3, <3>1, ExitSettled, SuspendRefreshes
  <2>2. CASE ~chip.ran
    BY <1>2, <1>3, <1>4, <2>2, ExitSettled
  <2> QED
    BY <2>1, <2>2
<1> QED
  BY <1>1, <1>3, <1>4, <1>5, ShortSettled

LEMMA QuitGuarded ==
    ASSUME SaveInv, Guarded, Quit
    PROVE  Guarded'
<1>0. Types /\ losses \in Nat /\ chip \in Chips
  BY Parts DEF Types, SaveTypeOK, Chips
<1>1. /\ UNCHANGED <<files, marker, at, chip, autosave, losses>> /\ calls = <<>>
      /\ calls' = <<"flush", "unmark", "exit">>
  BY DEF Quit, Idle, durable
<1>2. <<"flush", "unmark", "exit">> = (<<"flush">> \o <<"unmark">>) \o <<"exit">>
  OBVIOUS
<1>3. <<"unmark">> # <<>> /\ chip.dirty \in BOOLEAN
  BY <1>0, SuspendRefreshes DEF Refreshes, Chips
<1>4. Settled(calls', chip.dirty)
  BY <1>1, <1>2, <1>3, ExitSettled, SuspendRefreshes
<1>5. ~FixFrom(calls, 1)
  BY <1>1, ShortSettled
<1> QED
  BY <1>0, <1>1, <1>4, <1>5, PlanGuarded DEF Guarded

(* While nothing has failed, a session with autosave that has left a marker can
   be killed between any two frames: the marker names the battery file, and the
   state beside it is no older (autosave_now, runtime.cpp). *)
THEOREM SaveCrashGuard == SaveSpec => []CrashGuardHolds
<1>1. SaveInit => Guarded
  <2> SUFFICES ASSUME SaveInit
               PROVE  Guarded
    OBVIOUS
  <2>1. calls = <<>> /\ at = "start" /\ marker = NoMarker /\ chip.dirty = FALSE
    BY DEF SaveInit, Blank
  <2> QED
    BY <2>1, ShortSettled DEF Guarded, Guards
<1>2. SaveInv /\ Guarded /\ [SaveNext]_saveVars => Guarded'
  <2> SUFFICES ASSUME SaveInv, Guarded, [SaveNext]_saveVars
               PROVE  Guarded'
    OBVIOUS
  <2>1. CASE UNCHANGED saveVars
    BY <2>1, Parts, StillGuarded DEF saveVars, Types
  <2>2. CASE FlushClean \/ OpenTemp \/ WriteTemp \/ MoveOver \/ ClearParked \/ Park
             \/ MoveSecond \/ PutBack \/ DropParked
    BY <2>2, FlushCleanGuarded, ReplacingGuarded, MoveOverGuarded
  <2>3. CASE Mark \/ Unmark \/ Terminate \/ Waited \/ Exit \/ Launch \/ Resume \/ Frame
             \/ Background \/ Quit \/ Kill
    BY <2>3, MarkGuarded, TerminateGuarded, WaitedGuarded, ExitGuarded, LaunchGuarded,
       ResumeGuarded, FrameGuarded, BackgroundGuarded, QuitGuarded
  <2> QED
    BY <2>1, <2>2, <2>3, Zenon DEF SaveNext
<1>3. Guarded => CrashGuardHolds
  <2>1. calls = <<>> => ~FixFrom(calls, 1)
    BY ShortSettled
  <2> QED
    BY <2>1 DEF Guarded, Guards, CrashGuardHolds, Idle
<1> QED
  BY <1>1, <1>2, <1>3, SaveInvariant, PTL DEF SaveSpec


-----------------------------------------------------------------------------
(* The inductive invariant of the overlay loader.                            *)

Results == [key : RomKeys, ok : BOOLEAN]

OverlayTypes ==
    /\ game \in {"drain", "swap", "guest", "push", "notify", "wake", "join", "off"}
    /\ mode \in {"immediate", "boundary", "replay"}
    /\ worker \in {"lock", "test", "block", "sleep", "compile", "exited"}
    /\ missed \in Keys /\ item \in Keys /\ stop \in BOOLEAN
    /\ healed \cup inflight \cup failed \cup parked \cup pool \subseteq Keys
    /\ logged \subseteq Keys /\ recorded \subseteq Keys
    /\ work \in Seq(RomKeys) /\ ready \in Seq(Results) /\ readyPending = Len(ready)
    /\ game = "push" => missed \in RomKeys
    /\ worker = "compile" => item \in RomKeys

(* Where a key can be. *)
Pushed(k) == game = "push" /\ missed = k
Queued(k) == \E n \in DOMAIN work : work[n] = k
Compiled(k) == worker = "compile" /\ item = k
Finished(k) == \E n \in DOMAIN ready : ready[n].key = k

(* Each place holds a key once, two places do not share one, and together they
   hold what is in flight. *)
OncePerPlace ==
    /\ \A m, n \in DOMAIN work : work[m] = work[n] => m = n
    /\ \A m, n \in DOMAIN ready : ready[m].key = ready[n].key => m = n
OnePlace ==
    \A k \in Keys : /\ Pushed(k) => ~Queued(k) /\ ~Compiled(k) /\ ~Finished(k)
                    /\ Queued(k) => ~Compiled(k) /\ ~Finished(k)
                    /\ Compiled(k) => ~Finished(k)
InSomePlace ==
    \A k \in Keys : k \in inflight <=> Pushed(k) \/ Queued(k) \/ Compiled(k) \/ Finished(k)

OverlayInv ==
    /\ OverlayTypes /\ OncePerPlace /\ OnePlace /\ InSomePlace /\ CaptureLogsResults

-----------------------------------------------------------------------------
(* Facts about the data. *)

LEMMA RomKeysAreKeys == RomKeys \subseteq Keys
BY DEF Keys

LEMMA QueueEnds ==
    ASSUME NEW set, NEW s \in Seq(set)
    PROVE  /\ DOMAIN s = 1 .. Len(s) /\ Len(s) \in Nat
           /\ \A n \in DOMAIN s : s[n] \in set
           /\ \A x \in set : /\ Append(s, x) \in Seq(set) /\ Len(Append(s, x)) = Len(s) + 1
                             /\ DOMAIN Append(s, x) = 1 .. Len(s) + 1
                             /\ Append(s, x)[Len(s) + 1] = x
                             /\ \A n \in 1 .. Len(s) : Append(s, x)[n] = s[n]
OBVIOUS

LEMMA QueueTail ==
    ASSUME NEW set, NEW s \in Seq(set), s # <<>>
    PROVE  /\ Tail(s) \in Seq(set) /\ Len(s) \in Nat /\ Len(s) >= 1
           /\ DOMAIN Tail(s) = 1 .. Len(s) - 1 /\ Head(s) = s[1] /\ Head(s) \in set
           /\ \A n \in 1 .. Len(s) - 1 : Tail(s)[n] = s[n + 1]
OBVIOUS

LEMMA Typed ==
    ASSUME OverlayInv
    PROVE  /\ DOMAIN work = 1 .. Len(work) /\ Len(work) \in Nat
           /\ DOMAIN ready = 1 .. Len(ready) /\ Len(ready) \in Nat
           /\ \A n \in DOMAIN work : work[n] \in RomKeys
           /\ \A n \in DOMAIN ready : ready[n] \in Results /\ ready[n].key \in RomKeys
<1>1. \A result \in Results : result.key \in RomKeys
  BY DEF Results
<1> QED BY <1>1, QueueEnds DEF OverlayInv, OverlayTypes

-----------------------------------------------------------------------------
(* What a step that moves no key keeps. *)

LEMMA PlacesStay ==
    ASSUME OverlayInv, inflight' = inflight, work' = work, ready' = ready,
           game = "push" <=> game' = "push", game = "push" => missed' = missed,
           worker = "compile" <=> worker' = "compile", worker = "compile" => item' = item
    PROVE  OncePerPlace' /\ OnePlace' /\ InSomePlace'
<1>1. \A k \in Keys : /\ Pushed(k)' <=> Pushed(k)
                      /\ Queued(k)' <=> Queued(k)
                      /\ Compiled(k)' <=> Compiled(k)
                      /\ Finished(k)' <=> Finished(k)
  <2> TAKE k \in Keys
  <2>1. Pushed(k)' <=> Pushed(k)
    BY Zenon DEF Pushed
  <2>2. Compiled(k)' <=> Compiled(k)
    BY Zenon DEF Compiled
  <2>3. (Queued(k)' <=> Queued(k)) /\ (Finished(k)' <=> Finished(k))
    BY DEF Queued, Finished
  <2> QED BY <2>1, <2>2, <2>3
<1>2. OncePerPlace'
  BY DEF OverlayInv, OncePerPlace
<1>3. OnePlace'
  BY <1>1 DEF OverlayInv, OnePlace
<1>4. InSomePlace'
  BY <1>1 DEF OverlayInv, InSomePlace
<1> QED BY <1>2, <1>3, <1>4

LEMMA NativeStays ==
    ASSUME OverlayInv, mode' = mode, healed' \cap RomKeys = healed \cap RomKeys,
           logged' = logged
    PROVE  CaptureLogsResults'
BY DEF OverlayInv, CaptureLogsResults

(* A step that changes no set of functions and no queue. *)
LEMMA ControlKeeps ==
    ASSUME OverlayInv, OverlayTypes', UNCHANGED <<mode, gameSets, queues, histories>>,
           game = "push" <=> game' = "push", game = "push" => missed' = missed,
           worker = "compile" <=> worker' = "compile", worker = "compile" => item' = item
    PROVE  OverlayInv'
<1>1. /\ inflight' = inflight /\ work' = work /\ ready' = ready /\ healed' = healed
      /\ mode' = mode /\ logged' = logged /\ recorded' = recorded
  BY DEF gameSets, queues, histories
<1>2. OncePerPlace' /\ OnePlace' /\ InSomePlace'
  BY <1>1, PlacesStay
<1>3. CaptureLogsResults'
  BY <1>1, NativeStays DEF OverlayInv
<1> QED BY <1>2, <1>3 DEF OverlayInv

(* A step of the game thread that changes sets of functions but hands nothing
   to the worker. *)
LEMMA SetsKeep ==
    ASSUME OverlayInv, OverlayTypes', inflight' = inflight,
           UNCHANGED <<queues, worker, item, missed>>, game = "guest", game' = "drain",
           CaptureLogsResults'
    PROVE  OverlayInv'
<1>1. work' = work /\ ready' = ready
  BY DEF queues
<1>2. OncePerPlace' /\ OnePlace' /\ InSomePlace'
  BY <1>1, PlacesStay
<1> QED BY <1>2 DEF OverlayInv

-----------------------------------------------------------------------------
(* Each step of the worker keeps the invariant. *)

LEMMA WorkerLockKeeps ==
    ASSUME OverlayInv, WorkerLock
    PROVE  OverlayInv'
<1>1. OverlayTypes'
  BY DEF WorkerLock, OverlayInv, OverlayTypes, gameSets, queues, histories
<1> QED BY <1>1, ControlKeeps DEF WorkerLock

LEMMA WorkerBlockKeeps ==
    ASSUME OverlayInv, WorkerBlock \/ SpuriousWakeup
    PROVE  OverlayInv'
<1>1. OverlayTypes'
  BY DEF WorkerBlock, SpuriousWakeup, OverlayInv, OverlayTypes, gameSets, queues, histories
<1> QED BY <1>1, ControlKeeps DEF WorkerBlock, SpuriousWakeup

LEMMA WorkerTestKeeps ==
    ASSUME OverlayInv, WorkerTest
    PROVE  OverlayInv'
<1>1. CASE worker' \in {"exited", "block"} /\ UNCHANGED <<work, item>>
  <2>1. OverlayTypes'
    BY <1>1 DEF WorkerTest, OverlayInv, OverlayTypes, gameSets, histories
  <2> QED BY <1>1, <2>1, ControlKeeps DEF WorkerTest, queues
<1>2. CASE work # <<>> /\ worker' = "compile" /\ item' = Head(work) /\ work' = Tail(work)
  <2>1. /\ UNCHANGED <<game, missed, mode, gameSets, ready, readyPending, stop, histories>>
        /\ worker = "test" /\ inflight' = inflight /\ healed' = healed
        /\ logged' = logged /\ recorded' = recorded
    BY DEF WorkerTest, gameSets, histories
  <2>2. work \in Seq(RomKeys)
    BY DEF OverlayInv, OverlayTypes
  <2>3. /\ work' \in Seq(RomKeys) /\ Len(work) \in Nat /\ Len(work) >= 1
        /\ DOMAIN work = 1 .. Len(work) /\ DOMAIN work' = 1 .. Len(work) - 1
        /\ item' = work[1] /\ item' \in RomKeys
        /\ \A n \in 1 .. Len(work) - 1 : work'[n] = work[n + 1]
    BY <1>2, <2>2, QueueTail, QueueEnds
  <2>4. OverlayTypes'
    BY <1>2, <2>1, <2>3, RomKeysAreKeys
    DEF OverlayInv, OverlayTypes, gameSets, histories
  <2>5. OncePerPlace'
    <3>1. \A m, n \in 1 .. Len(work) - 1 : work'[m] = work'[n] => m + 1 = n + 1
      BY <2>3 DEF OverlayInv, OncePerPlace
    <3> QED BY <2>1, <2>3, <3>1 DEF OverlayInv, OncePerPlace
  <2>6. \A k \in Keys :
           /\ Queued(k)' <=> Queued(k) /\ item' # k
           /\ Compiled(k)' <=> item' = k
           /\ item' = k => Queued(k)
           /\ ~Compiled(k) /\ (Pushed(k)' <=> Pushed(k)) /\ (Finished(k)' <=> Finished(k))
    <3> TAKE k \in Keys
    <3>1. Queued(k)' => Queued(k) /\ item' # k
      <4>1. ASSUME NEW n \in 1 .. Len(work) - 1, work'[n] = k
            PROVE  Queued(k) /\ item' # k
        <5>1. n + 1 \in DOMAIN work /\ work[n + 1] = k /\ 1 \in DOMAIN work /\ n + 1 # 1
          BY <2>3, <4>1
        <5> QED BY <2>3, <5>1 DEF Queued, OverlayInv, OncePerPlace
      <4> QED BY <2>3, <4>1 DEF Queued
    <3>2. Queued(k) /\ item' # k => Queued(k)'
      <4>1. ASSUME NEW n \in DOMAIN work, work[n] = k, item' # k
            PROVE  Queued(k)'
        <5>1. n # 1
          BY <2>3, <4>1
        <5>2. n - 1 \in 1 .. Len(work) - 1 /\ work'[n - 1] = work[(n - 1) + 1] /\ (n - 1) + 1 = n
          BY <2>3, <5>1
        <5> QED BY <2>3, <4>1, <5>2 DEF Queued
      <4> QED BY <4>1 DEF Queued
    <3>3. item' = k => Queued(k)
      <4>1. 1 \in DOMAIN work
        BY <2>3
      <4> QED BY <2>3, <4>1 DEF Queued
    <3> QED BY <1>2, <2>1, <3>1, <3>2, <3>3 DEF Compiled, Pushed, Finished
  <2>7. OnePlace' /\ InSomePlace'
    BY <2>1, <2>6 DEF OverlayInv, OnePlace, InSomePlace
  <2>8. CaptureLogsResults'
    BY <2>1, NativeStays DEF OverlayInv
  <2> QED BY <2>4, <2>5, <2>7, <2>8 DEF OverlayInv
<1> QED BY <1>1, <1>2 DEF WorkerTest

LEMMA WorkerPublishKeeps ==
    ASSUME OverlayInv, WorkerPublish
    PROVE  OverlayInv'
<1>1. PICK ok \in BOOLEAN : ready' = Append(ready, [key |-> item, ok |-> ok])
  BY DEF WorkerPublish
<1> DEFINE result == [key |-> item, ok |-> ok]
<1>2. /\ worker = "compile" /\ worker' = "lock" /\ readyPending' = readyPending + 1
      /\ UNCHANGED <<game, missed, mode, gameSets, work, item, stop, histories>>
      /\ inflight' = inflight /\ healed' = healed /\ logged' = logged /\ recorded' = recorded
  BY DEF WorkerPublish, gameSets, histories
<1>3. result \in Results /\ result.key = item
  BY <1>2 DEF OverlayInv, OverlayTypes, Results
<1> HIDE DEF result
<1>4. /\ ready' \in Seq(Results) /\ Len(ready') = Len(ready) + 1 /\ Len(ready) \in Nat
      /\ DOMAIN ready = 1 .. Len(ready) /\ DOMAIN ready' = 1 .. Len(ready) + 1
      /\ ready'[Len(ready) + 1] = result
      /\ \A n \in 1 .. Len(ready) : ready'[n] = ready[n]
  <2>1. ready \in Seq(Results) /\ ready' = Append(ready, result)
    BY <1>1 DEF OverlayInv, OverlayTypes, result
  <2> QED BY <1>3, <2>1, QueueEnds
<1>5. OverlayTypes'
  BY <1>2, <1>4 DEF OverlayInv, OverlayTypes, gameSets, histories
<1>6. Compiled(item) /\ item \in Keys
  BY <1>2 DEF Compiled, OverlayInv, OverlayTypes
<1>7. ~Finished(item)
  BY <1>6 DEF OverlayInv, OnePlace
<1>8. OncePerPlace'
  <2>1. \A n \in 1 .. Len(ready) : ready[n].key # item
    BY <1>4, <1>7 DEF Finished
  <2>2. \A m, n \in 1 .. Len(ready) + 1 : ready'[m].key = ready'[n].key => m = n
    <3>1. \A n \in 1 .. Len(ready) + 1 : n \in 1 .. Len(ready) \/ n = Len(ready) + 1
      BY <1>4
    <3>2. ready'[Len(ready) + 1].key = item
      BY <1>3, <1>4
    <3> QED BY <1>4, <2>1, <3>1, <3>2 DEF OverlayInv, OncePerPlace
  <2> QED BY <1>2, <1>4, <2>2 DEF OverlayInv, OncePerPlace
<1>9. \A k \in Keys : /\ Finished(k)' <=> Finished(k) \/ item = k
                      /\ ~Compiled(k)' /\ (Compiled(k) <=> item = k)
                      /\ (Pushed(k)' <=> Pushed(k)) /\ (Queued(k)' <=> Queued(k))
  <2> TAKE k \in Keys
  <2>1. \A n \in 1 .. Len(ready) + 1 : n \in 1 .. Len(ready) \/ n = Len(ready) + 1
    BY <1>4
  <2>2. Len(ready) + 1 \in DOMAIN ready' /\ ready'[Len(ready) + 1].key = item
    BY <1>3, <1>4
  <2>3. Finished(k)' <=> Finished(k) \/ item = k
    BY <1>4, <2>1, <2>2 DEF Finished
  <2> QED BY <1>2, <2>3 DEF Compiled, Pushed, Queued
<1>10. OnePlace' /\ InSomePlace'
  <2>1. OnePlace'
    BY <1>2, <1>9 DEF OverlayInv, OnePlace
  <2>2. InSomePlace'
    BY <1>2, <1>9 DEF OverlayInv, InSomePlace
  <2> QED BY <2>1, <2>2
<1>11. CaptureLogsResults'
  BY <1>2, NativeStays DEF OverlayInv
<1> QED BY <1>5, <1>8, <1>10, <1>11 DEF OverlayInv

-----------------------------------------------------------------------------
(* Each step of the game thread keeps it. *)

LEMMA DrainLookKeeps ==
    ASSUME OverlayInv, DrainLook \/ Step
    PROVE  OverlayInv'
<1>1. OverlayTypes'
  BY DEF DrainLook, Step, OverlayInv, OverlayTypes, gameSets, queues, histories
<1>2. /\ UNCHANGED <<missed, mode, gameSets, queues, worker, item, stop, histories>>
      /\ game # "push" /\ game' # "push"
  BY DEF DrainLook, Step
<1> QED BY <1>1, <1>2, ControlKeeps

LEMMA NotifyKeeps ==
    ASSUME OverlayInv, Notify \/ ShutdownNotify
    PROVE  OverlayInv'
<1>1. /\ UNCHANGED <<missed, mode, gameSets, queues, item, stop, histories>>
      /\ game # "push" /\ game' \in {"drain", "join"}
      /\ worker' = IF worker = "sleep" THEN "lock" ELSE worker
  BY DEF Notify, ShutdownNotify, Notified
<1>2. worker = "compile" <=> worker' = "compile"
  BY <1>1
<1>3. OverlayTypes'
  BY <1>1 DEF OverlayInv, OverlayTypes, gameSets, queues, histories
<1> QED BY <1>1, <1>2, <1>3, ControlKeeps

LEMMA ShutdownStoreKeeps ==
    ASSUME OverlayInv, ShutdownStore
    PROVE  OverlayInv'
<1>1. OverlayTypes'
  BY DEF ShutdownStore, OverlayInv, OverlayTypes, gameSets, queues, histories
<1> QED BY <1>1, ControlKeeps DEF ShutdownStore

LEMMA StutterKeeps ==
    ASSUME OverlayInv, UNCHANGED loaderVars
    PROVE  OverlayInv'
<1>1. /\ UNCHANGED <<mode, gameSets, queues, histories>>
      /\ game' = game /\ missed' = missed /\ worker' = worker /\ item' = item /\ stop' = stop
  BY DEF loaderVars
<1>2. OverlayTypes'
  BY <1>1 DEF OverlayInv, OverlayTypes, gameSets, queues, histories
<1> QED BY <1>1, <1>2, ControlKeeps

(* What the worker finished leaves flight; a capture parks it. *)
LEMMA FoldKeeps ==
    ASSUME OverlayInv, Fold, UNCHANGED <<missed, mode, pool, work, worker, item, stop, histories>>,
           game # "push", game' \in {"guest", "off"}
    PROVE  OverlayInv'
<1> DEFINE done == {ready[n].key : n \in DOMAIN ready}
           good == {ready[n].key : n \in {m \in DOMAIN ready : ready[m].ok}}
<1>1. /\ ready' = <<>> /\ readyPending' = 0 /\ inflight' = inflight \ done
      /\ failed' = failed \cup (done \ good)
      /\ mode = "boundary" => healed' = healed /\ parked' = parked \cup good
      /\ mode # "boundary" => healed' = healed \cup good /\ parked' = parked
      /\ logged' = logged /\ recorded' = recorded
  BY DEF Fold, histories
<1>2. good \subseteq done /\ done \subseteq RomKeys
  BY Typed
<1>3. \A k : k \in done <=> Finished(k)
  BY DEF Finished
<1> HIDE DEF good, done
<1>4. OverlayTypes'
  <2>1. healed' \cup inflight' \cup failed' \cup parked' \cup pool' \subseteq Keys
    <3>1. healed \cup inflight \cup failed \cup parked \cup pool \subseteq Keys
      BY DEF OverlayInv, OverlayTypes
    <3>2. pool' = pool /\ good \subseteq Keys /\ done \subseteq Keys
      BY <1>2, RomKeysAreKeys
    <3> QED BY <1>1, <3>1, <3>2
  <2>2. ready' \in Seq(Results) /\ readyPending' = Len(ready')
    BY <1>1
  <2>3. work' \in Seq(RomKeys) /\ game' # "push"
    BY DEF OverlayInv, OverlayTypes
  <2> QED BY <1>1, <2>1, <2>2, <2>3 DEF OverlayInv, OverlayTypes
<1>5. \A k \in Keys :
         /\ ~Finished(k)' /\ ~Pushed(k)' /\ ~Pushed(k)
         /\ (Queued(k)' <=> Queued(k)) /\ (Compiled(k)' <=> Compiled(k))
  BY <1>1 DEF Finished, Pushed, Queued, Compiled
<1>6. OncePerPlace'
  BY <1>1 DEF OverlayInv, OncePerPlace
<1>7. OnePlace'
  BY <1>5 DEF OverlayInv, OnePlace
<1>8. InSomePlace'
  <2>1. \A k \in Keys : k \in inflight' <=> k \in inflight /\ ~Finished(k)
    BY <1>1, <1>3
  <2> QED BY <1>5, <2>1 DEF OverlayInv, InSomePlace, OnePlace
<1>9. CaptureLogsResults'
  BY <1>1 DEF OverlayInv, CaptureLogsResults
<1> QED BY <1>4, <1>6, <1>7, <1>8, <1>9 DEF OverlayInv

LEMMA DrainSwapKeeps ==
    ASSUME OverlayInv, DrainSwap
    PROVE  OverlayInv'
<1>1. /\ Fold /\ UNCHANGED <<missed, mode, pool, work, worker, item, stop, histories>>
      /\ game # "push" /\ game' \in {"guest", "off"}
  BY DEF DrainSwap
<1> QED BY <1>1, FoldKeeps

LEMMA ShutdownJoinKeeps ==
    ASSUME OverlayInv, ShutdownJoin
    PROVE  OverlayInv'
<1>1. /\ Fold /\ UNCHANGED <<missed, mode, pool, work, worker, item, stop, histories>>
      /\ game # "push" /\ game' \in {"guest", "off"}
  BY DEF ShutdownJoin
<1> QED BY <1>1, FoldKeeps

LEMMA MissAnsweredKeeps ==
    ASSUME OverlayInv, NEW k \in Keys, MissCompiledNow(k) \/ MissWithoutImage(k)
    PROVE  OverlayInv'
<1>1. /\ UNCHANGED <<missed, mode, inflight, parked, pool, queues, worker, item, stop, histories>>
      /\ game = "guest" /\ game' = "drain" /\ k \in RamKeys \cup LostKeys
      /\ healed' \subseteq healed \cup {k} /\ healed \subseteq healed'
      /\ failed' \subseteq failed \cup {k}
  BY DEF MissCompiledNow, MissWithoutImage
<1>2. k \notin RomKeys
  BY <1>1, KeysAssumption
<1>3. healed' \cap RomKeys = healed \cap RomKeys
  BY <1>1, <1>2
<1>4. OverlayTypes'
  BY <1>1 DEF OverlayInv, OverlayTypes, queues, histories
<1>5. CaptureLogsResults'
  BY <1>1, <1>3, NativeStays DEF histories
<1> QED BY <1>1, <1>4, <1>5, SetsKeep

LEMMA MissEnqueuedKeeps ==
    ASSUME OverlayInv, NEW k \in Keys, MissEnqueued(k)
    PROVE  OverlayInv'
<1>1. /\ UNCHANGED <<mode, healed, failed, parked, pool, queues, worker, item, stop, histories>>
      /\ game = "guest" /\ game' = "push" /\ missed' = k /\ inflight' = inflight \cup {k}
      /\ k \in RomKeys /\ k \notin inflight /\ mode # "replay"
  BY DEF MissEnqueued, Enqueues, Unanswered
<1>2. work' = work /\ ready' = ready /\ worker' = worker /\ item' = item
  BY <1>1 DEF queues
<1>3. OverlayTypes'
  BY <1>1 DEF OverlayInv, OverlayTypes, queues, histories
<1>4. ~Queued(k) /\ ~Compiled(k) /\ ~Finished(k)
  BY <1>1 DEF OverlayInv, InSomePlace
<1>5. \A x \in Keys :
         /\ (Pushed(x)' <=> x = k) /\ ~Pushed(x)
         /\ (Queued(x)' <=> Queued(x)) /\ (Compiled(x)' <=> Compiled(x))
         /\ (Finished(x)' <=> Finished(x))
  BY <1>1, <1>2 DEF Pushed, Queued, Compiled, Finished
<1>6. OncePerPlace'
  BY <1>2 DEF OverlayInv, OncePerPlace
<1>7. OnePlace'
  BY <1>4, <1>5 DEF OverlayInv, OnePlace
<1>8. InSomePlace'
  BY <1>1, <1>5 DEF OverlayInv, InSomePlace
<1>9. CaptureLogsResults'
  BY <1>1, NativeStays DEF histories
<1> QED BY <1>3, <1>6, <1>7, <1>8, <1>9 DEF OverlayInv

LEMMA PushKeeps ==
    ASSUME OverlayInv, Push
    PROVE  OverlayInv'
<1>1. /\ UNCHANGED <<missed, mode, gameSets, ready, readyPending, worker, item, stop, histories>>
      /\ game = "push" /\ game' = "notify" /\ work' = Append(work, missed)
      /\ inflight' = inflight /\ healed' = healed /\ logged' = logged /\ recorded' = recorded
  BY DEF Push, gameSets, histories
<1>2. missed \in RomKeys /\ missed \in Keys
  BY <1>1 DEF OverlayInv, OverlayTypes
<1>3. /\ work' \in Seq(RomKeys) /\ Len(work) \in Nat
      /\ DOMAIN work = 1 .. Len(work) /\ DOMAIN work' = 1 .. Len(work) + 1
      /\ work'[Len(work) + 1] = missed
      /\ \A n \in 1 .. Len(work) : work'[n] = work[n]
  <2>1. work \in Seq(RomKeys)
    BY DEF OverlayInv, OverlayTypes
  <2> QED BY <1>1, <1>2, <2>1, QueueEnds
<1>4. OverlayTypes'
  BY <1>1, <1>3 DEF OverlayInv, OverlayTypes, gameSets, histories
<1>5. Pushed(missed) /\ ~Queued(missed)
  BY <1>1, <1>2 DEF Pushed, OverlayInv, OnePlace
<1>6. \A n \in 1 .. Len(work) + 1 : n \in 1 .. Len(work) \/ n = Len(work) + 1
  BY <1>3
<1>7. Len(work) + 1 \in DOMAIN work'
  BY <1>3
<1>8. OncePerPlace'
  <2>1. \A n \in 1 .. Len(work) : work[n] # missed
    BY <1>3, <1>5 DEF Queued
  <2> QED BY <1>1, <1>3, <1>6, <2>1 DEF OverlayInv, OncePerPlace
<1>9. \A k \in Keys :
         /\ (Queued(k)' <=> Queued(k) \/ missed = k)
         /\ ~Pushed(k)' /\ (Pushed(k) <=> missed = k)
         /\ (Compiled(k)' <=> Compiled(k)) /\ (Finished(k)' <=> Finished(k))
  <2> TAKE k \in Keys
  <2>1. Queued(k)' <=> Queued(k) \/ missed = k
    BY <1>3, <1>6, <1>7 DEF Queued
  <2> QED BY <1>1, <2>1 DEF Pushed, Compiled, Finished
<1>10. OnePlace'
  BY <1>9 DEF OverlayInv, OnePlace
<1>11. InSomePlace'
  BY <1>1, <1>9 DEF OverlayInv, InSomePlace
<1>12. CaptureLogsResults'
  BY <1>1, NativeStays DEF OverlayInv
<1> QED BY <1>4, <1>8, <1>10, <1>11, <1>12 DEF OverlayInv

(* Parked results are logged when they are installed; the release of a capture
   ends the obligation to log. *)
LEMMA CaptureKeeps ==
    ASSUME OverlayInv, CaptureFrame \/ ReleaseCapture
    PROVE  OverlayInv'
<1>1. /\ UNCHANGED <<missed, inflight, failed, pool, queues, worker, item, stop, recorded>>
      /\ game = "guest" /\ game' = "drain" /\ mode = "boundary"
      /\ healed' = healed \cup parked /\ parked' = {}
      /\ \/ mode' = "boundary" /\ logged' = logged \cup parked
         \/ mode' = "immediate" /\ logged' = logged
  BY DEF CaptureFrame, ReleaseCapture, histories
<1>2. OverlayTypes'
  BY <1>1 DEF OverlayInv, OverlayTypes, queues
<1>3. CaptureLogsResults'
  BY <1>1 DEF OverlayInv, CaptureLogsResults
<1> QED BY <1>1, <1>2, <1>3, SetsKeep

LEMMA ReplaySetActiveKeeps ==
    ASSUME OverlayInv, NEW want \in SUBSET Keys, ReplaySetActive(want)
    PROVE  OverlayInv'
<1>1. PICK built \in SUBSET ((want \cap (RomKeys \cup RamKeys)) \ (healed \cup pool)) :
         healed' = (want \cap (healed \cup pool)) \cup built
  BY DEF ReplaySetActive
<1>2. /\ UNCHANGED <<missed, mode, inflight, failed, parked, queues, worker, item, stop, logged>>
      /\ game = "guest" /\ game' = "drain" /\ mode = "replay"
      /\ pool' = (pool \cup healed) \ want /\ recorded' = want
  BY DEF ReplaySetActive
<1>3. healed' \subseteq want
  BY <1>1
<1>4. OverlayTypes'
  <2>1. healed' \cup inflight' \cup failed' \cup parked' \cup pool' \subseteq Keys
    BY <1>2, <1>3 DEF OverlayInv, OverlayTypes
  <2> QED BY <1>2, <2>1 DEF OverlayInv, OverlayTypes, queues
<1>5. CaptureLogsResults'
  BY <1>2, <1>3 DEF CaptureLogsResults
<1> QED BY <1>2, <1>4, <1>5, SetsKeep

-----------------------------------------------------------------------------
(* The invariant of the specification. *)

LEMMA OverlayStarts == LoaderInit => OverlayInv
<1> SUFFICES ASSUME LoaderInit PROVE OverlayInv
  OBVIOUS
<1>1. /\ work = <<>> /\ ready = <<>> /\ inflight = {} /\ game = "drain" /\ worker = "lock"
      /\ logged = healed /\ recorded = healed /\ healed \subseteq RomKeys
  BY DEF LoaderInit
<1>2. OverlayTypes
  <2>1. /\ healed \cup inflight \cup failed \cup parked \cup pool \subseteq Keys
        /\ logged \subseteq Keys /\ recorded \subseteq Keys
    BY <1>1, RomKeysAreKeys DEF LoaderInit
  <2>2. work \in Seq(RomKeys) /\ ready \in Seq(Results) /\ readyPending = Len(ready)
    BY DEF LoaderInit
  <2> QED BY <1>1, <2>1, <2>2 DEF LoaderInit, OverlayTypes
<1>3. OncePerPlace /\ OnePlace /\ InSomePlace
  BY <1>1 DEF OncePerPlace, OnePlace, InSomePlace, Pushed, Queued, Compiled, Finished
<1>4. CaptureLogsResults
  BY <1>1 DEF CaptureLogsResults
<1> QED BY <1>2, <1>3, <1>4 DEF OverlayInv

LEMMA OverlaySteps == OverlayInv /\ [LoaderNext]_loaderVars => OverlayInv'
<1> SUFFICES ASSUME OverlayInv, [LoaderNext]_loaderVars PROVE OverlayInv'
  OBVIOUS
<1>1. CASE UNCHANGED loaderVars
  BY <1>1, StutterKeeps
<1>2. CASE Worker \/ SpuriousWakeup
  BY <1>2, WorkerLockKeeps, WorkerTestKeeps, WorkerBlockKeeps, WorkerPublishKeeps DEF Worker
<1>3. CASE DrainLook \/ DrainSwap \/ Push \/ Notify \/ Step
  BY <1>3, DrainLookKeeps, DrainSwapKeeps, PushKeeps, NotifyKeeps
<1>4. CASE CaptureFrame \/ ReleaseCapture \/ ShutdownStore \/ ShutdownNotify \/ ShutdownJoin
  BY <1>4, CaptureKeeps, ShutdownStoreKeeps, NotifyKeeps, ShutdownJoinKeeps
<1>5. CASE \E k \in Keys : MissCompiledNow(k) \/ MissWithoutImage(k) \/ MissEnqueued(k)
  BY <1>5, MissAnsweredKeeps, MissEnqueuedKeeps
<1>6. CASE \E want \in SUBSET Keys : ReplaySetActive(want)
  BY <1>6, ReplaySetActiveKeeps
<1> QED BY <1>1, <1>2, <1>3, <1>4, <1>5, <1>6 DEF LoaderNext, Game

(* Every function the worker has, or is about to have, is in exactly one place
   of the two threads, and in flight; playback has none. *)
THEOREM OverlayInvariant == LoaderSpec => []OverlayInv
BY OverlayStarts, OverlaySteps, PTL DEF LoaderSpec

(* Type correctness; the counter the game thread reads without s_ready_mtx is
   the length of the queue behind it. *)
THEOREM OverlayTypeCorrect == LoaderSpec => []TypeOK
<1>1. OverlayInv => TypeOK
  BY DEF OverlayInv, OverlayTypes, Results, TypeOK
<1> QED BY <1>1, OverlayInvariant, PTL

(* A queue in which a key occurs once has one index for it. *)
LEMMA OneIndex ==
    ASSUME NEW set, \A m, n \in set : m = n
    PROVE  Cardinality(set) = IF set = {} THEN 0 ELSE 1
<1>1. CASE set = {}
  BY <1>1, FS_EmptySet
<1>2. CASE set # {}
  <2>1. PICK x : set = {x}
    BY <1>2
  <2> QED BY <1>2, <2>1, FS_Singleton
<1> QED BY <1>1, <1>2

(* The threads' hand-over of overlay_request_compile, worker_main and
   overlay_drain_ready loses no function and compiles none twice at a time. *)
THEOREM InflightAccounted == LoaderSpec => []InflightIsAccounted
<1>1. ASSUME OverlayInv, NEW k \in Keys
      PROVE  Occurrences(k) = IF k \in inflight THEN 1 ELSE 0
  <2> DEFINE queued == {n \in DOMAIN work : work[n] = k}
             finished == {n \in DOMAIN ready : ready[n].key = k}
  <2>1. Cardinality(queued) = IF Queued(k) THEN 1 ELSE 0
    <3>1. \A m, n \in queued : m = n
      BY <1>1 DEF OverlayInv, OncePerPlace
    <3>2. queued = {} <=> ~Queued(k)
      BY DEF Queued
    <3> HIDE DEF queued
    <3> QED BY <3>1, <3>2, OneIndex
  <2>2. Cardinality(finished) = IF Finished(k) THEN 1 ELSE 0
    <3>1. \A m, n \in finished : m = n
      BY <1>1 DEF OverlayInv, OncePerPlace
    <3>2. finished = {} <=> ~Finished(k)
      BY DEF Finished
    <3> HIDE DEF finished
    <3> QED BY <3>1, <3>2, OneIndex
  <2>3. Occurrences(k) = Cardinality(queued) + Cardinality(finished)
                         + (IF Compiled(k) THEN 1 ELSE 0) + (IF Pushed(k) THEN 1 ELSE 0)
    BY DEF Occurrences, Compiled, Pushed
  <2> HIDE DEF queued, finished
  <2>4. /\ Pushed(k) => ~Queued(k) /\ ~Compiled(k) /\ ~Finished(k)
        /\ Queued(k) => ~Compiled(k) /\ ~Finished(k)
        /\ Compiled(k) => ~Finished(k)
    BY <1>1 DEF OverlayInv, OnePlace
  <2>5. k \in inflight <=> Pushed(k) \/ Queued(k) \/ Compiled(k) \/ Finished(k)
    BY <1>1 DEF OverlayInv, InSomePlace
  <2>6. CASE Pushed(k)
    BY <2>1, <2>2, <2>3, <2>4, <2>5, <2>6
  <2>7. CASE ~Pushed(k) /\ Queued(k)
    BY <2>1, <2>2, <2>3, <2>4, <2>5, <2>7
  <2>8. CASE ~Pushed(k) /\ ~Queued(k)
    BY <2>1, <2>2, <2>3, <2>4, <2>5, <2>8
  <2> QED BY <2>6, <2>7, <2>8
<1>2. OverlayInv => InflightIsAccounted
  BY <1>1 DEF InflightIsAccounted
<1> QED BY <1>2, OverlayInvariant, PTL

(* "While a capture runs, worker results are parked": what the worker made
   native in one is in its recording. *)
THEOREM CaptureIsComplete == LoaderSpec => []CaptureLogsResults
<1>1. OverlayInv => CaptureLogsResults
  BY DEF OverlayInv
<1> QED BY <1>1, OverlayInvariant, PTL
=============================================================================
