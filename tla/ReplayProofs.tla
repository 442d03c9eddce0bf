---------------------------- MODULE ReplayProofs -----------------------------
(***************************************************************************)
(* What was recorded reruns, for any bounds of the queue and of the        *)
(* segments, and any interleaving of the game, the recorder, the worker,   *)
(* restores, failures and kills.                                           *)
(*                                                                         *)
(* The records of the open file, the commands in the queue and those the   *)
(* recorder is about to give it are one sequence, the stream.  Its grammar *)
(* says which machine every input is given to and which one every          *)
(* fingerprint is of; its joins say where a segment goes on from the one   *)
(* before.  The worker only takes from the front of the stream, and the    *)
(* recorder, who knows what it ends with, only adds to its end.  Playback  *)
(* then meets in the files what the grammar allows, and the machine it     *)
(* holds is the one that the next record is of, since a machine and an     *)
(* input have one result.                                                  *)
(***************************************************************************)
EXTENDS DiagnosticReplay, TLAPS

-----------------------------------------------------------------------------
(* The items of a stream.                                                    *)

Machine == [id : Int, frame : Int, save : Int]
Item ==
    [op : {"header", "end", "X", "G", "E"}]
    \cup [op : {"begin"}, seg : Nat \ {0}] \cup [op : {"remove"}, seg : Int]
    \cup [op : {"snapshot"}, kind : {"C", "R"}, of : Machine]
    \cup [op : {"I"}, frame : Int, input : Int]
    \cup [op : {"frame"}, of : Machine, reuse : BOOLEAN] \cup [op : {"H"}, id : Int, save : Int]

(* What a file holds. *)
Records == {"header", "snapshot", "I", "X", "G", "E", "H"}

(* What stands before the first item. *)
None == [op |-> "none"]
At(L, i) == IF i \in 1 .. Len(L) THEN L[i] ELSE None
Tip(L) == At(L, Len(L))
BeforeTip(L) == At(L, Len(L) - 1)

(* The fingerprint of a frame, before and after the worker has written it. *)
IsPrint(x) == x.op \in {"frame", "H"}
PrintOf(x) == IF x.op = "H" THEN x.id ELSE x.of.id
PrintedSave(x) == IF x.op = "H" THEN x.save ELSE x.of.save

(* What an input may follow, and the machine it is then given to. *)
IsMachine(x) == x.op = "snapshot" \/ IsPrint(x)
MachineOf(p, x) == IF x.op = "snapshot" THEN x.of ELSE p[PrintOf(x)].to

(* No other frame came of the same machine and input. *)
Once(p, k) ==
    \A j \in DOMAIN p : p[j].from = p[k].from /\ p[j].input = p[k].input => j = k

(* Item c may stand after a and b: a fingerprint is that of the machine that
   came of machine a with input b. *)
Printed(p, a, b, c) ==
    /\ b.op = "I" /\ IsMachine(a)
    /\ PrintOf(c) \in DOMAIN p /\ Once(p, PrintOf(c))
    /\ p[PrintOf(c)].from = MachineOf(p, a).id /\ p[PrintOf(c)].input = b.input
    /\ p[PrintOf(c)].to.save = PrintedSave(c)
    /\ c.op = "frame" /\ c.reuse => IsPrint(a) /\ PrintedSave(a) = PrintedSave(c)

Follows(p, a, b, c) ==
    /\ c.op = "header" => b.op = "none"
    /\ c.op = "snapshot" => \/ b.op \in {"begin", "header"}
                            \/ c.kind = "R" /\ (b.op = "X" \/ IsPrint(b))
    /\ c.op = "I" => IsMachine(b) /\ c.frame = MachineOf(p, b).frame
    /\ c.op = "X" => b.op = "I"
    /\ IsPrint(c) => Printed(p, a, b, c)

Grammar(p, L) == \A i \in 1 .. Len(L) : Follows(p, At(L, i - 2), At(L, i - 1), L[i])

-----------------------------------------------------------------------------
(* Where a segment goes on from the one before.                              *)

(* After these two items a segment may begin with machine m. *)
HandsOver(p, b, c, m) ==
    c.op = "G" \/ (c.op = "end" /\ IsPrint(b) /\ MachineOf(p, b) = m)

(* A file after which one may begin with machine m. *)
Hands(p, R, m) ==
    /\ R # <<>>
    /\ \/ R[Len(R)].op = "G"
       \/ (IsPrint(R[Len(R)]) /\ MachineOf(p, R[Len(R)]) = m)

GoesOn(x) == x.op = "snapshot" /\ x.kind = "C"

(* Nothing but removed files between the j-th item and the i-th. *)
OnlyRemoves(L, j, i) == \A k \in j + 1 .. i - 1 : L[k].op = "remove"

(* There is no segment of number n, and there will not be. *)
Skipped(d, L, n) ==
    n \notin DOMAIN d /\ \A k \in 1 .. Len(L) : L[k].op = "begin" => L[k].seg # n

(* The segment of number n on disk may be followed by one with machine m. *)
OnDisk(p, d, n, m) == n \in DOMAIN d => Hands(p, d[n], m)

(* The segment that begins at i follows what stands before it in the stream,
   and what is on disk if nothing does. *)
Joined(p, d, L, i) ==
    L[i].op = "begin" /\ i < Len(L) /\ GoesOn(L[i + 1]) =>
        \/ Skipped(d, L, L[i].seg - 1)
        \/ /\ \A j \in 1 .. i - 1 : OnlyRemoves(L, j, i) /\ L[j].op # "remove" =>
                 HandsOver(p, At(L, j - 1), L[j], L[i + 1].of)
           /\ OnlyRemoves(L, 0, i) => OnDisk(p, d, L[i].seg - 1, L[i + 1].of)
Joins(p, d, L) == \A i \in 1 .. Len(L) : Joined(p, d, L, i)

(* The same of a file that has begun. *)
JoinedFile(p, d, L, n) ==
    Len(L) > 1 /\ L[1].op = "header" /\ GoesOn(L[2]) => OnDisk(p, d, n - 1, L[2].of)

(* Segments begin in ascending order, above those on disk. *)
Ascends(d, o, L) ==
    /\ \A i, k \in 1 .. Len(L) :
          i < k /\ L[i].op = "begin" /\ L[k].op = "begin" => L[i].seg < L[k].seg
    /\ \A i \in 1 .. Len(L) : L[i].op = "begin" =>
          L[i].seg > o /\ \A s \in DOMAIN d : s < L[i].seg
    /\ o # 0 => \A s \in DOMAIN d : s <= o
    /\ o \in DOMAIN d \/ \A i \in 1 .. Len(L) : L[i].op # "header"

-----------------------------------------------------------------------------
(* The stream and the files.                                                 *)

File == IF writer.open \in DOMAIN disk THEN disk[writer.open] ELSE <<>>
Stream == (File \o queue) \o todo

(* The worker holds the save memory of the last fingerprint in its file. *)
HoldsSave(L, save) ==
    /\ Tip(L).op = "H" => save = Tip(L).save
    /\ Tip(L).op = "I" /\ BeforeTip(L).op = "H" => save = BeforeTip(L).save

(* The inputs of the fingerprints come before that of the next frame. *)
NextInput == IF host.pc = "poll" /\ ~rec.skipBegin THEN host.input + 1 ELSE host.input
Before(p, L, input) ==
    \A i \in 1 .. Len(L) : IsPrint(L[i]) => p[PrintOf(L[i])].input < input

StreamInv ==
    /\ Grammar(past, Stream) /\ Joins(past, disk, Stream)
    /\ JoinedFile(past, disk, Stream, writer.open) /\ Ascends(disk, writer.open, Stream)
    /\ HoldsSave(File, writer.save) /\ (writer.open \in DOMAIN disk => File # <<>>)
    /\ Recording => Before(past, Stream, NextInput)

FilesInv ==
    \A n \in DOMAIN disk :
        /\ \A i \in 1 .. Len(disk[n]) : disk[n][i].op \in Records
        /\ disk[n] # <<>> => disk[n][1].op = "header"
        /\ Grammar(past, disk[n]) /\ JoinedFile(past, disk, disk[n], n)
        /\ Recording => Before(past, disk[n], NextInput)

-----------------------------------------------------------------------------
(* The types of a session's state.                                           *)

Host == [at : Machine, input : Nat, pc : {"end", "poll", "run"}, epoch : Nat, seq : Nat,
         restored : BOOLEAN, restores : Nat, left : {"no", "quit", "killed"}]
Recorder ==
    [recording : BOOLEAN, open : BOOLEAN, pendingEnd : BOOLEAN, gap : BOOLEAN,
     gapMarker : BOOLEAN, fullSave : BOOLEAN, boundary : Int, skipBegin : BOOLEAN,
     segment : Nat, oldest : Nat, rows : Nat, epoch : Nat, saveSeq : Nat]
Player ==
    [phase : {"begin", "run", "end", "done"}, result : {"none", "matched", "ended", "incomplete",
     "cut", "diverged"}, seg : Nat, pos : Nat, at : Machine, input : Int, first : BOOLEAN,
     resync : BOOLEAN, kind : {"none", "C", "R"}, check : Machine]

PastType ==
    /\ past \in Seq([from : Int, input : Int, to : Machine])
    /\ \A k \in DOMAIN past : past[k].to.id = k
    /\ Recording => \A k \in DOMAIN past : past[k].input <= host.input

DiskType ==
    /\ DOMAIN disk \subseteq Nat \ {0}
    /\ disk \in [DOMAIN disk -> Seq(Item)]
    /\ writer \in [open : Nat, save : Int, error : BOOLEAN]
    /\ writer.error => writer.open = 0

Commands == {"end", "X", "G", "E", "begin", "remove", "snapshot", "I", "frame"}
ReplayTypes ==
    /\ host \in Host /\ rec \in Recorder /\ PastType /\ DiskType
    /\ queue \in Seq(Item) /\ todo \in Seq(Item)
    /\ \A i \in 1 .. Len(queue) : queue[i].op \in Commands
    /\ \A i \in 1 .. Len(todo) : todo[i].op \in Commands
    /\ ~Recording => todo = <<>>
    /\ play.phase # "no" => play \in Player /\ ~Recording /\ queue = <<>> /\ writer.open = 0

-----------------------------------------------------------------------------
(* The recorder.                                                             *)

(* What the recorder's flags exclude. *)
RecorderInv ==
    /\ rec.gapMarker => rec.gap
    /\ rec.gap => ~rec.open
    /\ ~rec.recording => ~rec.open /\ todo = <<>>
    /\ rec.epoch <= host.epoch /\ rec.saveSeq <= host.seq

(* The commands of one boundary, in the order of the handler. *)
Starts(x) == x.op \in {"end", "G"}
Batch ==
    /\ \A k \in 1 .. Len(todo) :
          /\ Starts(todo[k]) => k = 1
          /\ todo[k].op = "begin" => k = Len(todo) - 2
          /\ todo[k].op = "snapshot" => k = Len(todo) - 1
          /\ todo[k].op = "I" => k = Len(todo)
          /\ todo[k].op \in {"X", "frame"} => Len(todo) = 1
          /\ todo[k].op # "E"
    /\ todo # <<>> =>
          /\ Tip(todo).op \in {"I", "X", "frame"}
          /\ rec.gap => todo[1].op = "G"
          /\ todo[1].op = "G" => ~rec.open
          /\ todo[1].op = "end" => rec.open

(* The numbers of the segments that have begun, or are about to. *)
NumbersInv ==
    /\ \A s \in DOMAIN disk \cup {writer.open} : s <= rec.segment
    /\ \A i \in 1 .. Len(queue) : queue[i].op = "begin" => queue[i].seg <= rec.segment
    /\ \A i \in 1 .. Len(todo) : todo[i].op = "begin" =>
          todo[i].seg = IF Starts(todo[1]) THEN rec.segment + 1 ELSE rec.segment
    /\ rec.recording /\ ~rec.open /\ ~rec.gapMarker => Skipped(disk, queue, rec.segment)

(* The end of the stream.  The next input is given to the machine that the
   session holds; *)
InputNext ==
    /\ host.pc = "run" /\ ~rec.skipBegin
    /\ Tip(todo).input = host.input /\ Tip(todo).frame = host.at.frame
    /\ rec.boundary = host.at.frame
    /\ IsMachine(BeforeTip(Stream)) /\ MachineOf(past, BeforeTip(Stream)) = host.at
    /\ \A k \in DOMAIN past : past[k].input < host.input
    /\ ~rec.fullSave /\ Len(todo) = 1 => IsPrint(BeforeTip(Stream))

(* the frame that ran is the last fingerprint, *)
PrintNext ==
    /\ host.pc = "poll" /\ ~rec.skipBegin /\ rec.open /\ ~rec.pendingEnd
    /\ rec.epoch = host.epoch => IsPrint(Tip(todo)) /\ MachineOf(past, Tip(todo)) = host.at

(* the input has been given and its frame has not ended, *)
AwaitsFrame ==
    /\ MachineOf(past, BeforeTip(Stream)) = host.at /\ Tip(Stream).input = host.input
    /\ rec.boundary = host.at.frame
    /\ \A k \in DOMAIN past : past[k].input < host.input
FrameRan ==
    /\ host.pc = "end"
    /\ host.at.id \in DOMAIN past /\ past[host.at.id].to = host.at
    /\ past[host.at.id].from = MachineOf(past, BeforeTip(Stream)).id
    /\ past[host.at.id].input = Tip(Stream).input /\ Once(past, host.at.id)
    /\ past[host.at.id].input = host.input
    /\ rec.boundary # host.at.frame
    /\ host.seq = rec.saveSeq => host.at.save = MachineOf(past, BeforeTip(Stream)).save
AwaitsEnd ==
    /\ Tip(Stream).op = "I" /\ IsMachine(BeforeTip(Stream))
    /\ ~rec.fullSave => IsPrint(BeforeTip(Stream))
    /\ host.pc = "poll" => rec.skipBegin
    /\ rec.epoch = host.epoch => AwaitsFrame \/ FrameRan

(* or the boundary is halfway through. *)
HalfWay ==
    /\ host.pc = "poll" /\ ~rec.skipBegin
    /\ Tip(Stream).op = "X" \/ IsPrint(Tip(Stream))
    /\ rec.epoch = host.epoch => IsPrint(Tip(Stream)) /\ MachineOf(past, Tip(Stream)) = host.at

TipInv ==
    /\ todo # <<>> => IF Tip(todo).op = "I" THEN InputNext ELSE PrintNext
    /\ todo = <<>> /\ rec.open => IF rec.pendingEnd THEN AwaitsEnd ELSE HalfWay

-----------------------------------------------------------------------------
(* Playback.                                                                 *)

(* What playback holds before the record at its position, the one before
   being b: at the head of a file, the machine with which that begins. *)
AtHead(R) ==
    Len(R) > 1 /\ GoesOn(R[2]) => play.resync \/ play.at = R[2].of
Beginning(R, b) ==
    /\ b.op = "header" => AtHead(R)
    /\ b.op = "snapshot" =>
          /\ play.kind = b.kind /\ play.check = b.of
          /\ b.kind = "C" => play.resync \/ play.at = b.of
    /\ IsPrint(b) => play.kind = "none" /\ ~play.first /\ play.at = MachineOf(past, b)
    /\ b.op = "G" => play.resync
    /\ b.op = "I" => AtEof /\ play.resync
PlayInv ==
    play.phase # "no" =>
        /\ play.result # "diverged"
        /\ play.phase # "done" =>
              LET R == disk[play.seg]
                  b == At(R, play.pos - 1)
              IN /\ play.seg \in DOMAIN disk /\ R[1].op = "header"
                 /\ play.pos \in 2 .. Len(R) + 1
                 /\ play.phase = "begin" => Beginning(R, b)
                 /\ play.phase # "begin" =>
                      /\ b.op = "I" /\ ~play.first /\ play.kind = "none"
                      /\ play.input = b.input
                      /\ play.phase = "run" => play.at = MachineOf(past, At(R, play.pos - 2))
                      /\ play.phase = "end" =>
                           play.at = Ran(MachineOf(past, At(R, play.pos - 2)), b.input)

(* All of it: what is about the stream holds while the worker takes from it. *)
RecordingInv ==
    /\ ReplayTypes /\ FilesInv /\ PlayInv
    /\ ~writer.error => StreamInv
    /\ Recording => RecorderInv /\ Batch
    /\ Recording /\ ~writer.error => NumbersInv /\ TipInv

-----------------------------------------------------------------------------
(* What the grammar asks of an item depends on no more than these.           *)

(* Nothing is asked of what stands before other items than machines, *)
LEMMA AfterOther ==
    ASSUME NEW p, NEW a, NEW b, NEW c, NEW z, Follows(p, a, b, c), ~IsMachine(a)
    PROVE  Follows(p, z, b, c)
  BY DEF Follows, Printed

(* nor of what stands before a command that leaves no record. *)
LEMMA AfterCommand ==
    ASSUME NEW p, NEW a, NEW b, NEW c, NEW y, NEW z, Follows(p, a, b, c),
           b.op \in {"end", "remove", "G", "E"}
    PROVE  Follows(p, y, z, c)
  BY DEF Follows, Printed, IsMachine, IsPrint

LEMMA AfterHeader ==
    ASSUME NEW p, NEW a, NEW b, NEW c, NEW y, NEW z, Follows(p, a, b, c), b.op = "begin",
           z.op = "header"
    PROVE  Follows(p, y, z, c)
  BY DEF Follows, Printed, IsMachine, IsPrint

(* A fingerprint is the same once it is written. *)
Alike(x, y) ==
    x = y \/ (x.op = "frame" /\ y.op = "H" /\ y.id = x.of.id /\ y.save = x.of.save)

LEMMA AlikeIs ==
    ASSUME NEW p, NEW x, NEW y, Alike(x, y)
    PROVE  /\ IsPrint(y) = IsPrint(x) /\ IsMachine(y) = IsMachine(x)
           /\ MachineOf(p, y) = MachineOf(p, x)
           /\ IsPrint(x) => PrintOf(y) = PrintOf(x) /\ PrintedSave(y) = PrintedSave(x)
           /\ ~IsPrint(x) \/ ~IsPrint(y) => y = x
           /\ x.op # "frame" \/ y.op # "H" => y = x
           /\ IsPrint(x) \/ x.op = y.op
  BY DEF Alike, IsPrint, IsMachine, MachineOf, PrintOf, PrintedSave

LEMMA AlikeFollows ==
    ASSUME NEW p, NEW a, NEW b, NEW c, Follows(p, a, b, c),
           NEW x, NEW y, NEW z, Alike(a, x), Alike(b, y), Alike(c, z)
    PROVE  Follows(p, x, y, z)
<1>1. /\ IsPrint(x) = IsPrint(a) /\ IsMachine(x) = IsMachine(a)
      /\ MachineOf(p, x) = MachineOf(p, a) /\ (IsPrint(a) => PrintedSave(x) = PrintedSave(a))
  BY AlikeIs
<1>2. /\ IsPrint(y) = IsPrint(b) /\ IsMachine(y) = IsMachine(b)
      /\ MachineOf(p, y) = MachineOf(p, b) /\ (~IsPrint(b) => y = b)
  BY AlikeIs
<1>3. CASE IsPrint(c)
  <2>1. IsPrint(z) /\ PrintOf(z) = PrintOf(c) /\ PrintedSave(z) = PrintedSave(c)
    BY <1>3, AlikeIs
  <2>2. z.op \in {"frame", "H"} /\ (z.op = "frame" => z = c)
    BY <2>1 DEF Alike, IsPrint
  <2>3. Printed(p, a, b, c)
    BY <1>3 DEF Follows
  <2>4. y = b
    BY <1>2, <2>3 DEF Printed, IsPrint
  <2>5. Printed(p, x, y, z)
    BY ONLY <1>1, <2>1, <2>2, <2>3, <2>4 DEF Printed
  <2> QED BY ONLY <2>1, <2>2, <2>5 DEF Follows
<1>4. CASE ~IsPrint(c)
  <2>1. z = c
    BY <1>4 DEF Alike, IsPrint
  <2>2. IsPrint(b) => b.op \in {"frame", "H"} /\ y.op \in {"frame", "H"}
    BY <1>2 DEF IsPrint
  <2> QED BY <1>2, <1>4, <2>1, <2>2 DEF Follows
<1> QED BY <1>3, <1>4

(* More frames have run, and none of the fingerprinted ones again. *)
Grown(p, q) == DOMAIN p \subseteq DOMAIN q /\ \A k \in DOMAIN p : q[k] = p[k]
Known(p, x) == IsPrint(x) => PrintOf(x) \in DOMAIN p

LEMMA GrownFollows ==
    ASSUME NEW p, NEW q, Grown(p, q), NEW a, NEW b, NEW c, Follows(p, a, b, c),
           Known(p, a), Known(p, b), IsPrint(c) => Once(q, PrintOf(c))
    PROVE  Follows(q, a, b, c)
<1>1. IsMachine(a) => MachineOf(q, a) = MachineOf(p, a)
  BY DEF Grown, Known, IsMachine, MachineOf
<1>2. IsMachine(b) => MachineOf(q, b) = MachineOf(p, b)
  BY DEF Grown, Known, IsMachine, MachineOf
<1>3. ASSUME IsPrint(c)
      PROVE  Printed(q, a, b, c)
  <2>1. Printed(p, a, b, c) /\ Once(q, PrintOf(c))
    BY <1>3 DEF Follows
  <2>2. q[PrintOf(c)] = p[PrintOf(c)] /\ PrintOf(c) \in DOMAIN q
    BY <2>1 DEF Printed, Grown
  <2> QED BY <1>1, <2>1, <2>2 DEF Printed
<1> QED BY <1>2, <1>3 DEF Follows

-----------------------------------------------------------------------------
(* The ways in which the worker and the recorder change a stream.            *)

LEMMA AtIs ==
    ASSUME NEW L, NEW i
    PROVE  /\ i \in 1 .. Len(L) => At(L, i) = L[i]
           /\ i \notin 1 .. Len(L) => At(L, i) = None
  BY DEF At

LEMMA NoneIs == None.op = "none" /\ ~IsPrint(None) /\ ~IsMachine(None)
  BY DEF None, IsPrint, IsMachine

(* The items from s up to the e-th are taken out. *)
Cut(L, M, s, e) ==
    /\ Len(L) \in Nat /\ Len(M) \in Nat /\ e \in 1 .. Len(L) /\ s \in 1 .. e
    /\ Len(M) = Len(L) - (e - s + 1)
    /\ \A i \in 1 .. s - 1 : M[i] = L[i]
    /\ \A i \in s .. Len(M) : M[i] = L[i + (e - s + 1)]

(* A header takes the place of everything up to the e-th item. *)
Opened(L, M, e) ==
    /\ Len(L) \in Nat /\ Len(M) \in Nat /\ e \in 1 .. Len(L)
    /\ Len(M) = Len(L) - e + 1 /\ M[1].op = "header"
    /\ \A i \in 2 .. Len(M) : M[i] = L[i + (e - 1)]

(* A fingerprint is written. *)
Written(L, M) ==
    /\ Len(L) \in Nat /\ Len(M) = Len(L) /\ \A i \in 1 .. Len(L) : Alike(L[i], M[i])

(* The stream goes on. *)
Prefix(L, M) ==
    /\ Len(L) \in Nat /\ Len(M) \in Nat /\ Len(L) <= Len(M)
    /\ \A i \in 1 .. Len(L) : M[i] = L[i]

LEMMA CutFollows ==
    ASSUME NEW p, NEW L, NEW M, NEW s, NEW e, Cut(L, M, s, e), Grammar(p, L),
           L[e].op \in {"end", "remove", "G", "E"}
    PROVE  Grammar(p, M)
<1> DEFINE w == e - s + 1
<1>0. /\ Len(L) \in Nat /\ Len(M) \in Nat /\ e \in Nat /\ s \in Nat /\ w \in Nat /\ s >= 1
      /\ s <= e /\ e <= Len(L) /\ w = e - s + 1 /\ Len(M) = Len(L) - w
  BY DEF Cut
<1>1. \A i \in 1 .. s - 1 : M[i] = L[i]
  BY DEF Cut
<1>2. \A i \in s .. Len(M) : M[i] = L[i + w]
  BY DEF Cut
<1> HIDE DEF w
<1> SUFFICES ASSUME NEW i \in 1 .. Len(M)
             PROVE  Follows(p, At(M, i - 2), At(M, i - 1), M[i])
  BY DEF Grammar
<1>a. i \in Nat /\ i >= 1 /\ i <= Len(M)
  BY <1>0
<1>3. CASE i < s
  <2>1. At(M, i - 1) = At(L, i - 1) /\ At(M, i - 2) = At(L, i - 2) /\ M[i] = L[i] /\ i \in 1 .. Len(L)
    BY <1>0, <1>1, <1>a, <1>3 DEF At
  <2> QED BY <2>1 DEF Grammar
<1>4. CASE i >= s
  <2>1. i + w \in 1 .. Len(L) /\ M[i] = L[i + w]
    <3>1. i + w \in 1 .. Len(L) /\ i \in s .. Len(M)
      BY ONLY <1>0, <1>a, <1>4
    <3> QED BY ONLY <1>2, <3>1
  <2>2. Follows(p, At(L, (i + w) - 2), At(L, (i + w) - 1), M[i])
    BY <2>1 DEF Grammar
  <2>3. At(L, e) = L[e]
    BY <1>0, AtIs
  <2>4. CASE i = s
    <3>1. (i + w) - 1 = e
      BY <1>0, <2>4
    <3>2. At(L, (i + w) - 1).op \in {"end", "remove", "G", "E"}
      BY <2>3, <3>1
    <3> QED BY ONLY <2>2, <3>2, AfterCommand
  <2>5. CASE i > s
    <3>1. At(M, i - 1) = At(L, (i + w) - 1)
      <4>1. i - 1 \in s .. Len(M) /\ i - 1 \in 1 .. Len(M) /\ (i - 1) + w = (i + w) - 1
            /\ (i + w) - 1 \in 1 .. Len(L)
        BY <1>0, <1>a, <2>5
      <4> QED BY <1>2, <4>1, AtIs
    <3>2. CASE i = s + 1
      <4>1. (i + w) - 2 = e
        BY <1>0, <3>2
      <4>2. ~IsMachine(At(L, (i + w) - 2))
        BY <2>3, <4>1 DEF IsMachine, IsPrint
      <4> QED BY ONLY <2>2, <3>1, <4>2, AfterOther
    <3>3. CASE i > s + 1
      <4>1. i - 2 \in s .. Len(M) /\ i - 2 \in 1 .. Len(M) /\ (i - 2) + w = (i + w) - 2
            /\ (i + w) - 2 \in 1 .. Len(L)
        BY <1>0, <1>a, <3>3
      <4>2. At(M, i - 2) = At(L, (i + w) - 2)
        BY <1>2, <4>1, AtIs
      <4> QED BY ONLY <2>2, <3>1, <4>2
    <3> QED BY <1>0, <1>a, <2>5, <3>2, <3>3
  <2> QED BY <1>0, <1>a, <1>4, <2>4, <2>5
<1> QED BY <1>0, <1>a, <1>3, <1>4

LEMMA OpenedFollows ==
    ASSUME NEW p, NEW L, NEW M, NEW e, Opened(L, M, e), Grammar(p, L), L[e].op = "begin"
    PROVE  Grammar(p, M)
<1>0. /\ Len(L) \in Nat /\ Len(M) \in Nat /\ e \in Nat /\ e >= 1 /\ e <= Len(L)
      /\ Len(M) = Len(L) - e + 1 /\ M[1].op = "header"
  BY DEF Opened
<1>2. \A i \in 2 .. Len(M) : M[i] = L[i + (e - 1)]
  BY DEF Opened
<1>3. At(M, 1) = M[1] /\ At(L, e) = L[e]
  BY <1>0, AtIs
<1> SUFFICES ASSUME NEW i \in 1 .. Len(M)
             PROVE  Follows(p, At(M, i - 2), At(M, i - 1), M[i])
  BY DEF Grammar
<1>a. i \in Nat /\ i >= 1 /\ i <= Len(M)
  BY <1>0
<1> DEFINE I == i + (e - 1)
<1>b. I \in Nat /\ I = i + (e - 1)
  BY <1>0, <1>a
<1> HIDE DEF I
<1>4. CASE i = 1
  <2>1. At(M, i - 1) = None
    BY <1>4 DEF At
  <2> QED BY <1>0, <1>4, <2>1, NoneIs DEF Follows, IsPrint
<1>5. CASE i > 1
  <2>1. I \in 1 .. Len(L) /\ M[i] = L[I]
    BY <1>0, <1>2, <1>a, <1>b, <1>5
  <2>2. Follows(p, At(L, I - 2), At(L, I - 1), M[i])
    BY <2>1 DEF Grammar
  <2>3. CASE i = 2
    <3>1. i - 1 = 1 /\ I - 1 = e
      BY <1>0, <1>b, <2>3
    <3>2. At(M, i - 1).op = "header" /\ At(L, I - 1).op = "begin"
      BY <1>0, <1>3, <3>1
    <3> QED BY ONLY <2>2, <3>2, AfterHeader
  <2>4. CASE i > 2
    <3>1. i - 1 \in 2 .. Len(M) /\ (i - 1) + (e - 1) = I - 1 /\ I - 1 \in 1 .. Len(L)
          /\ i - 1 \in 1 .. Len(M)
      BY <1>0, <1>a, <1>b, <2>4
    <3>2. At(M, i - 1) = At(L, I - 1)
      BY <1>2, <3>1, AtIs
    <3>3. CASE i = 3
      <4>1. I - 2 = e
        BY <1>0, <1>b, <3>3
      <4>2. ~IsMachine(At(L, I - 2))
        BY <1>3, <4>1 DEF IsMachine, IsPrint
      <4> QED BY ONLY <2>2, <3>2, <4>2, AfterOther
    <3>4. CASE i > 3
      <4>1. i - 2 \in 2 .. Len(M) /\ (i - 2) + (e - 1) = I - 2 /\ I - 2 \in 1 .. Len(L)
            /\ i - 2 \in 1 .. Len(M)
        BY <1>0, <1>a, <1>b, <3>4
      <4>2. At(M, i - 2) = At(L, I - 2)
        BY <1>2, <4>1, AtIs
      <4> QED BY ONLY <2>2, <3>2, <4>2
    <3> QED BY <1>a, <2>4, <3>3, <3>4
  <2> QED BY <1>a, <1>5, <2>3, <2>4
<1> QED BY <1>a, <1>4, <1>5

LEMMA WrittenFollows ==
    ASSUME NEW p, NEW L, NEW M, Written(L, M), Grammar(p, L)
    PROVE  Grammar(p, M)
<1>1. \A i : Alike(At(L, i), At(M, i))
  BY DEF At, Written, Alike
<1> SUFFICES ASSUME NEW i \in 1 .. Len(M)
             PROVE  Follows(p, At(M, i - 2), At(M, i - 1), M[i])
  BY DEF Grammar
<1>2. i \in 1 .. Len(L) /\ Alike(L[i], M[i])
  BY DEF Written
<1>3. Follows(p, At(L, i - 2), At(L, i - 1), L[i])
  BY <1>2 DEF Grammar
<1>4. Alike(At(L, i - 2), At(M, i - 2)) /\ Alike(At(L, i - 1), At(M, i - 1))
  BY <1>1
<1> QED BY ONLY <1>2, <1>3, <1>4, AlikeFollows

LEMMA PrefixAt ==
    ASSUME NEW L, NEW M, Prefix(L, M), NEW i \in Int, i <= Len(L)
    PROVE  At(M, i) = At(L, i)
  BY DEF Prefix, At

LEMMA PrefixFollows ==
    ASSUME NEW p, NEW L, NEW M, Prefix(L, M), Grammar(p, M)
    PROVE  Grammar(p, L)
<1> SUFFICES ASSUME NEW i \in 1 .. Len(L)
             PROVE  Follows(p, At(L, i - 2), At(L, i - 1), L[i])
  BY DEF Grammar
<1>1. i \in 1 .. Len(M) /\ L[i] = M[i] /\ i - 1 \in Int /\ i - 2 \in Int /\ i - 1 <= Len(L)
      /\ i - 2 <= Len(L)
  BY DEF Prefix
<1>2. Follows(p, At(M, i - 2), At(M, i - 1), M[i])
  BY <1>1 DEF Grammar
<1> QED BY <1>1, <1>2, PrefixAt

(* What is added need only follow. *)
LEMMA ExtendedFollows ==
    ASSUME NEW p, NEW L, NEW M, Prefix(L, M), Grammar(p, L),
           \A i \in Len(L) + 1 .. Len(M) : Follows(p, At(M, i - 2), At(M, i - 1), M[i])
    PROVE  Grammar(p, M)
<1> SUFFICES ASSUME NEW i \in 1 .. Len(M), i <= Len(L)
             PROVE  Follows(p, At(M, i - 2), At(M, i - 1), M[i])
  BY DEF Grammar, Prefix
<1>1. i \in 1 .. Len(L) /\ L[i] = M[i] /\ i - 1 \in Int /\ i - 2 \in Int /\ i - 1 <= Len(L)
      /\ i - 2 <= Len(L)
  BY DEF Prefix
<1>2. Follows(p, At(L, i - 2), At(L, i - 1), L[i])
  BY <1>1 DEF Grammar
<1> QED BY <1>1, <1>2, PrefixAt

LEMMA GrammarKnows ==
    ASSUME NEW p, NEW L, Grammar(p, L), NEW i
    PROVE  Known(p, At(L, i))
  BY NoneIs DEF Grammar, Follows, Printed, Known, At

LEMMA GrownGrammar ==
    ASSUME NEW p, NEW q, Grown(p, q), NEW L, Grammar(p, L),
           \A i \in 1 .. Len(L) : IsPrint(L[i]) => Once(q, PrintOf(L[i]))
    PROVE  Grammar(q, L)
<1> SUFFICES ASSUME NEW i \in 1 .. Len(L)
             PROVE  Follows(q, At(L, i - 2), At(L, i - 1), L[i])
  BY DEF Grammar
<1>1. Follows(p, At(L, i - 2), At(L, i - 1), L[i])
  BY DEF Grammar
<1>2. Known(p, At(L, i - 2)) /\ Known(p, At(L, i - 1))
  BY GrammarKnows
<1>3. IsPrint(L[i]) => Once(q, PrintOf(L[i]))
  OBVIOUS
<1> QED BY ONLY <1>1, <1>2, <1>3, Grown(p, q), GrownFollows

-----------------------------------------------------------------------------
(* The same for the joins.                                                   *)

(* The items of the open file stand before the e-th. *)
LEMMA HandsAlike ==
    ASSUME NEW p, NEW a, NEW b, NEW x, NEW y, Alike(a, x), Alike(b, y), NEW m, HandsOver(p, a, b, m)
    PROVE  HandsOver(p, x, y, m)
<1>1. IsPrint(x) = IsPrint(a) /\ MachineOf(p, x) = MachineOf(p, a)
  BY AlikeIs
<1>2. b.op \in {"G", "end"} => y = b
  BY DEF Alike
<1> QED BY <1>1, <1>2 DEF HandsOver

(* A command that leaves no record is taken out: a removed file, or the end of
   the open one; with s = 1 the records of the open file go as well. *)
LEMMA CutJoins ==
    ASSUME NEW p, NEW d, NEW D, NEW o, NEW L, NEW M, NEW s, NEW e, Cut(L, M, s, e),
           s \in {1, e}, L[e].op \in {"end", "remove", "G", "E"}, L[e].op = "end" => s = 1,
           L[e].op \in {"G", "E"} => s = 1 /\ e = 1 /\ o # 0 /\ o \notin DOMAIN d,
           \A i \in 1 .. e - 1 : L[i].op \in Records,
           DOMAIN D \subseteq DOMAIN d, \A k \in DOMAIN D : D[k] = d[k] /\ k \in Nat,
           o \in Nat, 0 \notin DOMAIN d,
           \A i \in 1 .. Len(L) : L[i].op = "begin" => L[i].seg \in Nat \ {0},
           L[e].op = "end" => \A m : HandsOver(p, At(L, e - 1), L[e], m) =>
                                        o \in DOMAIN d /\ Hands(p, d[o], m),
           L[e].op = "remove" /\ s = 1 /\ 1 < e => o \in DOMAIN d \ DOMAIN D,
           Ascends(d, o, L), Joins(p, d, L)
    PROVE  Joins(p, D, M)
<1> DEFINE w == e - s + 1
<1>0. /\ Len(L) \in Nat /\ Len(M) \in Nat /\ e \in Nat /\ s \in Nat /\ w \in Nat /\ s >= 1
      /\ s <= e /\ e <= Len(L) /\ w = e - s + 1 /\ Len(M) = Len(L) - w
  BY ONLY Cut(L, M, s, e) DEF Cut
<1>k. \/ L[e].op = "end" /\ s = 1
      \/ L[e].op = "remove" /\ (s = 1 \/ s = e)
      \/ L[e].op \in {"G", "E"} /\ s = 1
  OBVIOUS
<1>1. \A i \in 1 .. s - 1 : M[i] = L[i]
  BY DEF Cut
<1>2. \A i \in s .. Len(M) : M[i] = L[i + w]
  BY DEF Cut
<1> HIDE DEF w
<1> SUFFICES ASSUME NEW i \in 1 .. Len(M), M[i].op = "begin", i < Len(M), GoesOn(M[i + 1]),
                    ~Skipped(D, M, M[i].seg - 1)
             PROVE  /\ \A j \in 1 .. i - 1 : OnlyRemoves(M, j, i) /\ M[j].op # "remove" =>
                          HandsOver(p, At(M, j - 1), M[j], M[i + 1].of)
                    /\ OnlyRemoves(M, 0, i) => OnDisk(p, D, M[i].seg - 1, M[i + 1].of)
  BY DEF Joins, Joined
<1> DEFINE I == i + w
           n == M[i].seg - 1
           m == M[i + 1].of
<1>a. i \in Nat /\ i >= 1 /\ i < Len(M) /\ I = i + w /\ I \in Nat
  BY <1>0
<1>3. i >= s
  <2> SUFFICES ASSUME i < s
               PROVE  FALSE
    BY <1>0, <1>a
  <2>1. i \in 1 .. s - 1 /\ i \in 1 .. e - 1
    BY <1>0, <1>a
  <2>2. M[i].op \in Records
    BY <1>1, <2>1
  <2> QED BY <2>2 DEF Records
<1>4. /\ I \in 1 .. Len(L) /\ I > e /\ I < Len(L) /\ i \in s .. Len(M) /\ i + 1 \in s .. Len(M)
      /\ (i + 1) + w = I + 1 /\ I + 1 \in 1 .. Len(L)
  BY ONLY <1>0, <1>a, <1>3
<1>5. M[i] = L[I] /\ M[i + 1] = L[I + 1]
  BY <1>2, <1>4
<1> HIDE DEF I
<1>6. ~Skipped(d, L, n)
  <2> SUFFICES ASSUME Skipped(d, L, n)
               PROVE  Skipped(D, M, n)
    OBVIOUS
  <2>1. \A k \in 1 .. Len(M) : \E l \in 1 .. Len(L) : M[k] = L[l]
    <3> SUFFICES ASSUME NEW k \in 1 .. Len(M)
                 PROVE  \E l \in 1 .. Len(L) : M[k] = L[l]
      OBVIOUS
    <3>1. CASE k < s
      <4>1. k \in 1 .. s - 1 /\ k \in 1 .. Len(L)
        BY <1>0, <3>1
      <4> QED BY <1>1, <4>1
    <3>2. CASE k >= s
      <4>1. k \in s .. Len(M) /\ k + w \in 1 .. Len(L)
        BY <1>0, <3>2
      <4> QED BY <1>2, <4>1
    <3> QED BY <1>0, <3>1, <3>2
  <2> QED BY <2>1 DEF Skipped
<1>7. /\ \A j \in 1 .. I - 1 : OnlyRemoves(L, j, I) /\ L[j].op # "remove" =>
            HandsOver(p, At(L, j - 1), L[j], m)
      /\ OnlyRemoves(L, 0, I) => OnDisk(p, d, n, m)
  <2>1. Joined(p, d, L, I) /\ L[I].op = "begin" /\ GoesOn(L[I + 1])
    BY <1>4, <1>5 DEF Joins
  <2> QED BY <1>4, <1>5, <1>6, <2>1 DEF Joined
<1>n. n + 1 \in Nat \ {0} /\ n = (n + 1) - 1 /\ M[i].seg = n + 1 /\ L[I].seg = n + 1
  <2>1. L[I].seg \in Nat \ {0} /\ M[i].seg = L[I].seg
    BY <1>4, <1>5
  <2>2. \A y \in Nat \ {0} : (y - 1) + 1 \in Nat \ {0} /\ (y - 1) + 1 = y
                             /\ y - 1 = ((y - 1) + 1) - 1
    OBVIOUS
  <2> QED BY ONLY <2>1, <2>2
<1>b. \A k \in DOMAIN d : k < n + 1
  BY <1>4, <1>5, <1>n DEF Ascends
<1>c. o # 0 => \A k \in DOMAIN d : k <= o
  BY DEF Ascends
<1> HIDE DEF n, m
<1>8. ASSUME NEW j \in 0 .. i - 1, OnlyRemoves(M, j, i), j >= s - 1
      PROVE  OnlyRemoves(L, j + w, I)
  <2> SUFFICES ASSUME NEW k \in j + w + 1 .. I - 1
               PROVE  L[k].op = "remove"
    BY DEF OnlyRemoves
  <2>1. k - w \in j + 1 .. i - 1 /\ k - w \in s .. Len(M) /\ (k - w) + w = k
    BY <1>0, <1>a, <1>8
  <2> QED BY <1>2, <1>8, <2>1 DEF OnlyRemoves
<1>9. ASSUME NEW j \in 0 .. i - 1, OnlyRemoves(M, j, i), j < s, s = e, L[e].op = "remove"
      PROVE  OnlyRemoves(L, j, I)
  <2> SUFFICES ASSUME NEW k \in j + 1 .. I - 1
               PROVE  L[k].op = "remove"
    BY DEF OnlyRemoves
  <2>1. CASE k < s
    <3>1. k \in j + 1 .. i - 1 /\ k \in 1 .. s - 1
      BY <1>0, <1>a, <1>3, <2>1
    <3> QED BY <1>1, <1>9, <3>1 DEF OnlyRemoves
  <2>2. CASE k = e
    BY <1>9, <2>2
  <2>3. CASE k > e
    <3>1. k - w \in j + 1 .. i - 1 /\ k - w \in s .. Len(M) /\ (k - w) + w = k
      BY <1>0, <1>a, <1>9, <2>3
    <3> QED BY <1>2, <1>9, <3>1 DEF OnlyRemoves
  <2> QED BY <1>0, <1>a, <1>9, <2>1, <2>2, <2>3
<1>10. ASSUME NEW j \in 1 .. i - 1, OnlyRemoves(M, j, i), M[j].op # "remove"
       PROVE  HandsOver(p, At(M, j - 1), M[j], m)
  <2>0. j \in Nat /\ j >= 1 /\ j < i
    BY <1>a
  <2>1. CASE j >= s
    <3>1. /\ j + w \in 1 .. I - 1 /\ j \in s .. Len(M) /\ j \in 0 .. i - 1
          /\ (j + w) - 1 = (j - 1) + w
      BY <1>0, <1>a, <2>0, <2>1
    <3>2. M[j] = L[j + w]
      BY <1>2, <3>1
    <3>3. HandsOver(p, At(L, (j + w) - 1), M[j], m)
      BY <1>7, <1>8, <1>10, <2>1, <3>1, <3>2, <1>0
    <3>4. CASE j = s
      <4>1. (j + w) - 1 = e /\ e \in 1 .. Len(L)
        BY ONLY <1>0, <3>4
      <4>2. ~IsPrint(At(L, (j + w) - 1))
        BY <4>1, AtIs DEF IsPrint
      <4> QED BY <3>3, <4>2 DEF HandsOver
    <3>5. CASE j > s
      <4>1. j - 1 \in s .. Len(M) /\ j - 1 \in 1 .. Len(M) /\ (j - 1) + w \in 1 .. Len(L)
        BY <1>0, <1>a, <2>0, <3>5
      <4>2. At(M, j - 1) = At(L, (j - 1) + w)
        <5>1. M[j - 1] = L[(j - 1) + w]
          BY <1>2, <4>1
        <5> QED BY ONLY <4>1, <5>1, AtIs
      <4> QED BY <3>1, <3>3, <4>2
    <3> QED BY <1>0, <2>0, <2>1, <3>4, <3>5
  <2>2. CASE j < s
    <3>1. s = e /\ L[e].op = "remove" /\ s > 1
      BY ONLY <1>0, <1>k, <2>0, <2>2
    <3>2. j \in 1 .. I - 1 /\ j \in 0 .. i - 1 /\ j \in 1 .. s - 1 /\ j \in 1 .. Len(M)
          /\ j \in 1 .. Len(L)
      BY <1>0, <1>a, <1>4, <2>0, <2>2
    <3>3. OnlyRemoves(L, j, I)
      BY <1>9, <1>10, <2>2, <3>1, <3>2
    <3>4. M[j] = L[j]
      BY <1>1, <3>2
    <3>5. At(M, j - 1) = At(L, j - 1)
      <4>1. CASE j = 1
        BY <4>1 DEF At
      <4>2. CASE j > 1
        <5>1. j - 1 \in 1 .. s - 1 /\ j - 1 \in 1 .. Len(M) /\ j - 1 \in 1 .. Len(L)
          BY <1>0, <1>a, <2>0, <3>2, <4>2
        <5>2. M[j - 1] = L[j - 1]
          BY <1>1, <5>1
        <5> QED BY ONLY <5>1, <5>2, AtIs
      <4> QED BY <2>0, <4>1, <4>2
    <3> QED BY <1>7, <1>10, <3>2, <3>3, <3>4, <3>5
  <2> QED BY <1>0, <2>0, <2>1, <2>2
<1>11. ASSUME OnlyRemoves(M, 0, i), n \in DOMAIN D
       PROVE  Hands(p, D[n], m)
  <2>0. n \in DOMAIN d /\ D[n] = d[n] /\ n \in Nat /\ 0 \in 0 .. i - 1
    BY <1>11, <1>a
  <2>1. o \in DOMAIN d => n = o
    <3> SUFFICES ASSUME o \in DOMAIN d
                 PROVE  n = o
      OBVIOUS
    <3>1. o < n + 1
      BY <1>b
    <3>2. o \in Nat /\ n <= o
      BY <1>c, <2>0
    <3> QED BY ONLY <2>0, <3>1, <3>2
  <2>2. CASE s = e /\ L[e].op = "remove"
    <3>1. OnlyRemoves(L, 0, I)
      BY <1>0, <1>9, <1>11, <2>0, <2>2
    <3> QED BY <1>7, <2>0, <3>1 DEF OnDisk
  <2>3. CASE s = 1 /\ L[e].op = "end"
    <3>1. OnlyRemoves(L, 0 + w, I) /\ 0 + w = e /\ e \in 1 .. I - 1
      BY <1>0, <1>4, <1>8, <1>11, <2>0, <2>3
    <3>2. HandsOver(p, At(L, e - 1), L[e], m)
      BY <1>7, <2>3, <3>1
    <3> QED BY <2>0, <2>1, <2>3, <3>2
  <2>4. CASE s = 1 /\ L[e].op = "remove" /\ 1 < e
    BY <1>11, <2>1, <2>4
  <2>5. CASE L[e].op \in {"G", "E"}
    <3>1. n <= o /\ o < n + 1 /\ o \in Nat
      BY <1>4, <1>5, <1>b, <1>c, <1>n, <2>0, <2>5 DEF Ascends
    <3>2. n = o
      BY ONLY <2>0, <3>1
    <3> QED BY <2>0, <2>5, <3>2
  <2> QED BY ONLY <1>0, <1>k, <2>2, <2>3, <2>4, <2>5
<1> QED BY <1>10, <1>11 DEF n, m, OnDisk

(* Ascending numbers stay ascending. *)
LEMMA CutAscends ==
    ASSUME NEW d, NEW D, NEW o, NEW O, NEW L, NEW M, NEW s, NEW e, Cut(L, M, s, e),
           DOMAIN D \subseteq DOMAIN d, O = o \/ O = 0, Ascends(d, o, L),
           \A i \in 1 .. Len(L) : L[i].op = "begin" => L[i].seg \in Nat \ {0},
           O \in DOMAIN D \/ \A i \in 1 .. Len(M) : M[i].op # "header"
    PROVE  Ascends(D, O, M)
<1> DEFINE w == e - s + 1
           l(i) == IF i < s THEN i ELSE i + w
<1>0. /\ Len(L) \in Nat /\ Len(M) \in Nat /\ w \in Nat /\ s \in Nat /\ s >= 1 /\ Len(M) = Len(L) - w
      /\ \A i \in 1 .. s - 1 : M[i] = L[i]
      /\ \A i \in s .. Len(M) : M[i] = L[i + w]
  BY ONLY Cut(L, M, s, e) DEF Cut
<1> HIDE DEF w
<1>1. \A i \in 1 .. Len(M) : l(i) \in 1 .. Len(L) /\ M[i] = L[l(i)]
  <2> SUFFICES ASSUME NEW i \in 1 .. Len(M)
               PROVE  l(i) \in 1 .. Len(L) /\ M[i] = L[l(i)]
    OBVIOUS
  <2>1. CASE i < s
    <3>1. i \in 1 .. s - 1 /\ i \in 1 .. Len(L) /\ l(i) = i
      BY ONLY <1>0, <2>1
    <3> QED BY ONLY <1>0, <3>1
  <2>2. CASE ~(i < s)
    <3>1. i \in s .. Len(M) /\ i + w \in 1 .. Len(L) /\ l(i) = i + w
      BY ONLY <1>0, <2>2
    <3> HIDE DEF l
    <3> QED BY ONLY <1>0, <3>1
  <2> QED BY <2>1, <2>2
<1>2. \A i, k \in 1 .. Len(M) : i < k => l(i) < l(k)
  BY ONLY <1>0
<1> HIDE DEF l
<1>3. \A i, k \in 1 .. Len(M) :
         i < k /\ M[i].op = "begin" /\ M[k].op = "begin" => M[i].seg < M[k].seg
  <2> SUFFICES ASSUME NEW i \in 1 .. Len(M), NEW k \in 1 .. Len(M), i < k,
                      M[i].op = "begin", M[k].op = "begin"
               PROVE  M[i].seg < M[k].seg
    OBVIOUS
  <2>1. /\ l(i) \in 1 .. Len(L) /\ M[i] = L[l(i)] /\ L[l(i)].op = "begin"
        /\ l(k) \in 1 .. Len(L) /\ M[k] = L[l(k)] /\ L[l(k)].op = "begin" /\ l(i) < l(k)
    BY <1>1, <1>2
  <2>2. L[l(i)].seg < L[l(k)].seg
    BY ONLY <2>1, Ascends(d, o, L) DEF Ascends
  <2> QED BY ONLY <2>1, <2>2
<1>4. ASSUME NEW i \in 1 .. Len(M), M[i].op = "begin"
      PROVE  M[i].seg > O /\ \A k \in DOMAIN D : k < M[i].seg
  <2>1. l(i) \in 1 .. Len(L) /\ M[i] = L[l(i)] /\ L[l(i)].op = "begin"
    BY <1>1, <1>4
  <2>2. L[l(i)].seg > o /\ \A k \in DOMAIN d : k < L[l(i)].seg
    BY ONLY <2>1, Ascends(d, o, L) DEF Ascends
  <2>3. L[l(i)].seg > 0
    BY <2>1
  <2> QED BY <2>1, <2>2, <2>3
<1>5. O # 0 => \A k \in DOMAIN D : k <= O
  BY DEF Ascends
<1> QED BY <1>3, <1>4, <1>5 DEF Ascends

(* A segment is opened: it goes on from the file before it. *)
LEMMA OpenedJoins ==
    ASSUME NEW p, NEW d, NEW D, NEW o, NEW L, NEW M, NEW e, Opened(L, M, e), L[e].op = "begin",
           \A i \in 1 .. e - 1 : L[i].op \in Records,
           DOMAIN D \subseteq DOMAIN d \cup {L[e].seg},
           \A k \in DOMAIN d : k # L[e].seg => D[k] = d[k], 0 \notin DOMAIN d, DOMAIN d \subseteq Nat,
           o \in Nat, \A i \in 1 .. Len(L) : L[i].op = "begin" => L[i].seg \in Nat \ {0},
           e > 1 => o \in DOMAIN d /\ (L[e - 1].op = "G" => \A m : Hands(p, d[o], m)),
           Ascends(d, o, L), Joins(p, d, L)
    PROVE  Joins(p, D, M) /\ JoinedFile(p, D, M, L[e].seg)
<1>0. /\ Len(L) \in Nat /\ Len(M) \in Nat /\ e \in Nat /\ e >= 1 /\ e <= Len(L)
      /\ Len(M) = Len(L) - e + 1 /\ M[1].op = "header"
  BY ONLY Opened(L, M, e) DEF Opened
<1>1. \A i \in 2 .. Len(M) : M[i] = L[i + (e - 1)]
  BY DEF Opened
<1>2. \A k \in DOMAIN d : k < L[e].seg
  BY <1>0 DEF Ascends
<1>a. L[e].seg \in Nat \ {0}
  BY <1>0
<1>b. \A k \in DOMAIN d : D[k] = d[k]
  BY <1>2, <1>a
<1>c. At(M, 1) = M[1] /\ At(L, e) = L[e] /\ e \in 1 .. Len(L)
  BY <1>0, AtIs
<1>3. ASSUME NEW i \in 1 .. Len(M), M[i].op = "begin", i < Len(M), GoesOn(M[i + 1])
      PROVE  Joined(p, D, M, i)
  <2> SUFFICES ASSUME ~Skipped(D, M, M[i].seg - 1)
               PROVE  /\ \A j \in 1 .. i - 1 : OnlyRemoves(M, j, i) /\ M[j].op # "remove" =>
                            HandsOver(p, At(M, j - 1), M[j], M[i + 1].of)
                      /\ OnlyRemoves(M, 0, i) => OnDisk(p, D, M[i].seg - 1, M[i + 1].of)
    BY DEF Joined
  <2> DEFINE I == i + (e - 1)
             n == M[i].seg - 1
             m == M[i + 1].of
  <2>a. i \in Nat /\ i > 1 /\ i < Len(M) /\ I = i + (e - 1) /\ I \in Nat
    BY <1>0, <1>3
  <2>1. /\ I \in 1 .. Len(L) /\ I > e /\ I < Len(L) /\ i \in 2 .. Len(M) /\ i + 1 \in 2 .. Len(M)
        /\ (i + 1) + (e - 1) = I + 1 /\ I + 1 \in 1 .. Len(L)
    BY ONLY <1>0, <2>a
  <2>2. M[i] = L[I] /\ M[i + 1] = L[I + 1]
    BY <1>1, <2>1
  <2> HIDE DEF I
  <2>3. ~Skipped(d, L, n)
    <3> SUFFICES ASSUME Skipped(d, L, n)
                 PROVE  Skipped(D, M, n)
      OBVIOUS
    <3>1. \A k \in 1 .. Len(M) : M[k].op # "header" => \E l \in 1 .. Len(L) : M[k] = L[l]
      <4> SUFFICES ASSUME NEW k \in 1 .. Len(M), M[k].op # "header"
                   PROVE  \E l \in 1 .. Len(L) : M[k] = L[l]
        OBVIOUS
      <4>1. k \in 2 .. Len(M) /\ k + (e - 1) \in 1 .. Len(L)
        BY <1>0
      <4> QED BY <1>1, <4>1
    <3>2. n # L[e].seg
      BY <1>c DEF Skipped
    <3> QED BY <3>1, <3>2 DEF Skipped
  <2>4. \A j \in 1 .. I - 1 : OnlyRemoves(L, j, I) /\ L[j].op # "remove" =>
            HandsOver(p, At(L, j - 1), L[j], m)
    <3>1. Joined(p, d, L, I) /\ L[I].op = "begin" /\ GoesOn(L[I + 1])
      BY <1>3, <2>1, <2>2 DEF Joins
    <3> QED BY <2>1, <2>2, <2>3, <3>1 DEF Joined
  <2> HIDE DEF n, m
  <2>5. ASSUME NEW j \in 1 .. i - 1, OnlyRemoves(M, j, i)
        PROVE  OnlyRemoves(L, j + (e - 1), I)
    <3> SUFFICES ASSUME NEW k \in j + (e - 1) + 1 .. I - 1
                 PROVE  L[k].op = "remove"
      BY DEF OnlyRemoves
    <3>1. k - (e - 1) \in j + 1 .. i - 1 /\ k - (e - 1) \in 2 .. Len(M) /\ (k - (e - 1)) + (e - 1) = k
      BY <1>0, <2>a, <2>5
    <3> QED BY <1>1, <2>5, <3>1 DEF OnlyRemoves
  <2>6. ASSUME NEW j \in 1 .. i - 1, OnlyRemoves(M, j, i), M[j].op # "remove"
        PROVE  HandsOver(p, At(M, j - 1), M[j], m)
    <3>0. j \in Nat /\ j >= 1 /\ j < i /\ j + (e - 1) \in 1 .. I - 1
          /\ (j + (e - 1)) - 1 = (j - 1) + (e - 1)
      BY <1>0, <2>a
    <3>1. OnlyRemoves(L, j + (e - 1), I)
      BY <2>5, <2>6
    <3>2. CASE j = 1
      <4>1. j + (e - 1) = e
        BY <1>0, <3>2
      <4> QED BY <2>4, <3>0, <3>1, <4>1 DEF HandsOver
    <3>3. CASE j > 1
      <4>1. M[j] = L[j + (e - 1)]
        <5>1. j \in 2 .. Len(M)
          BY ONLY <1>0, <2>a, <3>0, <3>3
        <5> QED BY ONLY <1>1, <5>1
      <4>2. HandsOver(p, At(L, (j - 1) + (e - 1)), M[j], m)
        BY <2>4, <2>6, <3>0, <3>1, <4>1
      <4>3. CASE j = 2
        <5>1. (j - 1) + (e - 1) = e
          BY <1>0, <4>3
        <5> QED BY <1>c, <4>2, <5>1 DEF HandsOver, IsPrint
      <4>4. CASE j > 2
        <5>1. j - 1 \in 2 .. Len(M) /\ j - 1 \in 1 .. Len(M) /\ (j - 1) + (e - 1) \in 1 .. Len(L)
          BY <1>0, <2>a, <3>0, <4>4
        <5>2. M[j - 1] = L[(j - 1) + (e - 1)]
          BY <1>1, <5>1
        <5>3. At(M, j - 1) = At(L, (j - 1) + (e - 1))
          BY ONLY <5>1, <5>2, AtIs
        <5> QED BY <4>2, <5>3
      <4> QED BY <3>0, <3>3, <4>3, <4>4
    <3> QED BY <3>0, <3>2, <3>3
  <2>7. ~OnlyRemoves(M, 0, i)
    <3>1. 1 \in 0 + 1 .. i - 1
      BY <2>a
    <3> QED BY <1>0, <3>1 DEF OnlyRemoves
  <2> QED BY <2>6, <2>7 DEF m
<1>4. JoinedFile(p, D, M, L[e].seg)
  <2> DEFINE n == L[e].seg - 1
  <2> SUFFICES ASSUME Len(M) > 1, GoesOn(M[2]), n \in DOMAIN D
               PROVE  Hands(p, D[n], M[2].of)
    BY DEF JoinedFile, OnDisk
  <2>1. M[2] = L[e + 1] /\ e < Len(L)
    <3>1. 2 \in 2 .. Len(M) /\ 2 + (e - 1) = e + 1 /\ e < Len(L)
      BY ONLY <1>0, Len(M) > 1
    <3> QED BY <1>1, <3>1
  <2>2. n \in DOMAIN d /\ D[n] = d[n]
    BY <1>a, <1>b
  <2>3. /\ \A j \in 1 .. e - 1 : OnlyRemoves(L, j, e) /\ L[j].op # "remove" =>
              HandsOver(p, At(L, j - 1), L[j], M[2].of)
        /\ OnlyRemoves(L, 0, e) => OnDisk(p, d, n, M[2].of)
    <3>1. Joined(p, d, L, e) /\ ~Skipped(d, L, n)
      BY <1>c, <2>2 DEF Joins, Skipped
    <3> QED BY <2>1, <3>1 DEF Joined
  <2>4. CASE e = 1
    <3>1. OnlyRemoves(L, 0, e)
      BY <2>4 DEF OnlyRemoves
    <3> QED BY <2>2, <2>3, <3>1 DEF OnDisk
  <2>5. CASE e > 1
    <3>1. e - 1 \in 1 .. e - 1 /\ L[e - 1].op \in Records
      BY <1>0, <2>5
    <3>2. OnlyRemoves(L, e - 1, e)
      BY <1>0 DEF OnlyRemoves
    <3>3. L[e - 1].op = "G"
      BY <2>3, <3>1, <3>2 DEF HandsOver, Records
    <3>4. n = o
      <4>1. n + 1 \in Nat \ {0} /\ o < n + 1 /\ o # 0
        BY <1>2, <1>a, <2>5
      <4>2. n <= o
        BY <2>2, <4>1 DEF Ascends
      <4>3. n \in Nat /\ o \in Nat
        BY <2>2
      <4> HIDE DEF n
      <4> QED BY <4>1, <4>2, <4>3
    <3> QED BY <2>2, <2>5, <3>3, <3>4
  <2> QED BY <1>0, <2>4, <2>5
<1> QED BY <1>3, <1>4 DEF Joins, Joined

LEMMA OpenedAscends ==
    ASSUME NEW d, NEW D, NEW o, NEW L, NEW M, NEW e, Opened(L, M, e), L[e].op = "begin",
           DOMAIN D = DOMAIN d \cup {L[e].seg}, DOMAIN d \subseteq Nat, L[e].seg \in Nat,
           Ascends(d, o, L)
    PROVE  Ascends(D, L[e].seg, M)
<1> DEFINE l(i) == i + (e - 1)
<1>0. /\ Len(L) \in Nat /\ Len(M) \in Nat /\ e \in Nat /\ e >= 1 /\ e <= Len(L)
      /\ Len(M) = Len(L) - e + 1 /\ M[1].op = "header"
  BY ONLY Opened(L, M, e) DEF Opened
<1>1. \A i \in 1 .. Len(M) : M[i].op = "begin" =>
         l(i) \in 1 .. Len(L) /\ M[i] = L[l(i)] /\ e < l(i) /\ i > 1
  <2>1. \A i \in 2 .. Len(M) : M[i] = L[l(i)]
    BY DEF Opened
  <2>2. \A i \in 1 .. Len(M) : i # 1 => i \in 2 .. Len(M) /\ l(i) \in 1 .. Len(L) /\ e < l(i)
    BY ONLY <1>0
  <2>3. \A i \in 1 .. Len(M) : i # 1 => i > 1
    BY ONLY <1>0
  <2> HIDE DEF l
  <2> SUFFICES ASSUME NEW i \in 1 .. Len(M), M[i].op = "begin"
               PROVE  l(i) \in 1 .. Len(L) /\ M[i] = L[l(i)] /\ e < l(i) /\ i > 1
    OBVIOUS
  <2>4. i # 1
    BY <1>0
  <2> QED BY <2>1, <2>2, <2>3, <2>4
<1>2. \A i, k \in 1 .. Len(M) : i < k => l(i) < l(k)
  BY ONLY <1>0
<1>3. e \in 1 .. Len(L)
  BY <1>0
<1> HIDE DEF l
<1>4. \A s \in DOMAIN d : s < L[e].seg
  BY <1>3 DEF Ascends
<1>5. \A i \in 1 .. Len(M) : M[i].op = "begin" => L[e].seg < M[i].seg
        /\ \A s \in DOMAIN d : s < M[i].seg
  BY <1>1, <1>3 DEF Ascends
<1>6. \A i, k \in 1 .. Len(M) :
          i < k /\ M[i].op = "begin" /\ M[k].op = "begin" => M[i].seg < M[k].seg
  BY <1>1, <1>2 DEF Ascends
<1>7. \A s \in DOMAIN D : s <= L[e].seg
  BY <1>4
<1> QED BY <1>5, <1>6, <1>7 DEF Ascends

(* A record is written. *)
LEMMA WrittenJoins ==
    ASSUME NEW p, NEW d, NEW D, NEW o, NEW L, NEW M, Written(L, M), DOMAIN D = DOMAIN d,
           \A k \in DOMAIN d : k # o => D[k] = d[k],
           DOMAIN d \subseteq Nat, \A i \in 1 .. Len(L) : L[i].op = "begin" => L[i].seg \in Nat,
           Ascends(d, o, L), o \in Nat,
           \A i \in 1 .. Len(L) : L[i].op = "begin" /\ OnlyRemoves(L, 0, i) => o \notin DOMAIN d,
           Joins(p, d, L)
    PROVE  Joins(p, D, M) /\ Ascends(D, o, M)
<1>1. Len(L) \in Nat /\ Len(M) = Len(L) /\ \A i : Alike(At(L, i), At(M, i))
  BY DEF At, Written, Alike
<1>2. \A i \in 1 .. Len(L) :
         /\ Alike(L[i], M[i]) /\ (L[i].op = "remove") = (M[i].op = "remove")
         /\ M[i].op = "begin" \/ L[i].op = "begin" => M[i] = L[i]
         /\ GoesOn(M[i]) => M[i] = L[i]
         /\ M[i].op = "header" => L[i].op = "header"
  BY DEF Written, Alike, GoesOn
<1>3. Ascends(D, o, M)
  BY <1>1, <1>2 DEF Ascends
<1>4. ASSUME NEW i \in 1 .. Len(M), M[i].op = "begin", i < Len(M), GoesOn(M[i + 1]),
             ~Skipped(D, M, M[i].seg - 1)
      PROVE  /\ \A j \in 1 .. i - 1 : OnlyRemoves(M, j, i) /\ M[j].op # "remove" =>
                   HandsOver(p, At(M, j - 1), M[j], M[i + 1].of)
             /\ OnlyRemoves(M, 0, i) => OnDisk(p, D, M[i].seg - 1, M[i + 1].of)
  <2>0. i \in 1 .. Len(L) /\ i \in Nat /\ i < Len(L) /\ i + 1 \in 1 .. Len(L)
    BY <1>1, <1>4
  <2>1. L[i] = M[i] /\ L[i + 1] = M[i + 1]
    BY <1>2, <1>4, <2>0
  <2>2. ~Skipped(d, L, M[i].seg - 1)
    BY <1>1, <1>2, <1>4 DEF Skipped
  <2>3. /\ \A j \in 1 .. i - 1 : OnlyRemoves(L, j, i) /\ L[j].op # "remove" =>
              HandsOver(p, At(L, j - 1), L[j], M[i + 1].of)
        /\ OnlyRemoves(L, 0, i) => OnDisk(p, d, M[i].seg - 1, M[i + 1].of)
    <3>1. Joined(p, d, L, i)
      BY <2>0 DEF Joins
    <3> QED BY ONLY <1>4, <2>0, <2>1, <2>2, <3>1 DEF Joined
  <2>4. \A j \in 0 .. i : OnlyRemoves(M, j, i) => OnlyRemoves(L, j, i)
    <3>1. \A j \in 0 .. i : \A k \in j + 1 .. i - 1 : k \in 1 .. Len(L)
      BY <2>0
    <3> QED BY <1>2, <3>1 DEF OnlyRemoves
  <2>5. ASSUME NEW j \in 1 .. i - 1, OnlyRemoves(M, j, i), M[j].op # "remove"
        PROVE  HandsOver(p, At(M, j - 1), M[j], M[i + 1].of)
    <3>1. j \in 0 .. i /\ j \in 1 .. Len(L)
      BY <2>0
    <3>2. HandsOver(p, At(L, j - 1), L[j], M[i + 1].of)
      BY <1>2, <2>3, <2>4, <2>5, <3>1
    <3>3. Alike(At(L, j - 1), At(M, j - 1)) /\ Alike(L[j], M[j])
      BY <1>1, <1>2, <3>1
    <3> QED BY ONLY <3>2, <3>3, HandsAlike
  <2>6. ASSUME OnlyRemoves(M, 0, i)
        PROVE  OnDisk(p, D, M[i].seg - 1, M[i + 1].of)
    <3>1. OnlyRemoves(L, 0, i)
      BY <2>0, <2>4, <2>6
    <3>2. o \notin DOMAIN d
      BY <1>4, <2>0, <2>1, <3>1
    <3> QED BY <2>3, <3>1, <3>2 DEF OnDisk
  <2> QED BY <2>5, <2>6
<1> QED BY <1>3, <1>4 DEF Joins, Joined

(* The rest of a stream is forgotten. *)
LEMMA PrefixJoins ==
    ASSUME NEW p, NEW d, NEW o, NEW L, NEW M, Prefix(L, M), Joins(p, d, M), Ascends(d, o, M)
    PROVE  Joins(p, d, L) /\ Ascends(d, o, L)
<1>1. Len(L) \in Nat /\ Len(M) \in Nat /\ Len(L) <= Len(M) /\ \A i \in 1 .. Len(L) : M[i] = L[i]
  BY DEF Prefix
<1>2. \A i \in 1 .. Len(L) : i \in 1 .. Len(M)
  BY <1>1
<1>3. Ascends(d, o, L)
  BY <1>1, <1>2 DEF Ascends
<1>4. ASSUME NEW i \in 1 .. Len(L), L[i].op = "begin", i < Len(L), GoesOn(L[i + 1]),
             ~Skipped(d, L, L[i].seg - 1)
      PROVE  /\ \A j \in 1 .. i - 1 : OnlyRemoves(L, j, i) /\ L[j].op # "remove" =>
                   HandsOver(p, At(L, j - 1), L[j], L[i + 1].of)
             /\ OnlyRemoves(L, 0, i) => OnDisk(p, d, L[i].seg - 1, L[i + 1].of)
  <2>0. i \in 1 .. Len(M) /\ i \in Nat /\ i < Len(M) /\ i + 1 \in 1 .. Len(L)
    BY <1>1, <1>4
  <2>1. L[i] = M[i] /\ L[i + 1] = M[i + 1]
    BY <1>1, <1>4, <2>0
  <2>2. ~Skipped(d, M, L[i].seg - 1)
    BY <1>1, <1>2, <1>4 DEF Skipped
  <2>3. /\ \A j \in 1 .. i - 1 : OnlyRemoves(M, j, i) /\ M[j].op # "remove" =>
              HandsOver(p, At(M, j - 1), M[j], L[i + 1].of)
        /\ OnlyRemoves(M, 0, i) => OnDisk(p, d, L[i].seg - 1, L[i + 1].of)
    <3>1. Joined(p, d, M, i)
      BY <2>0 DEF Joins
    <3> QED BY ONLY <1>4, <2>0, <2>1, <2>2, <3>1 DEF Joined
  <2>4. \A j \in 0 .. i : OnlyRemoves(L, j, i) => OnlyRemoves(M, j, i)
    <3>1. \A j \in 0 .. i : \A k \in j + 1 .. i - 1 : k \in 1 .. Len(L)
      BY <1>1, <2>0
    <3> QED BY <1>1, <3>1 DEF OnlyRemoves
  <2>5. ASSUME NEW j \in 1 .. i - 1, OnlyRemoves(L, j, i), L[j].op # "remove"
        PROVE  HandsOver(p, At(L, j - 1), L[j], L[i + 1].of)
    <3>1. j \in 0 .. i /\ j \in 1 .. Len(L) /\ j - 1 \in Int /\ j - 1 <= Len(L)
      BY <1>1, <2>0
    <3>2. L[j] = M[j] /\ At(M, j - 1) = At(L, j - 1)
      BY <1>1, <3>1, PrefixAt
    <3> QED BY <2>3, <2>4, <2>5, <3>1, <3>2
  <2>6. OnlyRemoves(L, 0, i) => OnlyRemoves(M, 0, i)
    BY <2>0, <2>4
  <2> QED BY <2>3, <2>5, <2>6
<1> QED BY <1>3, <1>4 DEF Joins, Joined

(* What is added must join what is there. *)
LEMMA ExtendedJoins ==
    ASSUME NEW p, NEW d, NEW L, NEW M, Prefix(L, M), Joins(p, d, L),
           \A i \in Len(L) + 1 .. Len(M) : Joined(p, d, M, i),
           ~(Len(L) < Len(M) /\ GoesOn(M[Len(L) + 1])),
           \A i \in Len(L) + 1 .. Len(M) : \A k \in 1 .. Len(L) :
               M[i].op = "begin" /\ L[k].op = "begin" => M[i].seg > L[k].seg,
           \A i \in 1 .. Len(M) : M[i].op = "begin" => M[i].seg \in Int
    PROVE  Joins(p, d, M)
<1>1. Len(L) \in Nat /\ Len(M) \in Nat /\ Len(L) <= Len(M) /\ \A i \in 1 .. Len(L) : M[i] = L[i]
  BY DEF Prefix
<1>2. \A i \in 1 .. Len(L) : i \in 1 .. Len(M)
  BY <1>1
<1> SUFFICES ASSUME NEW i \in 1 .. Len(L), M[i].op = "begin", i < Len(M), GoesOn(M[i + 1]),
                    ~Skipped(d, M, M[i].seg - 1)
             PROVE  /\ \A j \in 1 .. i - 1 : OnlyRemoves(M, j, i) /\ M[j].op # "remove" =>
                          HandsOver(p, At(M, j - 1), M[j], M[i + 1].of)
                    /\ OnlyRemoves(M, 0, i) => OnDisk(p, d, M[i].seg - 1, M[i + 1].of)
  BY <1>1 DEF Joins, Joined
<1>3. i \in Nat /\ i >= 1 /\ i < Len(L) /\ i + 1 \in 1 .. Len(L)
  BY <1>1
<1>4. L[i] = M[i] /\ L[i + 1] = M[i + 1]
  BY <1>1, <1>3
<1>5. ~Skipped(d, L, M[i].seg - 1)
  <2> SUFFICES ASSUME Skipped(d, L, M[i].seg - 1)
               PROVE  Skipped(d, M, M[i].seg - 1)
    OBVIOUS
  <2>1. \A k \in 1 .. Len(M) : k \in 1 .. Len(L) \/ k \in Len(L) + 1 .. Len(M)
    BY <1>1
  <2>2. M[i].seg \in Int /\ L[i].op = "begin" /\ L[i].seg = M[i].seg /\ i \in 1 .. Len(M)
    BY <1>1, <1>2, <1>4
  <2>3. \A k \in Len(L) + 1 .. Len(M) : M[k].op = "begin" => M[k].seg # M[i].seg - 1
    <3> SUFFICES ASSUME NEW k \in Len(L) + 1 .. Len(M), M[k].op = "begin"
                 PROVE  M[k].seg # M[i].seg - 1
      OBVIOUS
    <3>1. M[k].seg > M[i].seg /\ k \in 1 .. Len(M)
      BY <1>1, <2>2
    <3>2. M[k].seg \in Int
      BY <3>1
    <3> QED BY <2>2, <3>1, <3>2
  <2> QED BY <1>1, <2>1, <2>3 DEF Skipped
<1>6. /\ \A j \in 1 .. i - 1 : OnlyRemoves(L, j, i) /\ L[j].op # "remove" =>
            HandsOver(p, At(L, j - 1), L[j], M[i + 1].of)
      /\ OnlyRemoves(L, 0, i) => OnDisk(p, d, M[i].seg - 1, M[i + 1].of)
  BY <1>3, <1>4, <1>5 DEF Joins, Joined
<1>7. \A j \in 0 .. i : OnlyRemoves(M, j, i) => OnlyRemoves(L, j, i)
  <2>1. \A j \in 0 .. i : \A k \in j + 1 .. i - 1 : k \in 1 .. Len(L)
    BY <1>3
  <2> QED BY <1>1, <2>1 DEF OnlyRemoves
<1>8. ASSUME NEW j \in 1 .. i - 1, OnlyRemoves(M, j, i), M[j].op # "remove"
      PROVE  HandsOver(p, At(M, j - 1), M[j], M[i + 1].of)
  <2>1. j \in 0 .. i /\ j \in 1 .. Len(L) /\ j - 1 \in Int /\ j - 1 <= Len(L)
    BY <1>1, <1>3
  <2>2. L[j] = M[j] /\ At(M, j - 1) = At(L, j - 1)
    BY <1>1, <2>1, PrefixAt
  <2> QED BY <1>6, <1>7, <1>8, <2>1, <2>2
<1>9. OnlyRemoves(M, 0, i) => OnlyRemoves(L, 0, i)
  BY <1>3, <1>7
<1> QED BY <1>6, <1>8, <1>9

(* Another frame has run. *)
LEMMA GrownHands ==
    ASSUME NEW p, NEW q, Grown(p, q), NEW R, Grammar(p, R), Len(R) \in Nat, R # <<>> => Len(R) > 0,
           NEW m, Hands(p, R, m)
    PROVE  Hands(q, R, m)
<1>1. Len(R) \in 1 .. Len(R) /\ At(R, Len(R)) = R[Len(R)]
  BY AtIs DEF Hands
<1>2. Known(p, R[Len(R)])
  BY <1>1, GrammarKnows
<1> QED BY <1>2 DEF Hands, Known, Grown, MachineOf, IsPrint

LEMMA GrownJoins ==
    ASSUME NEW p, NEW q, Grown(p, q), NEW d, NEW L, Grammar(p, L), Joins(p, d, L),
           \A n \in DOMAIN d : Grammar(p, d[n]) /\ Len(d[n]) \in Nat /\ (d[n] # <<>> => Len(d[n]) > 0)
    PROVE  Joins(q, d, L)
<1>1. \A n, m : OnDisk(p, d, n, m) => OnDisk(q, d, n, m)
  BY GrownHands DEF OnDisk
<1>2. \A j, c, m : HandsOver(p, At(L, j), c, m) => HandsOver(q, At(L, j), c, m)
  BY GrammarKnows DEF HandsOver, Known, Grown, MachineOf, IsPrint
<1> SUFFICES ASSUME NEW i \in 1 .. Len(L)
             PROVE  Joined(q, d, L, i)
  BY DEF Joins
<1>3. Joined(p, d, L, i)
  BY DEF Joins
<1> QED BY ONLY <1>1, <1>2, <1>3 DEF Joined

LEMMA GrownJoinedFile ==
    ASSUME NEW p, NEW q, Grown(p, q), NEW d, NEW L, NEW n, JoinedFile(p, d, L, n),
           \A k \in DOMAIN d : Grammar(p, d[k]) /\ Len(d[k]) \in Nat /\ (d[k] # <<>> => Len(d[k]) > 0)
    PROVE  JoinedFile(q, d, L, n)
<1>1. \A k, m : OnDisk(p, d, k, m) => OnDisk(q, d, k, m)
  BY GrownHands DEF OnDisk
<1> QED BY <1>1 DEF JoinedFile

(* Inputs that come before another. *)
LEMMA GrownBefore ==
    ASSUME NEW p, NEW q, Grown(p, q), NEW L, Grammar(p, L), NEW n, Before(p, L, n)
    PROVE  Before(q, L, n)
<1> SUFFICES ASSUME NEW i \in 1 .. Len(L), IsPrint(L[i])
             PROVE  q[PrintOf(L[i])].input < n
  BY DEF Before
<1>1. PrintOf(L[i]) \in DOMAIN p
  BY DEF Grammar, Follows, Printed
<1> QED BY <1>1 DEF Before, Grown

-----------------------------------------------------------------------------
(* The stream is what the worker has written, what it has not, and what the  *)
(* recorder has still to give it.                                            *)

LEMMA Chained ==
    ASSUME NEW S, NEW F \in Seq(S), NEW q \in Seq(S), NEW t \in Seq(S), NEW L, L = (F \o q) \o t
    PROVE  /\ L \in Seq(S) /\ Len(L) \in Nat /\ Len(F) \in Nat /\ Len(q) \in Nat /\ Len(t) \in Nat
           /\ Len(L) = Len(F) + Len(q) + Len(t)
           /\ \A i \in 1 .. Len(F) : L[i] = F[i]
           /\ \A i \in 1 .. Len(q) : L[Len(F) + i] = q[i]
           /\ \A i \in 1 .. Len(t) : L[Len(F) + Len(q) + i] = t[i]
           /\ \A i \in Len(F) + 1 .. Len(F) + Len(q) : L[i] = q[i - Len(F)]
           /\ \A i \in Len(F) + Len(q) + 1 .. Len(L) : L[i] = t[i - (Len(F) + Len(q))]
  OBVIOUS

LEMMA HeadAndTail ==
    ASSUME NEW S, NEW q \in Seq(S), q # <<>>
    PROVE  /\ Head(q) \in S /\ Head(q) = q[1] /\ Tail(q) \in Seq(S) /\ Len(q) \in Nat /\ Len(q) >= 1
           /\ Len(Tail(q)) = Len(q) - 1 /\ \A i \in 1 .. Len(q) - 1 : Tail(q)[i] = q[i + 1]
  OBVIOUS

(* What the worker's steps do to it. *)
LEMMA Advances ==
    ASSUME NEW S, NEW F \in Seq(S), NEW q \in Seq(S), NEW t \in Seq(S), NEW L, L = (F \o q) \o t,
           q # <<>>, NEW e, e = Len(F) + 1
    PROVE  /\ e \in 1 .. Len(L) /\ L[e] = Head(q) /\ \A i \in 1 .. e - 1 : L[i] = F[i]
           /\ Cut(L, (F \o Tail(q)) \o t, e, e) /\ Cut(L, (<<>> \o Tail(q)) \o t, 1, e)
<1>1. /\ Tail(q) \in Seq(S) /\ Len(q) \in Nat /\ Len(q) >= 1 /\ Len(Tail(q)) = Len(q) - 1
      /\ \A i \in 1 .. Len(q) - 1 : Tail(q)[i] = q[i + 1]
  BY ONLY q \in Seq(S), q # <<>>, HeadAndTail
<1>2. /\ Len(L) \in Nat /\ Len(F) \in Nat /\ Len(t) \in Nat /\ Len(L) = Len(F) + Len(q) + Len(t)
      /\ \A i \in 1 .. Len(F) : L[i] = F[i]
      /\ \A i \in Len(F) + 1 .. Len(F) + Len(q) : L[i] = q[i - Len(F)]
      /\ \A i \in Len(F) + Len(q) + 1 .. Len(L) : L[i] = t[i - (Len(F) + Len(q))]
  BY ONLY F \in Seq(S), q \in Seq(S), t \in Seq(S), L = (F \o q) \o t, Chained
<1>3. e \in Nat /\ e = Len(F) + 1
  BY <1>2
<1>4. e \in 1 .. Len(L) /\ L[e] = q[1] /\ e \in Len(F) + 1 .. Len(F) + Len(q) /\ e - Len(F) = 1
  BY <1>1, <1>2, <1>3
<1>5. Cut(L, (F \o Tail(q)) \o t, e, e)
  <2> DEFINE M == (F \o Tail(q)) \o t
  <2>1. /\ Len(M) \in Nat /\ Len(M) = Len(F) + Len(Tail(q)) + Len(t)
        /\ \A i \in 1 .. Len(F) : M[i] = F[i]
        /\ \A i \in Len(F) + 1 .. Len(F) + Len(Tail(q)) : M[i] = Tail(q)[i - Len(F)]
        /\ \A i \in Len(F) + Len(Tail(q)) + 1 .. Len(M) : M[i] = t[i - (Len(F) + Len(Tail(q)))]
    BY ONLY F \in Seq(S), <1>1, t \in Seq(S), M = (F \o Tail(q)) \o t, Chained
  <2> HIDE DEF M
  <2>2. Len(M) = Len(L) - 1 /\ e \in 1 .. e /\ e - e + 1 = 1
    BY <1>1, <1>2, <1>3, <2>1
  <2>3. \A i \in 1 .. e - 1 : M[i] = L[i]
    BY <1>2, <1>3, <2>1
  <2>4. ASSUME NEW i \in e .. Len(M)
        PROVE  M[i] = L[i + 1]
    <3>1. CASE i <= Len(F) + Len(Tail(q))
      <4>1. /\ i \in Len(F) + 1 .. Len(F) + Len(Tail(q)) /\ i - Len(F) \in 1 .. Len(q) - 1
            /\ (i - Len(F)) + 1 = (i + 1) - Len(F) /\ i + 1 \in Len(F) + 1 .. Len(F) + Len(q)
        BY <1>1, <1>2, <1>3, <2>1, <3>1
      <4> QED BY <1>1, <1>2, <2>1, <4>1
    <3>2. CASE i > Len(F) + Len(Tail(q))
      <4>1. /\ i \in Len(F) + Len(Tail(q)) + 1 .. Len(M) /\ i + 1 \in Len(F) + Len(q) + 1 .. Len(L)
            /\ i - (Len(F) + Len(Tail(q))) = (i + 1) - (Len(F) + Len(q))
        BY <1>1, <1>2, <1>3, <2>1, <2>2, <3>2
      <4> QED BY <1>2, <2>1, <4>1
    <3> QED BY ONLY <1>1, <1>2, <1>3, <2>1, <2>4, <3>1, <3>2
  <2>5. Cut(L, M, e, e)
    BY <1>2, <1>4, <2>1, <2>2, <2>3, <2>4 DEF Cut
  <2> QED BY <2>5 DEF M
<1>6. Cut(L, (<<>> \o Tail(q)) \o t, 1, e)
  <2> DEFINE M == (<<>> \o Tail(q)) \o t
  <2>0. <<>> \in Seq(S) /\ Len(<<>>) = 0
    OBVIOUS
  <2>1. /\ Len(M) \in Nat /\ Len(M) = 0 + Len(Tail(q)) + Len(t)
        /\ \A i \in 0 + 1 .. 0 + Len(Tail(q)) : M[i] = Tail(q)[i - 0]
        /\ \A i \in 0 + Len(Tail(q)) + 1 .. Len(M) : M[i] = t[i - (0 + Len(Tail(q)))]
    <3>1. /\ Len(M) \in Nat /\ Len(M) = Len(<<>>) + Len(Tail(q)) + Len(t)
          /\ \A i \in Len(<<>>) + 1 .. Len(<<>>) + Len(Tail(q)) : M[i] = Tail(q)[i - Len(<<>>)]
          /\ \A i \in Len(<<>>) + Len(Tail(q)) + 1 .. Len(M) :
                M[i] = t[i - (Len(<<>>) + Len(Tail(q)))]
      BY ONLY <2>0, <1>1, t \in Seq(S), M = (<<>> \o Tail(q)) \o t, Chained
    <3> QED BY ONLY <2>0, <3>1
  <2> HIDE DEF M
  <2>2. Len(M) = Len(L) - e /\ 1 \in 1 .. e /\ e - 1 + 1 = e
    BY <1>1, <1>2, <1>3, <2>1
  <2>4. ASSUME NEW i \in 1 .. Len(M)
        PROVE  M[i] = L[i + e]
    <3>1. CASE i <= Len(Tail(q))
      <4>1. /\ i \in 0 + 1 .. 0 + Len(Tail(q)) /\ i \in 1 .. Len(q) - 1 /\ i - 0 = i
            /\ i + 1 = (i + e) - Len(F) /\ i + e \in Len(F) + 1 .. Len(F) + Len(q)
        BY <1>1, <1>2, <1>3, <2>1, <3>1
      <4> QED BY <1>1, <1>2, <2>1, <4>1
    <3>2. CASE i > Len(Tail(q))
      <4>1. /\ i \in 0 + Len(Tail(q)) + 1 .. Len(M) /\ i + e \in Len(F) + Len(q) + 1 .. Len(L)
            /\ i - (0 + Len(Tail(q))) = (i + e) - (Len(F) + Len(q))
        BY <1>1, <1>2, <1>3, <2>1, <2>2, <3>2
      <4> QED BY <1>2, <2>1, <4>1
    <3> QED BY ONLY <1>1, <1>2, <1>3, <2>1, <2>4, <3>1, <3>2
  <2>5. Cut(L, M, 1, e)
    BY <1>2, <1>4, <2>1, <2>2, <2>4 DEF Cut
  <2> QED BY <2>5 DEF M
<1> QED BY <1>2, <1>3, <1>4, <1>5, <1>6

LEMMA AdvancesOpened ==
    ASSUME NEW S, NEW F \in Seq(S), NEW q \in Seq(S), NEW t \in Seq(S), NEW L, L = (F \o q) \o t,
           q # <<>>, NEW h \in S, h.op = "header"
    PROVE  Opened(L, (<<h>> \o Tail(q)) \o t, Len(F) + 1)
<1> DEFINE M == (<<h>> \o Tail(q)) \o t
           N == (<<>> \o Tail(q)) \o t
<1>1. /\ Len(M) \in Nat /\ Len(N) \in Nat /\ Len(M) = Len(N) + 1 /\ M[1] = h
      /\ \A i \in 2 .. Len(M) : M[i] = N[i - 1]
  <2>1. Tail(q) \in Seq(S) /\ <<h>> \in Seq(S)
    BY HeadAndTail
  <2> QED BY ONLY <2>1, t \in Seq(S), h \in S, M = (<<h>> \o Tail(q)) \o t,
                  N = (<<>> \o Tail(q)) \o t
<1>2. Cut(L, N, 1, Len(F) + 1)
  BY Advances
<1>3. Len(F) \in Nat
  OBVIOUS
<1> HIDE DEF M, N
<1>4. \A i \in 2 .. Len(M) : M[i] = L[i + ((Len(F) + 1) - 1)]
  <2> SUFFICES ASSUME NEW i \in 2 .. Len(M)
               PROVE  M[i] = L[i + ((Len(F) + 1) - 1)]
    OBVIOUS
  <2>1. i - 1 \in 1 .. Len(N) /\ (i - 1) + ((Len(F) + 1) - 1 + 1) = i + ((Len(F) + 1) - 1)
    BY <1>1, <1>3
  <2> QED BY <1>1, <1>2, <2>1 DEF Cut
<1>5. Opened(L, M, Len(F) + 1)
  <2>1. Len(M) = Len(L) - (Len(F) + 1) + 1 /\ Len(L) \in Nat /\ Len(F) + 1 \in 1 .. Len(L)
    BY <1>1, <1>2, <1>3 DEF Cut
  <2> QED BY <1>1, <1>4, <2>1 DEF Opened
<1> QED BY <1>5 DEF M

LEMMA AdvancesWritten ==
    ASSUME NEW S, NEW F \in Seq(S), NEW q \in Seq(S), NEW t \in Seq(S), NEW L, L = (F \o q) \o t,
           q # <<>>, NEW r \in S, Alike(Head(q), r)
    PROVE  Written(L, (Append(F, r) \o Tail(q)) \o t)
<1> DEFINE M == (Append(F, r) \o Tail(q)) \o t
           N == (F \o Tail(q)) \o t
           e == Len(F) + 1
<1>1. Len(F) \in Nat /\ e \in 1 .. Len(L) /\ L[e] = Head(q) /\ Cut(L, N, e, e)
  <2>1. Len(F) + 1 \in 1 .. Len(L) /\ L[Len(F) + 1] = Head(q)
    BY Advances
  <2>2. Cut(L, N, Len(F) + 1, Len(F) + 1)
    BY Advances
  <2> QED BY <2>1, <2>2
<1>2. /\ Len(M) \in Nat /\ Len(N) \in Nat /\ Len(M) = Len(N) + 1 /\ M[e] = r
      /\ \A i \in 1 .. e - 1 : M[i] = N[i]
      /\ \A i \in e + 1 .. Len(M) : M[i] = N[i - 1]
  <2>1. Tail(q) \in Seq(S) /\ Append(F, r) \in Seq(S) /\ F \in Seq(S)
    BY HeadAndTail
  <2>2. /\ Len(Append(F, r)) = e /\ Append(F, r)[e] = r
        /\ \A i \in 1 .. e - 1 : Append(F, r)[i] = F[i]
    OBVIOUS
  <2> DEFINE A == Append(F, r)
             T == Tail(q)
  <2>3. A \in Seq(S) /\ T \in Seq(S) /\ Len(A) = e /\ A[e] = r /\ \A i \in 1 .. e - 1 : A[i] = F[i]
    BY <2>1, <2>2
  <2>4. M = (A \o T) \o t /\ N = (F \o T) \o t
    OBVIOUS
  <2>5. Len(F) \in Nat /\ e = Len(F) + 1
    BY <1>1
  <2> HIDE DEF A, T, M, N, e
  <2>a. A \in Seq(S) /\ T \in Seq(S)
    BY <2>3
  <2>b. M = (A \o T) \o t
    BY <2>4
  <2>6. /\ Len(M) \in Nat /\ Len(T) \in Nat /\ Len(t) \in Nat /\ Len(M) = e + Len(T) + Len(t)
        /\ \A i \in 1 .. e : M[i] = A[i]
        /\ \A i \in e + 1 .. e + Len(T) : M[i] = T[i - e]
        /\ \A i \in e + Len(T) + 1 .. Len(M) : M[i] = t[i - (e + Len(T))]
    <3>1. /\ Len(M) \in Nat /\ Len(T) \in Nat /\ Len(t) \in Nat /\ Len(M) = Len(A) + Len(T) + Len(t)
          /\ \A i \in 1 .. Len(A) : M[i] = A[i]
          /\ \A i \in Len(A) + 1 .. Len(A) + Len(T) : M[i] = T[i - Len(A)]
          /\ \A i \in Len(A) + Len(T) + 1 .. Len(M) : M[i] = t[i - (Len(A) + Len(T))]
      BY ONLY <2>a, <2>b, t \in Seq(S), Chained
    <3> QED BY ONLY <2>3, <3>1
  <2>7. /\ Len(N) \in Nat /\ Len(N) = Len(F) + Len(T) + Len(t)
        /\ \A i \in 1 .. Len(F) : N[i] = F[i]
        /\ \A i \in Len(F) + 1 .. Len(F) + Len(T) : N[i] = T[i - Len(F)]
        /\ \A i \in Len(F) + Len(T) + 1 .. Len(N) : N[i] = t[i - (Len(F) + Len(T))]
    BY ONLY <2>3, <2>4, F \in Seq(S), t \in Seq(S), Chained
  <2>8. Len(M) = Len(N) + 1 /\ e \in 1 .. e
    BY ONLY <2>5, <2>6, <2>7
  <2>9. ASSUME NEW i \in 1 .. e - 1
        PROVE  M[i] = N[i]
    <3>1. i \in 1 .. e /\ i \in 1 .. Len(F)
      BY ONLY <2>5, <2>9
    <3> QED BY <2>3, <2>6, <2>7, <3>1
  <2>10. ASSUME NEW i \in e + 1 .. Len(M)
         PROVE  M[i] = N[i - 1]
    <3>1. CASE i <= e + Len(T)
      <4>1. /\ i \in e + 1 .. e + Len(T) /\ i - 1 \in Len(F) + 1 .. Len(F) + Len(T)
            /\ (i - 1) - Len(F) = i - e
        BY ONLY <2>5, <2>6, <2>7, <2>10, <3>1
      <4>2. M[i] = T[i - e]
        BY ONLY <2>6, <4>1
      <4>3. N[i - 1] = T[(i - 1) - Len(F)]
        BY ONLY <2>7, <4>1
      <4> QED BY ONLY <4>1, <4>2, <4>3
    <3>2. CASE i > e + Len(T)
      <4>1. /\ i \in e + Len(T) + 1 .. Len(M) /\ i - 1 \in Len(F) + Len(T) + 1 .. Len(N)
            /\ (i - 1) - (Len(F) + Len(T)) = i - (e + Len(T))
        BY ONLY <2>5, <2>6, <2>7, <2>8, <2>10, <3>2
      <4>2. M[i] = t[i - (e + Len(T))]
        BY ONLY <2>6, <4>1
      <4>3. N[i - 1] = t[(i - 1) - (Len(F) + Len(T))]
        BY ONLY <2>7, <4>1
      <4> QED BY ONLY <4>1, <4>2, <4>3
    <3> QED BY ONLY <2>5, <2>6, <2>10, <3>1, <3>2
  <2> QED BY <2>3, <2>6, <2>7, <2>8, <2>9, <2>10
<1> HIDE DEF M, N, e
<1>3. Len(L) \in Nat /\ Len(N) = Len(L) - 1 /\ e - e + 1 = 1
  BY <1>1 DEF Cut
<1>4. ASSUME NEW i \in 1 .. Len(L)
      PROVE  Alike(L[i], M[i])
  <2>1. CASE i = e
    BY <1>1, <1>2, <2>1
  <2>2. CASE i < e
    <3>1. i \in 1 .. e - 1
      BY <1>1, <2>2
    <3>2. M[i] = L[i]
      BY <1>1, <1>2, <3>1 DEF Cut
    <3> QED BY <3>2 DEF Alike
  <2>3. CASE i > e
    <3>1. i \in e + 1 .. Len(M) /\ i - 1 \in e .. Len(N) /\ (i - 1) + 1 = i
      BY ONLY <1>1, <1>2, <1>3, <1>4, <2>3
    <3>2. M[i] = L[i]
      BY <1>1, <1>2, <1>3, <3>1 DEF Cut
    <3> QED BY <3>2 DEF Alike
  <2> QED BY <1>1, <2>1, <2>2, <2>3
<1>5. Written(L, M)
  BY <1>2, <1>3, <1>4 DEF Written
<1> QED BY <1>5 DEF M

LEMMA ItemIs ==
    ASSUME NEW x \in Item
    PROVE  /\ x.op \in Records \cup Commands
           /\ x.op = "begin" => x.seg \in Nat \ {0}
           /\ x.op = "remove" => x.seg \in Int
           /\ x.op = "snapshot" => x.kind \in {"C", "R"} /\ x.of \in Machine
           /\ x.op = "I" => x.frame \in Int /\ x.input \in Int
           /\ x.op = "frame" => x.of \in Machine /\ x.reuse \in BOOLEAN
           /\ x.op = "H" => x.id \in Int /\ x.save \in Int
  BY DEF Item, Records, Commands

LEMMA StreamIs ==
    ASSUME ReplayTypes
    PROVE  /\ File \in Seq(Item) /\ Stream \in Seq(Item) /\ queue \in Seq(Item) /\ todo \in Seq(Item)
           /\ Len(File) \in Nat /\ Len(queue) \in Nat /\ Len(todo) \in Nat /\ Len(Stream) \in Nat
           /\ Len(Stream) = Len(File) + Len(queue) + Len(todo)
           /\ \A i \in 1 .. Len(Stream) : Stream[i] \in Item
           /\ \A i \in 1 .. Len(File) : Stream[i] = File[i]
           /\ \A i \in Len(File) + 1 .. Len(File) + Len(queue) : Stream[i] = queue[i - Len(File)]
           /\ \A i \in Len(File) + Len(queue) + 1 .. Len(Stream) :
                 Stream[i] = todo[i - (Len(File) + Len(queue))]
           /\ writer.open \in Nat /\ DOMAIN disk \subseteq Nat /\ 0 \notin DOMAIN disk
           /\ File # <<>> => writer.open \in DOMAIN disk
<1>1. queue \in Seq(Item) /\ todo \in Seq(Item) /\ DiskType
  BY DEF ReplayTypes
<1>2. File \in Seq(Item)
  <2>1. CASE writer.open \in DOMAIN disk
    BY <1>1, <2>1 DEF DiskType, File
  <2>2. CASE writer.open \notin DOMAIN disk
    BY <2>2 DEF File
  <2> QED BY <2>1, <2>2
<1>3. Stream = (File \o queue) \o todo
  BY DEF Stream
<1>4. /\ Stream \in Seq(Item) /\ Len(File) \in Nat /\ Len(queue) \in Nat /\ Len(todo) \in Nat
      /\ Len(Stream) \in Nat /\ Len(Stream) = Len(File) + Len(queue) + Len(todo)
      /\ \A i \in 1 .. Len(File) : Stream[i] = File[i]
      /\ \A i \in Len(File) + 1 .. Len(File) + Len(queue) : Stream[i] = queue[i - Len(File)]
      /\ \A i \in Len(File) + Len(queue) + 1 .. Len(Stream) :
            Stream[i] = todo[i - (Len(File) + Len(queue))]
  BY ONLY <1>1, <1>2, <1>3, Chained
<1>5. \A i \in 1 .. Len(Stream) : Stream[i] \in Item
  BY <1>4
<1>6. /\ writer.open \in Nat /\ DOMAIN disk \subseteq Nat /\ 0 \notin DOMAIN disk
      /\ File # <<>> => writer.open \in DOMAIN disk
  BY <1>1 DEF DiskType, File
<1> QED BY <1>1, <1>2, <1>4, <1>5, <1>6

(* The end of the stream does not notice what is done at the front. *)
LEMMA CutTips ==
    ASSUME NEW L, NEW M, NEW s, NEW e, Cut(L, M, s, e)
    PROVE  /\ e < Len(L) => Tip(M) = Tip(L)
           /\ e < Len(L) - 1 => BeforeTip(M) = BeforeTip(L)
<1> DEFINE w == e - s + 1
<1>0. /\ Len(L) \in Nat /\ Len(M) \in Nat /\ e \in Nat /\ s \in Nat /\ w \in Nat /\ s >= 1
      /\ s <= e /\ e <= Len(L) /\ w = e - s + 1 /\ Len(M) = Len(L) - w
  BY ONLY Cut(L, M, s, e) DEF Cut
<1>1. \A i \in s .. Len(M) : M[i] = L[i + w]
  BY DEF Cut
<1> HIDE DEF w
<1>2. ASSUME e < Len(L)
      PROVE  At(M, Len(M)) = At(L, Len(L))
  <2>1. /\ Len(M) \in s .. Len(M) /\ Len(M) + w = Len(L) /\ Len(M) \in 1 .. Len(M)
        /\ Len(L) \in 1 .. Len(L)
    BY ONLY <1>0, <1>2
  <2>2. M[Len(M)] = L[Len(L)]
    BY <1>1, <2>1
  <2> QED BY ONLY <2>1, <2>2, AtIs
<1>3. ASSUME e < Len(L) - 1
      PROVE  At(M, Len(M) - 1) = At(L, Len(L) - 1)
  <2>1. /\ Len(M) - 1 \in s .. Len(M) /\ (Len(M) - 1) + w = Len(L) - 1
        /\ Len(M) - 1 \in 1 .. Len(M) /\ Len(L) - 1 \in 1 .. Len(L)
    BY ONLY <1>0, <1>3
  <2>2. M[Len(M) - 1] = L[Len(L) - 1]
    BY <1>1, <2>1
  <2> QED BY ONLY <2>1, <2>2, AtIs
<1> QED BY <1>2, <1>3 DEF Tip, BeforeTip

LEMMA OpenedTips ==
    ASSUME NEW L, NEW M, NEW e, Opened(L, M, e)
    PROVE  /\ e < Len(L) => Tip(M) = Tip(L)
           /\ e < Len(L) - 1 => BeforeTip(M) = BeforeTip(L)
<1>0. /\ Len(L) \in Nat /\ Len(M) \in Nat /\ e \in Nat /\ e >= 1 /\ e <= Len(L)
      /\ Len(M) = Len(L) - e + 1
  BY ONLY Opened(L, M, e) DEF Opened
<1>1. \A i \in 2 .. Len(M) : M[i] = L[i + (e - 1)]
  BY DEF Opened
<1>2. ASSUME e < Len(L)
      PROVE  At(M, Len(M)) = At(L, Len(L))
  <2>1. /\ Len(M) \in 2 .. Len(M) /\ Len(M) + (e - 1) = Len(L) /\ Len(M) \in 1 .. Len(M)
        /\ Len(L) \in 1 .. Len(L)
    BY ONLY <1>0, <1>2
  <2>2. M[Len(M)] = L[Len(L)]
    BY <1>1, <2>1
  <2> QED BY ONLY <2>1, <2>2, AtIs
<1>3. ASSUME e < Len(L) - 1
      PROVE  At(M, Len(M) - 1) = At(L, Len(L) - 1)
  <2>1. /\ Len(M) - 1 \in 2 .. Len(M) /\ (Len(M) - 1) + (e - 1) = Len(L) - 1
        /\ Len(M) - 1 \in 1 .. Len(M) /\ Len(L) - 1 \in 1 .. Len(L)
    BY ONLY <1>0, <1>3
  <2>2. M[Len(M) - 1] = L[Len(L) - 1]
    BY <1>1, <2>1
  <2> QED BY ONLY <2>1, <2>2, AtIs
<1> QED BY <1>2, <1>3 DEF Tip, BeforeTip

(* The three ways in which the worker takes the e-th item of the stream. *)
Taken(L, M, e) ==
    \/ L[e].op = "begin" /\ Opened(L, M, e)
    \/ L[e].op \in {"end", "remove", "G", "E"} /\ \E s : Cut(L, M, s, e)
    \/ Written(L, M)

LEMMA TakenIs ==
    ASSUME NEW p, NEW L, NEW M, NEW e \in 1 .. Len(L), Taken(L, M, e), NEW n
    PROVE  /\ Len(L) \in Nat /\ Len(M) \in Nat
           /\ Grammar(p, L) => Grammar(p, M)
           /\ Before(p, L, n) => Before(p, M, n)
           /\ IsMachine(Tip(L)) \/ Tip(L).op \in {"I", "X"} => Alike(Tip(L), Tip(M))
           /\ (Tip(L).op = "I" \/ e < Len(L)) /\ IsMachine(BeforeTip(L)) =>
                 Alike(BeforeTip(L), BeforeTip(M))
<1>0. At(L, e) = L[e]
  BY AtIs
<1>1. CASE L[e].op = "begin" /\ Opened(L, M, e)
  <2>0. Len(L) \in Nat /\ Len(M) \in Nat
    BY <1>1 DEF Opened
  <2>1. Grammar(p, L) => Grammar(p, M)
    BY <1>1, OpenedFollows
  <2>2. Before(p, L, n) => Before(p, M, n)
    <3>1. \A i \in 1 .. Len(M) : i = 1 \/ \E k \in 1 .. Len(L) : M[i] = L[k]
      <4> SUFFICES ASSUME NEW i \in 1 .. Len(M), i # 1
                   PROVE  \E k \in 1 .. Len(L) : M[i] = L[k]
        OBVIOUS
      <4>1. i \in 2 .. Len(M) /\ i + (e - 1) \in 1 .. Len(L)
        BY <1>1, <2>0 DEF Opened
      <4> QED BY <1>1, <4>1 DEF Opened
    <3>2. ~IsPrint(M[1])
      BY <1>1 DEF Opened, IsPrint
    <3> QED BY <3>1, <3>2 DEF Before
  <2>3. IsMachine(Tip(L)) \/ Tip(L).op \in {"I", "X"} => e < Len(L)
    BY <1>0, <1>1, <2>0 DEF IsMachine, IsPrint, Tip
  <2>4. e < Len(L) /\ IsMachine(BeforeTip(L)) => e < Len(L) - 1
    <3>1. e < Len(L) /\ ~(e < Len(L) - 1) => e = Len(L) - 1
      BY <2>0
    <3> QED BY <1>0, <1>1, <3>1 DEF IsMachine, IsPrint, BeforeTip
  <2> QED BY <1>1, <2>0, <2>1, <2>2, <2>3, <2>4, OpenedTips DEF Alike
<1>2. CASE L[e].op \in {"end", "remove", "G", "E"} /\ \E s : Cut(L, M, s, e)
  <2> PICK s : Cut(L, M, s, e)
    BY <1>2
  <2>0. Len(L) \in Nat /\ Len(M) \in Nat
    BY DEF Cut
  <2>1. Grammar(p, L) => Grammar(p, M)
    BY <1>2, CutFollows
  <2>2. Before(p, L, n) => Before(p, M, n)
    <3>1. \A i \in 1 .. Len(M) : \E k \in 1 .. Len(L) : M[i] = L[k]
      <4> SUFFICES ASSUME NEW i \in 1 .. Len(M)
                   PROVE  \E k \in 1 .. Len(L) : M[i] = L[k]
        OBVIOUS
      <4>1. s \in 1 .. e /\ Len(M) = Len(L) - (e - s + 1)
        BY DEF Cut
      <4>2. CASE i < s
        <5>1. i \in 1 .. s - 1 /\ i \in 1 .. Len(L)
          BY <2>0, <4>1, <4>2
        <5> QED BY <5>1 DEF Cut
      <4>3. CASE i >= s
        <5>1. i \in s .. Len(M) /\ i + (e - s + 1) \in 1 .. Len(L)
          BY <2>0, <4>1, <4>3
        <5> QED BY <5>1 DEF Cut
      <4> QED BY <2>0, <4>1, <4>2, <4>3
    <3> QED BY <3>1 DEF Before
  <2>3. IsMachine(Tip(L)) \/ Tip(L).op \in {"I", "X"} => e < Len(L)
    BY <1>0, <1>2, <2>0 DEF IsMachine, IsPrint, Tip
  <2>4. e < Len(L) /\ IsMachine(BeforeTip(L)) => e < Len(L) - 1
    <3>1. e < Len(L) /\ ~(e < Len(L) - 1) => e = Len(L) - 1
      BY <2>0
    <3> QED BY <1>0, <1>2, <3>1 DEF IsMachine, IsPrint, BeforeTip
  <2> QED BY <2>0, <2>1, <2>2, <2>3, <2>4, CutTips DEF Alike
<1>3. CASE Written(L, M)
  <2>1. Len(L) \in Nat /\ Len(M) = Len(L) /\ \A i : Alike(At(L, i), At(M, i))
    BY <1>3 DEF At, Written, Alike
  <2>2. \A i \in 1 .. Len(L) : Alike(L[i], M[i])
    BY <1>3 DEF Written
  <2>3. Before(p, L, n) => Before(p, M, n)
    BY <2>1, <2>2, AlikeIs DEF Before
  <2>4. Grammar(p, L) => Grammar(p, M)
    BY <1>3, WrittenFollows
  <2> QED BY <2>1, <2>3, <2>4 DEF Tip, BeforeTip
<1> QED BY <1>1, <1>2, <1>3 DEF Taken

-----------------------------------------------------------------------------
(* The worker.                                                               *)

LEMMA TakenFacts ==
    ASSUME ReplayTypes, queue # <<>>
    PROVE  LET e == Len(File) + 1
               c == Head(queue)
           IN /\ e \in 1 .. Len(Stream) /\ Stream[e] = c /\ c \in Item /\ c.op \in Commands
              /\ e <= Len(File) + Len(queue)
              /\ \A i \in 1 .. e - 1 : Stream[i] = File[i]
              /\ play.phase = "no"
              /\ \A i \in 1 .. Len(Tail(queue)) : \E k \in 1 .. Len(queue) : Tail(queue)[i] = queue[k]
              /\ Tail(queue) \in Seq(Item) /\ 1 \in 1 .. Len(queue) /\ c = queue[1]
<1>1. File \in Seq(Item) /\ queue \in Seq(Item) /\ todo \in Seq(Item)
        /\ Stream = (File \o queue) \o todo
      /\ Len(File) \in Nat
  BY StreamIs DEF Stream
<1>2. Len(File) + 1 \in 1 .. Len(Stream) /\ Stream[Len(File) + 1] = Head(queue)
      /\ \A i \in 1 .. (Len(File) + 1) - 1 : Stream[i] = File[i]
  BY <1>1, Advances
<1>3. /\ Head(queue) \in Item /\ Head(queue) = queue[1] /\ Tail(queue) \in Seq(Item)
      /\ Len(queue) \in Nat /\ Len(queue) >= 1
      /\ Len(Tail(queue)) = Len(queue) - 1
           /\ \A i \in 1 .. Len(queue) - 1 : Tail(queue)[i] = queue[i + 1]
  BY <1>1, HeadAndTail
<1>4. \A i \in 1 .. Len(Tail(queue)) : \E k \in 1 .. Len(queue) : Tail(queue)[i] = queue[k]
  <2>1. \A i \in 1 .. Len(Tail(queue)) : i \in 1 .. Len(queue) - 1 /\ i + 1 \in 1 .. Len(queue)
    BY ONLY <1>3
  <2> QED BY <1>3, <2>1
<1>5. 1 \in 1 .. Len(queue) /\ Head(queue).op \in Commands
  BY <1>3 DEF ReplayTypes
<1>6. play.phase = "no"
  BY DEF ReplayTypes
<1> QED BY <1>1, <1>2, <1>3, <1>4, <1>5, <1>6

Begun == IF Head(queue).op = "begin" THEN {Head(queue).seg} ELSE {}

(* Whatever the worker takes from the front, the recorder's end of the stream
   and the numbers of the segments stay as they are. *)
LEMMA WorkRest ==
    ASSUME RecordingInv, queue # <<>>, ~writer.error, queue' = Tail(queue),
           UNCHANGED <<host, past, rec, todo, play>>, writer'.error = FALSE, DiskType',
           Taken(Stream, Stream', Len(File) + 1),
           DOMAIN disk' \subseteq DOMAIN disk \cup Begun, writer'.open \in {0, writer.open} \cup Begun,
           Joins(past', disk', Stream'), JoinedFile(past', disk', Stream', writer'.open),
           Ascends(disk', writer'.open, Stream'), HoldsSave(File', writer'.save),
           writer'.open \in DOMAIN disk' => File' # <<>>, FilesInv'
    PROVE  RecordingInv'
<1>0. ReplayTypes /\ StreamInv /\ (Recording => RecorderInv /\ Batch /\ NumbersInv /\ TipInv)
  BY DEF RecordingInv
<1> DEFINE e == Len(File) + 1
           L == Stream
           M == Stream'
<1>1. e \in 1 .. Len(L) /\ Taken(L, M, e) /\ play.phase = "no" /\ play' = play
  BY <1>0, TakenFacts
<1>2. Recording' = Recording /\ NextInput' = NextInput
  BY DEF Recording, NextInput
<1>3. ReplayTypes'
  <2>1. PastType'
    BY <1>0, <1>2 DEF ReplayTypes, PastType
  <2>2. queue' \in Seq(Item) /\ \A i \in 1 .. Len(queue') : queue'[i].op \in Commands
    BY <1>0, TakenFacts DEF ReplayTypes
  <2> QED BY <1>0, <1>1, <1>2, <2>1, <2>2 DEF ReplayTypes
<1>4. StreamInv'
  <2>1. Grammar(past', Stream')
    BY <1>0, <1>1, TakenIs DEF StreamInv
  <2>2. Recording' => Before(past', Stream', NextInput')
    BY <1>0, <1>1, <1>2, TakenIs DEF StreamInv
  <2> QED BY <2>1, <2>2 DEF StreamInv
<1>5. PlayInv'
  BY <1>1 DEF PlayInv
<1>6. Recording' => RecorderInv' /\ Batch'
  BY <1>0, <1>2 DEF RecorderInv, Batch
<1>7. Recording' => NumbersInv'
  <2> SUFFICES ASSUME Recording
               PROVE  NumbersInv'
    BY <1>2
  <2>1. \A i \in 1 .. Len(queue') : \E k \in 1 .. Len(queue) : queue'[i] = queue[k]
    BY <1>0, TakenFacts
  <2>2. 1 \in 1 .. Len(queue) /\ Head(queue) = queue[1]
    BY <1>0, TakenFacts
  <2>3. \A s \in DOMAIN disk' \cup {writer'.open} : s <= rec.segment
    BY <1>0, <2>2 DEF NumbersInv, ReplayTypes, Recorder, Begun
  <2>4. Skipped(disk, queue, rec.segment) => Skipped(disk', queue', rec.segment)
    BY <2>1, <2>2 DEF Skipped, Begun
  <2> QED BY <1>0, <2>1, <2>3, <2>4 DEF NumbersInv
<1>8. Recording' => TipInv'
  <2> SUFFICES ASSUME Recording
               PROVE  TipInv'
    BY <1>2
  <2>0. /\ IsMachine(Tip(L)) \/ Tip(L).op \in {"I", "X"} => Alike(Tip(L), Tip(M))
        /\ (Tip(L).op = "I" \/ e < Len(L)) /\ IsMachine(BeforeTip(L)) =>
              Alike(BeforeTip(L), BeforeTip(M))
    BY <1>1, TakenIs
  <2>1. CASE todo # <<>>
    <3>1. e < Len(L)
      <4>1. Len(todo) >= 1 /\ e <= Len(File) + Len(queue)
        BY <1>0, <2>1, StreamIs, TakenFacts
      <4> QED BY <1>0, <4>1, StreamIs
    <3>2. IF Tip(todo).op = "I" THEN InputNext ELSE PrintNext
      BY <1>0, <2>1 DEF TipInv
    <3>3. CASE Tip(todo).op = "I"
      <4>1. InputNext /\ Alike(BeforeTip(L), BeforeTip(M))
        BY <2>0, <3>1, <3>2, <3>3 DEF InputNext
      <4>2. IsMachine(BeforeTip(M)) /\ MachineOf(past, BeforeTip(M)) = host.at
            /\ (IsPrint(BeforeTip(L)) => IsPrint(BeforeTip(M)))
        <5>1. /\ IsMachine(BeforeTip(M)) = IsMachine(BeforeTip(L))
              /\ IsPrint(BeforeTip(M)) = IsPrint(BeforeTip(L))
              /\ MachineOf(past, BeforeTip(M)) = MachineOf(past, BeforeTip(L))
          BY ONLY <4>1, AlikeIs
        <5> QED BY <4>1, <5>1 DEF InputNext
      <4>3. InputNext'
        BY <4>1, <4>2 DEF InputNext
      <4> QED BY <2>1, <3>3, <4>3 DEF TipInv
    <3>4. CASE Tip(todo).op # "I"
      <4>1. PrintNext'
        BY <3>2, <3>4 DEF PrintNext
      <4> QED BY <2>1, <3>4, <4>1 DEF TipInv
    <3> QED BY <3>3, <3>4
  <2>2. CASE todo = <<>> /\ rec.open /\ rec.pendingEnd
    <3>1. AwaitsEnd
      BY <1>0, <2>2 DEF TipInv
    <3>2. Alike(Tip(L), Tip(M)) /\ Alike(BeforeTip(L), BeforeTip(M))
      BY <2>0, <3>1 DEF AwaitsEnd
    <3>3. Tip(M) = Tip(L)
      BY <3>1, <3>2 DEF Alike, AwaitsEnd
    <3>4. IsMachine(BeforeTip(M)) /\ MachineOf(past, BeforeTip(M)) = MachineOf(past, BeforeTip(L))
          /\ (IsPrint(BeforeTip(L)) => IsPrint(BeforeTip(M)))
      <4>1. /\ IsMachine(BeforeTip(M)) = IsMachine(BeforeTip(L))
            /\ IsPrint(BeforeTip(M)) = IsPrint(BeforeTip(L))
            /\ MachineOf(past, BeforeTip(M)) = MachineOf(past, BeforeTip(L))
        BY ONLY <3>2, AlikeIs
      <4> QED BY <3>1, <4>1 DEF AwaitsEnd
    <3>5. AwaitsEnd'
      BY <3>1, <3>3, <3>4 DEF AwaitsEnd, AwaitsFrame, FrameRan
    <3> QED BY <2>2, <3>5 DEF TipInv
  <2>3. CASE todo = <<>> /\ rec.open /\ ~rec.pendingEnd
    <3>1. HalfWay
      BY <1>0, <2>3 DEF TipInv
    <3>2. Alike(Tip(L), Tip(M))
      BY <2>0, <3>1 DEF HalfWay, IsMachine
    <3>3. /\ Tip(L).op = "X" => Tip(M).op = "X"
          /\ IsPrint(Tip(L)) => IsPrint(Tip(M))
          /\ MachineOf(past, Tip(M)) = MachineOf(past, Tip(L))
      BY <3>2, AlikeIs DEF IsPrint
    <3>4. HalfWay'
      BY <3>1, <3>3 DEF HalfWay
    <3> QED BY <2>3, <3>4 DEF TipInv
  <2>4. CASE todo = <<>> /\ ~rec.open
    BY <2>4 DEF TipInv
  <2> QED BY <2>1, <2>2, <2>3, <2>4
<1>9. writer'.error = FALSE
  OBVIOUS
<1> HIDE DEF e, L, M
<1> QED BY <1>3, <1>4, <1>5, <1>6, <1>7, <1>8, <1>9 DEF RecordingInv

(* Commands are after the open file, records are in it. *)
LEMMA StreamParts ==
    ASSUME ReplayTypes, FilesInv
    PROVE  /\ \A i \in 1 .. Len(Stream) : i > Len(File) => Stream[i].op \in Commands
           /\ \A i \in 1 .. Len(File) : Stream[i].op \in Records
           /\ \A i \in 1 .. Len(Stream) : Stream[i].op = "begin" => Stream[i].seg \in Nat \ {0}
<1>1. \A i \in 1 .. Len(File) : Stream[i].op \in Records
  <2>1. \A i \in 1 .. Len(File) : Stream[i] = File[i]
    BY StreamIs
  <2>2. \A i \in 1 .. Len(File) : File[i].op \in Records
    BY ONLY FilesInv DEF FilesInv, File
  <2> QED BY ONLY <2>1, <2>2
<1>2. ASSUME NEW i \in 1 .. Len(Stream), i > Len(File)
      PROVE  Stream[i].op \in Commands
  <2>1. CASE i <= Len(File) + Len(queue)
    <3>1. i \in Len(File) + 1 .. Len(File) + Len(queue) /\ i - Len(File) \in 1 .. Len(queue)
      BY <1>2, <2>1, StreamIs
    <3> QED BY <3>1, StreamIs DEF ReplayTypes
  <2>2. CASE i > Len(File) + Len(queue)
    <3>1. /\ i \in Len(File) + Len(queue) + 1 .. Len(Stream)
          /\ i - (Len(File) + Len(queue)) \in 1 .. Len(todo)
      BY <1>2, <2>2, StreamIs
    <3> QED BY <3>1, StreamIs DEF ReplayTypes
  <2>3. Len(File) \in Nat /\ Len(queue) \in Nat
    BY StreamIs
  <2> QED BY <2>1, <2>2, <2>3
<1>3. \A i \in 1 .. Len(Stream) : Stream[i].op = "begin" => Stream[i].seg \in Nat \ {0}
  BY StreamIs, ItemIs
<1> QED BY <1>1, <1>2, <1>3

LEMMA FileKept ==
    ASSUME NEW p, NEW d, NEW D, NEW R, NEW n, JoinedFile(p, d, R, n),
           n - 1 \in DOMAIN D => n - 1 \in DOMAIN d /\ D[n - 1] = d[n - 1]
    PROVE  JoinedFile(p, D, R, n)
  BY DEF JoinedFile, OnDisk

(* A record is kept only after another: the first command of a stream whose
   file has been removed is none of these. *)
LEMMA NothingFirst ==
    ASSUME NEW p, NEW L, Grammar(p, L), 1 \in 1 .. Len(L)
    PROVE  L[1].op \notin {"snapshot", "I", "X", "frame", "H"}
<1>1. At(L, 1 - 1) = None /\ At(L, 1 - 2) = None
  BY DEF At
<1>2. Follows(p, None, None, L[1])
  BY <1>1 DEF Grammar
<1> QED BY ONLY <1>2, NoneIs DEF Follows, Printed, IsPrint

LEMMA WorkBegins ==
    ASSUME RecordingInv, Work, Head(queue).op = "begin"
    PROVE  RecordingInv'
<1> DEFINE c == Head(queue)
           e == Len(File) + 1
           h == [op |-> "header"]
<1>0. ReplayTypes /\ FilesInv /\ ~writer.error /\ queue # <<>> /\ StreamInv
  BY DEF RecordingInv, Work
<1>1. /\ writer' = [writer EXCEPT !.open = c.seg, !.save = -1]
      /\ disk' = [s \in DOMAIN disk \cup {c.seg} |-> IF s = c.seg THEN <<h>> ELSE disk[s]]
      /\ queue' = Tail(queue) /\ UNCHANGED <<host, past, rec, todo, play>>
  BY DEF Work
<1>2. /\ e \in 1 .. Len(Stream) /\ Stream[e] = c /\ c \in Item
      /\ \A i \in 1 .. e - 1 : Stream[i] = File[i]
  BY <1>0, TakenFacts
<1>3. /\ File \in Seq(Item) /\ queue \in Seq(Item) /\ todo \in Seq(Item)
      /\ Stream = (File \o queue) \o todo /\ Len(File) \in Nat
      /\ writer.open \in Nat /\ DOMAIN disk \subseteq Nat /\ 0 \notin DOMAIN disk
      /\ (File # <<>> => writer.open \in DOMAIN disk)
  BY <1>0, StreamIs DEF Stream
<1>4. c.seg \in Nat \ {0} /\ h \in Item /\ h.op = "header"
  BY <1>2, ItemIs DEF Item
<1>5. DiskType /\ writer.error = FALSE
  BY <1>0 DEF ReplayTypes, DiskType
<1>6. DiskType' /\ writer'.error = FALSE /\ writer'.open = c.seg /\ writer'.save = -1
  <2>1. /\ writer \in [open : Nat, save : Int, error : BOOLEAN] /\ DOMAIN disk \subseteq Nat \ {0}
        /\ \A k \in DOMAIN disk : disk[k] \in Seq(Item)
    BY <1>5 DEF DiskType
  <2>2. /\ writer' \in [open : Nat, save : Int, error : BOOLEAN]
        /\ writer'.error = FALSE /\ writer'.open = c.seg /\ writer'.save = -1
    <3>1. c.seg \in Nat /\ -1 \in Int
      BY <1>4
    <3> HIDE DEF c, h
    <3> QED BY <1>1, <1>5, <2>1, <3>1
  <2>3. <<h>> \in Seq(Item) /\ c.seg \in Nat \ {0}
    BY <1>4
  <2> HIDE DEF c, h
  <2>4. disk' \in [DOMAIN disk' -> Seq(Item)] /\ DOMAIN disk' \subseteq Nat \ {0}
    BY ONLY <1>1, <2>1, <2>3
  <2> QED BY <2>2, <2>4 DEF DiskType
<1>7. DOMAIN disk' = DOMAIN disk \cup {c.seg} /\ disk'[c.seg] = <<h>>
      /\ \A k \in DOMAIN disk : k # c.seg => disk'[k] = disk[k]
  BY <1>1
<1>8. File' = <<h>>
  BY <1>6, <1>7 DEF File
<1>9. Opened(Stream, Stream', e)
  <2>1. Stream' = (<<h>> \o Tail(queue)) \o todo
    BY <1>1, <1>8 DEF Stream
  <2> QED BY <1>0, <1>3, <1>4, <2>1, AdvancesOpened
<1>10. /\ Ascends(disk, writer.open, Stream) /\ Joins(past, disk, Stream)
  BY <1>0 DEF StreamInv
<1>11. /\ \A i \in 1 .. e - 1 : Stream[i].op \in Records
       /\ \A i \in 1 .. Len(Stream) : Stream[i].op = "begin" => Stream[i].seg \in Nat \ {0}
  BY <1>0, <1>3, StreamParts
<1>12. e > 1 => /\ writer.open \in DOMAIN disk
                /\ Stream[e - 1].op = "G" => \A m : Hands(past, disk[writer.open], m)
  <2> SUFFICES ASSUME e > 1
               PROVE  /\ writer.open \in DOMAIN disk
                      /\ Stream[e - 1].op = "G" => \A m : Hands(past, disk[writer.open], m)
    OBVIOUS
  <2>1. e - 1 = Len(File) /\ e - 1 \in 1 .. e - 1 /\ File # <<>>
    BY <1>3
  <2>2. File = disk[writer.open]
    BY <1>3, <2>1 DEF File
  <2> QED BY <1>2, <1>3, <2>1, <2>2 DEF Hands
<1>13. Joins(past, disk', Stream') /\ JoinedFile(past, disk', Stream', c.seg)
  <2>1. DOMAIN disk' \subseteq DOMAIN disk \cup {Stream[e].seg} /\ Stream[e].op = "begin"
        /\ \A k \in DOMAIN disk : k # Stream[e].seg => disk'[k] = disk[k]
    BY <1>2, <1>7
  <2>2. Joins(past, disk', Stream') /\ JoinedFile(past, disk', Stream', Stream[e].seg)
    BY ONLY <1>3, <1>9, <1>10, <1>11, <1>12, <2>1, OpenedJoins
  <2> QED BY <1>2, <2>2
<1>14. Ascends(disk', c.seg, Stream')
  <2>1. DOMAIN disk' = DOMAIN disk \cup {Stream[e].seg} /\ Stream[e].op = "begin"
          /\ Stream[e].seg \in Nat
    BY <1>2, <1>4, <1>7
  <2>2. Ascends(disk', Stream[e].seg, Stream')
    BY ONLY <1>3, <1>9, <1>10, <2>1, OpenedAscends
  <2> QED BY <1>2, <2>2
<1>15. HoldsSave(File', writer'.save)
  BY <1>8 DEF HoldsSave, Tip, BeforeTip, At, None
<1>16. FilesInv'
  <2>1. \A s \in DOMAIN disk : s < c.seg
    BY <1>2, <1>10 DEF Ascends
  <2>2. Recording' = Recording /\ NextInput' = NextInput
    BY <1>1 DEF Recording, NextInput
  <2>3. ASSUME NEW n \in DOMAIN disk
        PROVE  /\ disk'[n] = disk[n]
               /\ JoinedFile(past, disk', disk[n], n)
    <3>1. n # c.seg /\ n - 1 # c.seg
      BY <1>3, <1>4, <2>1
    <3>2. n - 1 \in DOMAIN disk' => n - 1 \in DOMAIN disk /\ disk'[n - 1] = disk[n - 1]
      BY <1>7, <3>1
    <3>3. JoinedFile(past, disk, disk[n], n)
      BY <1>0 DEF FilesInv
    <3>4. JoinedFile(past, disk', disk[n], n)
      BY ONLY <3>2, <3>3, FileKept
    <3> QED BY <1>7, <3>1, <3>4
  <2>4. /\ \A i \in 1 .. Len(<<h>>) : <<h>>[i].op \in Records
        /\ <<h>> # <<>> => <<h>>[1].op = "header"
        /\ Grammar(past, <<h>>) /\ JoinedFile(past, disk', <<h>>, c.seg)
        /\ Before(past, <<h>>, NextInput)
    <3>1. Len(<<h>>) = 1 /\ <<h>>[1] = h /\ \A i \in 1 .. 1 : i = 1
      OBVIOUS
    <3>2. At(<<h>>, 1 - 1) = None /\ ~IsPrint(h)
      BY DEF At, IsPrint
    <3>3. Grammar(past, <<h>>)
      BY <3>1, <3>2, NoneIs DEF Grammar, Follows
    <3> QED BY <3>1, <3>2, <3>3 DEF JoinedFile, Before, Records
  <2> QED BY <1>0, <1>1, <1>7, <2>2, <2>3, <2>4 DEF FilesInv
<1>17. Taken(Stream, Stream', e)
  BY <1>2, <1>9 DEF Taken
<1>18. DOMAIN disk' \subseteq DOMAIN disk \cup Begun /\ writer'.open \in {0, writer.open} \cup Begun
  BY <1>6, <1>7 DEF Begun
<1>19. Joins(past', disk', Stream') /\ JoinedFile(past', disk', Stream', writer'.open)
       /\ Ascends(disk', writer'.open, Stream') /\ (writer'.open \in DOMAIN disk' => File' # <<>>)
  BY <1>1, <1>6, <1>8, <1>13, <1>14
<1> HIDE DEF c, h
<1> QED BY ONLY RecordingInv, <1>0, <1>1, <1>6, <1>15, <1>16, <1>17, <1>18, <1>19, WorkRest DEF c

LEMMA WorkEnds ==
    ASSUME RecordingInv, Work, Head(queue).op = "end"
    PROVE  RecordingInv'
<1> DEFINE c == Head(queue)
           e == Len(File) + 1
<1>0. ReplayTypes /\ FilesInv /\ ~writer.error /\ queue # <<>> /\ StreamInv
  BY DEF RecordingInv, Work
<1>1. /\ writer' = [writer EXCEPT !.open = 0] /\ disk' = disk
      /\ queue' = Tail(queue) /\ UNCHANGED <<host, past, rec, todo, play>>
  BY DEF Work
<1>2. /\ e \in 1 .. Len(Stream) /\ Stream[e] = c /\ c \in Item
      /\ \A i \in 1 .. e - 1 : Stream[i] = File[i]
  BY <1>0, TakenFacts
<1>3. /\ File \in Seq(Item) /\ queue \in Seq(Item) /\ todo \in Seq(Item)
      /\ Stream = (File \o queue) \o todo /\ Len(File) \in Nat /\ Len(Stream) \in Nat
      /\ writer.open \in Nat /\ DOMAIN disk \subseteq Nat /\ 0 \notin DOMAIN disk
  BY <1>0, StreamIs DEF Stream
<1>4. DiskType' /\ writer'.error = FALSE /\ writer'.open = 0
  <2>1. DiskType /\ writer.error = FALSE
    BY <1>0 DEF ReplayTypes, DiskType
  <2> QED BY <1>1, <2>1 DEF DiskType
<1>5. File' = <<>>
  BY <1>1, <1>3, <1>4 DEF File
<1>6. Cut(Stream, Stream', 1, e)
  <2>1. Stream' = (<<>> \o Tail(queue)) \o todo
    BY <1>1, <1>5 DEF Stream
  <2>2. Cut(Stream, (<<>> \o Tail(queue)) \o todo, 1, Len(File) + 1)
    BY <1>0, <1>3, Advances
  <2> QED BY <2>1, <2>2
<1>7. /\ \A i \in 1 .. Len(Stream) : i > Len(File) => Stream[i].op \in Commands
      /\ \A i \in 1 .. Len(File) : Stream[i].op \in Records
      /\ \A i \in 1 .. Len(Stream) : Stream[i].op = "begin" => Stream[i].seg \in Nat \ {0}
  BY <1>0, StreamParts
<1>8. \A i \in 1 .. Len(Stream') : Stream'[i].op # "header"
  <2>1. \A i \in 1 .. Len(Stream') :
           Stream'[i] = Stream[i + e] /\ i + e \in 1 .. Len(Stream) /\ i + e > Len(File)
    <3>1. /\ Len(Stream') = Len(Stream) - (e - 1 + 1) /\ Len(Stream') \in Nat
          /\ \A i \in 1 .. Len(Stream') : Stream'[i] = Stream[i + (e - 1 + 1)]
      BY ONLY <1>6 DEF Cut
    <3>2. e \in Nat /\ e > Len(File)
      BY <1>3
    <3> HIDE DEF e
    <3> QED BY ONLY <1>3, <3>1, <3>2
  <2> QED BY <1>7, <2>1 DEF Commands
<1>9. ASSUME NEW m, HandsOver(past, At(Stream, e - 1), Stream[e], m)
      PROVE  writer.open \in DOMAIN disk /\ Hands(past, disk[writer.open], m)
  <2>1. IsPrint(At(Stream, e - 1)) /\ MachineOf(past, At(Stream, e - 1)) = m
    BY <1>2, <1>9 DEF HandsOver
  <2>2. e - 1 \in 1 .. Len(Stream) /\ At(Stream, e - 1) = Stream[e - 1]
    BY <2>1, NoneIs DEF At
  <2>3. e - 1 = Len(File) /\ e - 1 \in 1 .. e - 1 /\ File # <<>>
    BY <1>3, <2>2
  <2>4. writer.open \in DOMAIN disk /\ File = disk[writer.open]
    BY <2>3 DEF File
  <2>5. Stream[e - 1] = File[Len(File)]
    BY <1>2, <2>3
  <2> QED BY <2>1, <2>2, <2>3, <2>4, <2>5 DEF Hands
<1>10. /\ Ascends(disk, writer.open, Stream) /\ Joins(past, disk, Stream)
  BY <1>0 DEF StreamInv
<1>11. Joins(past, disk, Stream')
  <2>1. /\ 1 \in {1, e} /\ Stream[e].op = "end" /\ \A i \in 1 .. e - 1 : Stream[i].op \in Records
        /\ DOMAIN disk \subseteq DOMAIN disk /\ \A k \in DOMAIN disk : disk[k] = disk[k] /\ k \in Nat
    BY <1>2, <1>3, <1>7
  <2>2. Stream[e].op \in {"end", "remove", "G", "E"} /\ Stream[e].op \notin {"G", "E"}
        /\ Stream[e].op # "remove"
    BY <2>1
  <2> QED BY ONLY <1>3, <1>6, <1>7, <1>9, <1>10, <2>1, <2>2, CutJoins
<1>12. Ascends(disk, 0, Stream')
  BY <1>6, <1>7, <1>8, <1>10, CutAscends
<1>13. JoinedFile(past, disk, Stream', 0)
  BY <1>8 DEF JoinedFile, Cut
<1>14. HoldsSave(File', writer'.save)
  BY <1>5 DEF HoldsSave, Tip, BeforeTip, At, None
<1>15. FilesInv'
  <2>1. Recording' = Recording /\ NextInput' = NextInput
    BY <1>1 DEF Recording, NextInput
  <2> QED BY <1>0, <1>1, <2>1 DEF FilesInv
<1>16. Taken(Stream, Stream', e)
  BY <1>2, <1>6 DEF Taken
<1>17. /\ Joins(past', disk', Stream') /\ JoinedFile(past', disk', Stream', writer'.open)
       /\ Ascends(disk', writer'.open, Stream') /\ (writer'.open \in DOMAIN disk' => File' # <<>>)
       /\ DOMAIN disk' \subseteq DOMAIN disk \cup Begun /\ writer'.open \in {0, writer.open} \cup Begun
  BY <1>1, <1>3, <1>4, <1>11, <1>12, <1>13
<1> QED BY ONLY RecordingInv, <1>0, <1>1, <1>4, <1>14, <1>15, <1>16, <1>17, WorkRest

LEMMA WorkRemoves ==
    ASSUME RecordingInv, Work, Head(queue).op = "remove"
    PROVE  RecordingInv'
<1> DEFINE c == Head(queue)
           e == Len(File) + 1
           o == writer.open
<1>0. ReplayTypes /\ FilesInv /\ ~writer.error /\ queue # <<>> /\ StreamInv
  BY DEF RecordingInv, Work
<1>1. /\ writer' = writer /\ disk' = [s \in DOMAIN disk \ {c.seg} |-> disk[s]]
      /\ queue' = Tail(queue) /\ UNCHANGED <<host, past, rec, todo, play>>
  BY DEF Work
<1>2. /\ e \in 1 .. Len(Stream) /\ Stream[e] = c /\ c \in Item
      /\ \A i \in 1 .. e - 1 : Stream[i] = File[i]
  BY <1>0, TakenFacts
<1>3. /\ File \in Seq(Item) /\ queue \in Seq(Item) /\ todo \in Seq(Item)
      /\ Stream = (File \o queue) \o todo /\ Len(File) \in Nat /\ Len(Stream) \in Nat
      /\ writer.open \in Nat /\ DOMAIN disk \subseteq Nat /\ 0 \notin DOMAIN disk
      /\ (File # <<>> => writer.open \in DOMAIN disk)
  BY <1>0, StreamIs DEF Stream
<1>4. DOMAIN disk' = DOMAIN disk \ {c.seg} /\ \A k \in DOMAIN disk' : disk'[k] = disk[k] /\ k \in Nat
  BY <1>1, <1>3
<1>5. DiskType' /\ writer'.error = FALSE
  <2>1. DiskType /\ writer.error = FALSE
    BY <1>0 DEF ReplayTypes, DiskType
  <2>2. disk' \in [DOMAIN disk' -> Seq(Item)]
    BY <1>1, <2>1 DEF DiskType
  <2> QED BY <1>1, <1>4, <2>1, <2>2 DEF DiskType
<1>7. /\ \A i \in 1 .. Len(Stream) : i > Len(File) => Stream[i].op \in Commands
      /\ \A i \in 1 .. Len(File) : Stream[i].op \in Records
      /\ \A i \in 1 .. Len(Stream) : Stream[i].op = "begin" => Stream[i].seg \in Nat \ {0}
  BY <1>0, StreamParts
<1>10. /\ Ascends(disk, o, Stream) /\ Joins(past, disk, Stream) /\ Grammar(past, Stream)
       /\ JoinedFile(past, disk, Stream, o)
  BY <1>0 DEF StreamInv
<1>15. FilesInv'
  <2>1. Recording' = Recording /\ NextInput' = NextInput
    BY <1>1 DEF Recording, NextInput
  <2>2. ASSUME NEW n \in DOMAIN disk'
        PROVE  JoinedFile(past, disk', disk[n], n)
    <3>1. n \in DOMAIN disk
      BY <1>4
    <3>2. JoinedFile(past, disk, disk[n], n)
      BY <1>0, <3>1 DEF FilesInv
    <3>3. n - 1 \in DOMAIN disk' => n - 1 \in DOMAIN disk /\ disk'[n - 1] = disk[n - 1]
      BY <1>4
    <3> QED BY ONLY <3>2, <3>3, FileKept
  <2> QED BY <1>0, <1>1, <1>4, <2>1, <2>2 DEF FilesInv
<1>16. Stream[e].op = "remove"
  BY <1>2
<1>17. /\ DOMAIN disk' \subseteq DOMAIN disk \cup Begun /\ writer'.open \in {0, writer.open} \cup Begun
  BY <1>1, <1>4
<1>18. ASSUME NEW s \in {1, e}, Cut(Stream, Stream', s, e),
              s = 1 /\ 1 < e => o \in DOMAIN disk \ DOMAIN disk'
       PROVE  Joins(past, disk', Stream')
  <2>1. /\ s \in {1, e} /\ Stream[e].op \in {"end", "remove", "G", "E"} /\ Stream[e].op # "end"
        /\ Stream[e].op \notin {"G", "E"} /\ \A i \in 1 .. e - 1 : Stream[i].op \in Records
        /\ DOMAIN disk' \subseteq DOMAIN disk
    BY <1>3, <1>4, <1>7, <1>16
  <2>2. Stream[e].op = "remove" /\ s = 1 /\ 1 < e => o \in DOMAIN disk \ DOMAIN disk'
    BY <1>18
  <2>3. Cut(Stream, Stream', s, e)
    BY <1>18
  <2>4. /\ Stream[e].op = "end" => s = 1
        /\ Stream[e].op \in {"G", "E"} => s = 1 /\ e = 1 /\ o # 0 /\ o \notin DOMAIN disk
        /\ Stream[e].op = "end" => \A m : HandsOver(past, At(Stream, e - 1), Stream[e], m) =>
                                             o \in DOMAIN disk /\ Hands(past, disk[o], m)
    BY <1>16
  <2> QED BY ONLY <1>3, <1>4, <1>7, <1>10, <2>1, <2>2, <2>3, <2>4, CutJoins
<1>a. CASE o \in DOMAIN disk /\ c.seg = o
  <2>1. File' = <<>> /\ writer'.open \notin DOMAIN disk'
    BY <1>1, <1>4, <1>a DEF File
  <2>2. Cut(Stream, Stream', 1, e)
    <3>1. Stream' = (<<>> \o Tail(queue)) \o todo
      BY <1>1, <2>1 DEF Stream
    <3>2. Cut(Stream, (<<>> \o Tail(queue)) \o todo, 1, Len(File) + 1)
      BY <1>0, <1>3, Advances
    <3> QED BY <3>1, <3>2
  <2>3. \A i \in 1 .. Len(Stream') : Stream'[i].op # "header"
    <3>1. \A i \in 1 .. Len(Stream') :
             Stream'[i] = Stream[i + e] /\ i + e \in 1 .. Len(Stream) /\ i + e > Len(File)
      <4>1. /\ Len(Stream') = Len(Stream) - (e - 1 + 1) /\ Len(Stream') \in Nat
            /\ \A i \in 1 .. Len(Stream') : Stream'[i] = Stream[i + (e - 1 + 1)]
        BY ONLY <2>2 DEF Cut
      <4>2. e \in Nat /\ e > Len(File)
        BY <1>3
      <4> HIDE DEF e
      <4> QED BY ONLY <1>3, <4>1, <4>2
    <3> QED BY <1>7, <3>1 DEF Commands
  <2>4. Joins(past, disk', Stream')
    <3>1. 1 \in {1, e} /\ o \in DOMAIN disk \ DOMAIN disk'
      BY <1>4, <1>a
    <3> QED BY ONLY <1>18, <2>2, <3>1
  <2>5. Ascends(disk', o, Stream')
    <3>1. DOMAIN disk' \subseteq DOMAIN disk
      BY <1>4
    <3> QED BY ONLY <1>7, <1>10, <2>2, <2>3, <3>1, CutAscends
  <2>6. JoinedFile(past, disk', Stream', o)
    BY <2>3 DEF JoinedFile, Cut
  <2>7. HoldsSave(File', writer'.save)
    BY <2>1 DEF HoldsSave, Tip, BeforeTip, At, None
  <2>8. Taken(Stream, Stream', e)
    BY <1>16, <2>2 DEF Taken
  <2>9. /\ Joins(past', disk', Stream') /\ JoinedFile(past', disk', Stream', writer'.open)
        /\ Ascends(disk', writer'.open, Stream') /\ (writer'.open \in DOMAIN disk' => File' # <<>>)
    BY <1>1, <2>1, <2>4, <2>5, <2>6
  <2> QED BY ONLY RecordingInv, <1>0, <1>1, <1>5, <1>15, <1>17, <2>7, <2>8, <2>9, WorkRest
<1>b. CASE ~(o \in DOMAIN disk /\ c.seg = o)
  <2>1. File' = File /\ (o \in DOMAIN disk <=> o \in DOMAIN disk')
    BY <1>1, <1>4, <1>b DEF File
  <2>2. Cut(Stream, Stream', e, e)
    <3>1. Stream' = (File \o Tail(queue)) \o todo
      BY <1>1, <2>1 DEF Stream
    <3>2. Cut(Stream, (File \o Tail(queue)) \o todo, Len(File) + 1, Len(File) + 1)
      BY <1>0, <1>3, Advances
    <3> QED BY <3>1, <3>2
  <2>c. /\ Len(Stream') = Len(Stream) - 1 /\ Len(Stream') \in Nat
        /\ \A i \in 1 .. e - 1 : Stream'[i] = Stream[i]
        /\ \A i \in e .. Len(Stream') : Stream'[i] = Stream[i + 1]
    <3>1. /\ Len(Stream') = Len(Stream) - (e - e + 1) /\ Len(Stream') \in Nat
          /\ \A i \in 1 .. e - 1 : Stream'[i] = Stream[i]
          /\ \A i \in e .. Len(Stream') : Stream'[i] = Stream[i + (e - e + 1)]
      BY ONLY <2>2 DEF Cut
    <3>2. e - e + 1 = 1
      BY <1>3
    <3> QED BY ONLY <3>1, <3>2
  <2>3. \A i \in 1 .. Len(Stream') : Stream'[i].op = "header" => i < e /\ Stream'[i] = Stream[i]
    <3>1. \A i \in 1 .. Len(Stream') :
             \/ i < e /\ i \in 1 .. e - 1
             \/ i \in e .. Len(Stream') /\ i + 1 \in 1 .. Len(Stream) /\ i + 1 > Len(File)
      BY <1>3, <2>c
    <3> HIDE DEF e
    <3> QED BY <1>7, <2>c, <3>1 DEF Commands
  <2>4. Joins(past, disk', Stream')
    <3>1. e \in {1, e} /\ ~(e = 1 /\ 1 < e)
      OBVIOUS
    <3> QED BY ONLY <1>18, <2>2, <3>1
  <2>5. Ascends(disk', o, Stream')
    <3>1. DOMAIN disk' \subseteq DOMAIN disk
      BY <1>4
    <3>2. o \in DOMAIN disk' \/ \A i \in 1 .. Len(Stream') : Stream'[i].op # "header"
      <4>1. \A i \in 1 .. Len(Stream') : i < e => File # <<>>
        BY <1>3
      <4> QED BY <1>3, <2>1, <2>3, <4>1
    <3> QED BY ONLY <1>7, <1>10, <2>2, <3>1, <3>2, CutAscends
  <2>6. JoinedFile(past, disk', Stream', o)
    <3> SUFFICES ASSUME Len(Stream') > 1, Stream'[1].op = "header", GoesOn(Stream'[2])
                 PROVE  OnDisk(past, disk', o - 1, Stream'[2].of)
      BY DEF JoinedFile
    <3>1. 1 < e /\ Stream'[1] = Stream[1] /\ Len(Stream) > 1
      BY <1>3, <2>3, <2>c
    <3>2. CASE e = 2
      <4>1. Stream'[2] = Stream[3] /\ 3 \in 1 .. Len(Stream) /\ 3 - 1 = e
        <5>1. 2 \in e .. Len(Stream') /\ 2 + 1 = 3 /\ 3 \in 1 .. Len(Stream) /\ 3 - 1 = e
          BY <1>3, <2>c, <3>2
        <5> HIDE DEF e
        <5> QED BY <2>c, <5>1
      <4>2. Follows(past, At(Stream, 3 - 2), At(Stream, 3 - 1), Stream[3])
        BY <1>10, <4>1 DEF Grammar
      <4>3. At(Stream, 3 - 1) = Stream[e]
        BY <1>2, <4>1, AtIs
      <4>4. Stream[3].op = "snapshot" /\ Stream[3].kind = "C"
        BY <4>1 DEF GoesOn
      <4> QED BY <1>16, <4>2, <4>3, <4>4 DEF Follows, IsPrint
    <3>3. CASE e > 2
      <4>1. 2 \in 1 .. e - 1
        BY <1>3, <3>3
      <4>2. Stream'[2] = Stream[2]
        BY <2>c, <4>1
      <4>3. OnDisk(past, disk, o - 1, Stream[2].of)
        BY <1>10, <3>1, <4>2 DEF JoinedFile
      <4> QED BY <1>4, <4>2, <4>3 DEF OnDisk
    <3> QED BY <1>3, <3>1, <3>2, <3>3
  <2>7. HoldsSave(File', writer'.save)
    BY <1>0, <1>1, <2>1 DEF StreamInv
  <2>8. Taken(Stream, Stream', e)
    BY <1>16, <2>2 DEF Taken
  <2>9. /\ Joins(past', disk', Stream') /\ JoinedFile(past', disk', Stream', writer'.open)
        /\ Ascends(disk', writer'.open, Stream') /\ (writer'.open \in DOMAIN disk' => File' # <<>>)
    BY <1>0, <1>1, <2>1, <2>4, <2>5, <2>6 DEF StreamInv
  <2> QED BY ONLY RecordingInv, <1>0, <1>1, <1>5, <1>15, <1>17, <2>7, <2>8, <2>9, WorkRest
<1> QED BY <1>a, <1>b

LEMMA WorkWrites ==
    ASSUME RecordingInv, Work, Head(queue).op \in {"frame", "snapshot", "I", "X", "G", "E"},
           writer.open \in DOMAIN disk
    PROVE  RecordingInv'
<1> DEFINE c == Head(queue)
           e == Len(File) + 1
           o == writer.open
           r == IF c.op = "frame" THEN [op |-> "H", id |-> c.of.id, save |-> SaveHash(c)] ELSE c
<1>0. ReplayTypes /\ FilesInv /\ ~writer.error /\ queue # <<>> /\ StreamInv
  BY DEF RecordingInv, Work
<1>2. /\ e \in 1 .. Len(Stream) /\ Stream[e] = c /\ c \in Item
      /\ \A i \in 1 .. e - 1 : Stream[i] = File[i]
  BY <1>0, TakenFacts
<1>3. /\ File \in Seq(Item) /\ queue \in Seq(Item) /\ todo \in Seq(Item)
      /\ Stream = (File \o queue) \o todo /\ Len(File) \in Nat /\ Len(Stream) \in Nat
      /\ writer.open \in Nat /\ DOMAIN disk \subseteq Nat /\ 0 \notin DOMAIN disk
      /\ File = disk[o] /\ o # 0
  BY <1>0, StreamIs DEF Stream, File
<1>1. /\ writer' = IF c.op = "frame" THEN [writer EXCEPT !.save = SaveHash(c)] ELSE writer
      /\ disk' = [disk EXCEPT ![o] = Append(@, r)]
      /\ queue' = Tail(queue) /\ UNCHANGED <<host, past, rec, todo, play>>
  <2>1. CASE c.op = "frame"
    BY <1>3, <2>1 DEF Work, Row
  <2>2. CASE c.op # "frame"
    BY <1>3, <2>2 DEF Work, Row
  <2> QED BY <2>1, <2>2
<1>10. /\ Ascends(disk, o, Stream) /\ Joins(past, disk, Stream) /\ Grammar(past, Stream)
       /\ JoinedFile(past, disk, Stream, o) /\ HoldsSave(File, writer.save) /\ File # <<>>
  BY <1>0 DEF StreamInv
<1>4. c.op = "frame" => SaveHash(c) = c.of.save /\ c.of \in Machine
  <2> SUFFICES ASSUME c.op = "frame", c.reuse
               PROVE  writer.save = c.of.save
    BY <1>2, ItemIs DEF SaveHash
  <2> DEFINE a == At(Stream, e - 2)
             b == At(Stream, e - 1)
  <2>1. Follows(past, a, b, c)
    BY <1>2, <1>10 DEF Grammar
  <2>2. b.op = "I" /\ IsPrint(a) /\ PrintedSave(a) = c.of.save
    BY <2>1 DEF Follows, Printed, IsPrint, PrintedSave
  <2>3. e - 1 \in 1 .. Len(Stream) /\ e - 2 \in 1 .. Len(Stream)
    BY <2>2, NoneIs DEF At
  <2>4. e - 1 = Len(File) /\ e - 2 = Len(File) - 1 /\ e - 1 \in 1 .. e - 1 /\ e - 2 \in 1 .. e - 1
        /\ Len(File) \in 1 .. Len(File) /\ Len(File) - 1 \in 1 .. Len(File)
    BY <1>3, <2>3
  <2>5. b = Tip(File) /\ a = BeforeTip(File) /\ a = File[Len(File) - 1]
    BY <1>2, <2>3, <2>4 DEF Tip, BeforeTip, At
  <2>6. a.op \in Records
    BY <1>0, <1>3, <2>4, <2>5 DEF FilesInv
  <2>7. a.op = "H"
    BY <2>2, <2>6 DEF IsPrint, Records
  <2> QED BY <1>10, <2>2, <2>5, <2>7 DEF HoldsSave, PrintedSave
<1>5. r \in Item /\ Alike(c, r) /\ r.op \in Records
      /\ (c.op = "frame" => r.op = "H" /\ r.save = c.of.save) /\ (c.op # "frame" => r = c)
  <2>1. CASE c.op = "frame"
    <3>1. c.of.id \in Int /\ c.of.save \in Int
      BY <1>4, <2>1 DEF Machine
    <3>2. r = [op |-> "H", id |-> c.of.id, save |-> c.of.save]
      BY <1>4, <2>1
    <3> HIDE DEF r, c
    <3> QED BY <2>1, <3>1, <3>2 DEF Item, Alike, Records
  <2>2. CASE c.op # "frame"
    BY <1>2, <2>2 DEF Alike, Records
  <2> QED BY <2>1, <2>2
<1>6. /\ DOMAIN disk' = DOMAIN disk /\ \A k \in DOMAIN disk : k # o => disk'[k] = disk[k]
      /\ disk'[o] = Append(File, r)
  BY <1>1, <1>3
<1>7. DiskType' /\ writer'.error = FALSE /\ writer'.open = o
      /\ (c.op = "frame" => writer'.save = c.of.save) /\ (c.op # "frame" => writer'.save = writer.save)
  <2>1. /\ writer \in [open : Nat, save : Int, error : BOOLEAN] /\ DOMAIN disk \subseteq Nat \ {0}
        /\ disk \in [DOMAIN disk -> Seq(Item)] /\ writer.error = FALSE
    BY <1>0 DEF ReplayTypes, DiskType
  <2>2. /\ writer' \in [open : Nat, save : Int, error : BOOLEAN] /\ writer'.error = FALSE
        /\ writer'.open = o
        /\ (c.op = "frame" => writer'.save = c.of.save)
        /\ (c.op # "frame" => writer'.save = writer.save)
    <3>1. CASE c.op = "frame"
      <4>1. writer' = [writer EXCEPT !.save = c.of.save] /\ c.of.save \in Int
        BY <1>1, <1>4, <3>1 DEF Machine
      <4> HIDE DEF c
      <4> QED BY <2>1, <3>1, <4>1
    <3>2. CASE c.op # "frame"
      BY <1>1, <2>1, <3>2
    <3> QED BY <3>1, <3>2
  <2>3. Append(File, r) \in Seq(Item)
    BY <1>3, <1>5
  <2>4. disk' \in [DOMAIN disk' -> Seq(Item)]
    <3> HIDE DEF r
    <3> QED BY <1>1, <1>3, <2>1, <2>3
  <2> QED BY <1>6, <2>1, <2>2, <2>4 DEF DiskType
<1>8. File' = Append(File, r)
  BY <1>6, <1>7 DEF File
<1>9. Written(Stream, Stream')
  <2>1. Stream' = (Append(File, r) \o Tail(queue)) \o todo
    BY <1>1, <1>8 DEF Stream
  <2> HIDE DEF r
  <2> QED BY <1>0, <1>3, <1>5, <2>1, AdvancesWritten
<1>f. /\ Len(File') = e /\ File'[e] = r /\ Len(File) >= 1 /\ \A i \in 1 .. e - 1 : File'[i] = File[i]
  <2>1. r \in Item /\ File \in Seq(Item)
    BY <1>3, <1>5
  <2> HIDE DEF r
  <2> QED BY ONLY <1>3, <1>8, <1>10, <2>1
<1>11. /\ \A i \in 1 .. Len(Stream) : i > Len(File) => Stream[i].op \in Commands
       /\ \A i \in 1 .. Len(File) : Stream[i].op \in Records
       /\ \A i \in 1 .. Len(Stream) : Stream[i].op = "begin" => Stream[i].seg \in Nat \ {0}
  BY <1>0, StreamParts
<1>12. File[1].op = "header" /\ Stream[1] = File[1] /\ File'[1] = File[1] /\ 1 \in 1 .. e - 1
       /\ 1 \in 1 .. Len(Stream)
  <2>1. 1 \in 1 .. e - 1 /\ 1 \in 1 .. Len(Stream)
    BY <1>2, <1>3, <1>f
  <2> QED BY <1>0, <1>2, <1>3, <1>10, <1>f, <2>1 DEF FilesInv
<1>13. Joins(past, disk', Stream') /\ Ascends(disk', o, Stream')
  <2>1. ASSUME NEW i \in 1 .. Len(Stream), Stream[i].op = "begin"
        PROVE  ~OnlyRemoves(Stream, 0, i)
    <3>1. i # 1
      BY <1>12, <2>1
    <3>2. 1 \in 0 + 1 .. i - 1
      BY <1>3, <3>1
    <3> QED BY <1>12, <3>2 DEF OnlyRemoves
  <2>2. \A i \in 1 .. Len(Stream) : Stream[i].op = "begin" => Stream[i].seg \in Nat
    BY <1>11
  <2> QED BY ONLY <1>3, <1>6, <1>9, <1>10, <2>1, <2>2, WrittenJoins
<1>14. /\ Len(Stream') = Len(Stream) /\ \A i \in 1 .. Len(Stream) : Alike(Stream[i], Stream'[i])
       /\ \A i \in 1 .. Len(File') : Stream'[i] = File'[i]
       /\ Len(File') <= Len(Stream')
  <2>1. /\ Len(Stream') = Len(Stream) /\ \A i \in 1 .. Len(Stream) : Alike(Stream[i], Stream'[i])
    BY <1>9 DEF Written
  <2>2. Stream' = (File' \o queue') \o todo' /\ File' \in Seq(Item)
    BY <1>3, <1>5, <1>8 DEF Stream
  <2>3. queue' \in Seq(Item) /\ todo' \in Seq(Item)
    BY <1>0, <1>1, <1>3, TakenFacts
  <2>4. /\ \A i \in 1 .. Len(File') : Stream'[i] = File'[i]
        /\ Len(Stream') = Len(File') + Len(queue') + Len(todo') /\ Len(File') \in Nat
        /\ Len(queue') \in Nat /\ Len(todo') \in Nat
    BY ONLY <2>2, <2>3, Chained
  <2>5. Len(File') <= Len(Stream')
    BY ONLY <2>4
  <2> QED BY <2>1, <2>4, <2>5
<1>15. JoinedFile(past, disk', Stream', o)
  <2> SUFFICES ASSUME Len(Stream') > 1, GoesOn(Stream'[2]), o - 1 \in DOMAIN disk'
               PROVE  Hands(past, disk'[o - 1], Stream'[2].of)
    BY DEF JoinedFile, OnDisk
  <2>1. 2 \in 1 .. Len(Stream) /\ Len(Stream) > 1
    BY <1>3, <1>14
  <2>2. Stream[2] = Stream'[2]
    BY <1>14, <2>1 DEF Alike, GoesOn
  <2>3. Hands(past, disk[o - 1], Stream[2].of)
    BY <1>6, <1>10, <1>12, <2>1, <2>2 DEF JoinedFile, OnDisk
  <2>4. disk'[o - 1] = disk[o - 1]
    BY <1>3, <1>6
  <2> QED BY <2>2, <2>3, <2>4
<1>16. HoldsSave(File', writer'.save)
  <2>1. Tip(File') = r /\ BeforeTip(File') = Tip(File)
    <3>1. e \in 1 .. e /\ e - 1 \in 1 .. e /\ e - 1 = Len(File) /\ Len(File) \in 1 .. Len(File)
          /\ Len(File) \in 1 .. e - 1
      BY <1>3, <1>f
    <3> HIDE DEF e, r
    <3> QED BY <1>f, <3>1 DEF Tip, BeforeTip, At
  <2>2. c.op # "H"
    <3>1. c.op \in Commands
      BY <1>0, TakenFacts
    <3> QED BY <3>1 DEF Commands
  <2> HIDE DEF r
  <2> QED BY <1>5, <1>7, <1>10, <2>1, <2>2 DEF HoldsSave
<1>17. FilesInv'
  <2>1. Recording' = Recording /\ NextInput' = NextInput
    BY <1>1 DEF Recording, NextInput
  <2>2. ASSUME NEW n \in DOMAIN disk
        PROVE  JoinedFile(past, disk', disk[n], n)
    <3>1. n <= o /\ n \in Nat
      BY <1>3, <1>10 DEF Ascends
    <3>2. n - 1 # o
      BY <1>3, <3>1
    <3>3. JoinedFile(past, disk, disk[n], n)
      BY <1>0 DEF FilesInv
    <3>4. n - 1 \in DOMAIN disk' => n - 1 \in DOMAIN disk /\ disk'[n - 1] = disk[n - 1]
      BY <1>6, <3>2
    <3> QED BY ONLY <3>3, <3>4, FileKept
  <2>3. Grammar(past, Stream')
    BY <1>9, <1>10, WrittenFollows
  <2>4. Prefix(File', Stream')
    <3>1. Len(File') \in Nat
      BY <1>3, <1>f
    <3> QED BY <1>3, <1>14, <3>1 DEF Prefix
  <2>5. Grammar(past, File')
    BY <2>3, <2>4, PrefixFollows
  <2>6. JoinedFile(past, disk', File', o)
    <3> SUFFICES ASSUME Len(File') > 1, GoesOn(File'[2]), File'[1].op = "header"
                 PROVE  OnDisk(past, disk', o - 1, File'[2].of)
      BY DEF JoinedFile
    <3>1. Stream'[2] = File'[2] /\ Stream'[1] = File'[1] /\ Len(Stream') > 1
      <4>1. 1 \in 1 .. Len(File') /\ 2 \in 1 .. Len(File') /\ Len(Stream') > 1
        BY <1>3, <1>14, <1>f
      <4> QED BY <1>14, <4>1
    <3> QED BY <1>15, <3>1 DEF JoinedFile
  <2>7. \A i \in 1 .. Len(File') : File'[i].op \in Records
    <3>1. \A i \in 1 .. Len(File') : i \in 1 .. Len(File) \/ i = e
      BY <1>3, <1>f
    <3>2. \A i \in 1 .. Len(File) : i \in 1 .. e - 1 /\ File[i].op \in Records
      BY <1>0, <1>3 DEF FilesInv
    <3> HIDE DEF e, r
    <3> QED BY <1>5, <1>f, <3>1, <3>2
  <2>8. Recording => Before(past, File', NextInput)
    <3> SUFFICES ASSUME Recording
                 PROVE  Before(past, File', NextInput)
      OBVIOUS
    <3>1. Taken(Stream, Stream', e) /\ Before(past, Stream, NextInput)
      BY <1>0, <1>9 DEF Taken, StreamInv
    <3>2. Before(past, Stream', NextInput)
      BY <1>2, <3>1, TakenIs
    <3>3. \A i \in 1 .. Len(File') : i \in 1 .. Len(Stream') /\ Stream'[i] = File'[i]
      BY <2>4 DEF Prefix
    <3> SUFFICES ASSUME NEW i \in 1 .. Len(File'), IsPrint(File'[i])
                 PROVE  past[PrintOf(File'[i])].input < NextInput
      BY DEF Before
    <3>4. i \in 1 .. Len(Stream') /\ Stream'[i] = File'[i]
      BY ONLY <3>3
    <3>5. IsPrint(Stream'[i])
      BY ONLY <3>4, IsPrint(File'[i])
    <3> QED BY ONLY <3>2, <3>4, <3>5 DEF Before
  <2>9. disk'[o] = File' /\ File'[1].op = "header"
    BY <1>6, <1>8, <1>12
  <2> SUFFICES ASSUME NEW n \in DOMAIN disk'
               PROVE  /\ \A i \in 1 .. Len(disk'[n]) : disk'[n][i].op \in Records
                      /\ disk'[n] # <<>> => disk'[n][1].op = "header"
                      /\ Grammar(past, disk'[n]) /\ JoinedFile(past, disk', disk'[n], n)
                      /\ Recording => Before(past, disk'[n], NextInput)
    BY <1>1, <2>1 DEF FilesInv
  <2>10. CASE n = o
    BY ONLY <2>5, <2>6, <2>7, <2>8, <2>9, <2>10
  <2>11. CASE n # o
    <3>1. n \in DOMAIN disk /\ disk'[n] = disk[n]
      BY <1>6, <2>11
    <3>2. /\ \A i \in 1 .. Len(disk[n]) : disk[n][i].op \in Records
          /\ disk[n] # <<>> => disk[n][1].op = "header"
          /\ Grammar(past, disk[n]) /\ (Recording => Before(past, disk[n], NextInput))
      BY <1>0, <3>1 DEF FilesInv
    <3> QED BY ONLY <2>2, <3>1, <3>2
  <2> QED BY <2>10, <2>11
<1>18. Taken(Stream, Stream', e)
  BY <1>9 DEF Taken
<1>19. /\ Joins(past', disk', Stream') /\ JoinedFile(past', disk', Stream', writer'.open)
       /\ Ascends(disk', writer'.open, Stream') /\ (writer'.open \in DOMAIN disk' => File' # <<>>)
       /\ DOMAIN disk' \subseteq DOMAIN disk \cup Begun /\ writer'.open \in {0, writer.open} \cup Begun
  <2>1. File' # <<>>
    BY <1>3, <1>f
  <2> QED BY <1>1, <1>6, <1>7, <1>13, <1>15, <2>1
<1> QED BY ONLY RecordingInv, <1>0, <1>1, <1>7, <1>16, <1>17, <1>18, <1>19, WorkRest

(* The open file has been removed. *)
LEMMA WorkLoses ==
    ASSUME RecordingInv, Work, Head(queue).op \in {"frame", "snapshot", "I", "X", "G", "E"},
           writer.open # 0, writer.open \notin DOMAIN disk
    PROVE  RecordingInv'
<1> DEFINE c == Head(queue)
           e == Len(File) + 1
           o == writer.open
<1>0. ReplayTypes /\ FilesInv /\ ~writer.error /\ queue # <<>> /\ StreamInv
  BY DEF RecordingInv, Work
<1>2. /\ e \in 1 .. Len(Stream) /\ Stream[e] = c /\ c \in Item
  BY <1>0, TakenFacts
<1>3. /\ File \in Seq(Item) /\ queue \in Seq(Item) /\ todo \in Seq(Item)
      /\ Stream = (File \o queue) \o todo /\ Len(Stream) \in Nat
      /\ writer.open \in Nat /\ DOMAIN disk \subseteq Nat /\ 0 \notin DOMAIN disk
      /\ File = <<>> /\ e = 1 /\ Len(File) = 0
  BY <1>0, StreamIs DEF Stream, File
<1>10. /\ Ascends(disk, o, Stream) /\ Joins(past, disk, Stream) /\ Grammar(past, Stream)
  BY <1>0 DEF StreamInv
<1>4. c.op \in {"G", "E"}
  <2>1. 1 \in 1 .. Len(Stream) /\ Stream[1] = c
    BY <1>2, <1>3
  <2>2. c.op \notin {"snapshot", "I", "X", "frame", "H"}
    BY <1>10, <2>1, NothingFirst
  <2> QED BY <2>2
<1>1. /\ writer' = writer /\ disk' = [disk EXCEPT ![o] = Append(@, c)]
      /\ queue' = Tail(queue) /\ UNCHANGED <<host, past, rec, todo, play>>
  BY <1>4 DEF Work, Row
<1>5. disk' = disk
  <2>1. disk \in [DOMAIN disk -> Seq(Item)]
    BY <1>0 DEF ReplayTypes, DiskType
  <2> QED BY <1>1, <2>1
<1>6. DiskType' /\ writer'.error = FALSE /\ FilesInv'
  <2>1. DiskType /\ writer.error = FALSE /\ Recording' = Recording /\ NextInput' = NextInput
    BY <1>0, <1>1 DEF ReplayTypes, DiskType, Recording, NextInput
  <2> QED BY <1>0, <1>1, <1>5, <2>1 DEF DiskType, FilesInv
<1>7. File' = <<>>
  BY <1>1, <1>5 DEF File
<1>8. Cut(Stream, Stream', 1, 1)
  <2>1. Stream' = (<<>> \o Tail(queue)) \o todo
    BY <1>1, <1>7 DEF Stream
  <2>2. Cut(Stream, (<<>> \o Tail(queue)) \o todo, 1, Len(File) + 1)
    BY <1>0, <1>3, Advances
  <2> QED BY <1>3, <2>1, <2>2
<1>9. Stream[1] = c /\ Stream[1].op \in {"G", "E"}
  BY <1>2, <1>3, <1>4
<1>11. /\ \A i \in 1 .. Len(Stream) : i > Len(File) => Stream[i].op \in Commands
       /\ \A i \in 1 .. Len(Stream) : Stream[i].op = "begin" => Stream[i].seg \in Nat \ {0}
  BY <1>0, StreamParts
<1>12. \A i \in 1 .. Len(Stream') : Stream'[i].op # "header"
  <2>1. /\ Len(Stream') = Len(Stream) - (1 - 1 + 1) /\ Len(Stream') \in Nat
        /\ \A i \in 1 .. Len(Stream') : Stream'[i] = Stream[i + (1 - 1 + 1)]
    BY ONLY <1>8 DEF Cut
  <2>2. \A i \in 1 .. Len(Stream') :
           Stream'[i] = Stream[i + 1] /\ i + 1 \in 1 .. Len(Stream) /\ i + 1 > Len(File)
    BY ONLY <1>3, <2>1
  <2> QED BY <1>11, <2>2 DEF Commands
<1>13. Joins(past, disk, Stream')
  <2>1. /\ 1 \in {1, 1} /\ \A i \in 1 .. 1 - 1 : Stream[i].op \in Records
        /\ DOMAIN disk \subseteq DOMAIN disk /\ \A k \in DOMAIN disk : disk[k] = disk[k] /\ k \in Nat
        /\ o # 0 /\ o \notin DOMAIN disk /\ o \in Nat
    BY <1>3
  <2>2. /\ Stream[1].op \in {"end", "remove", "G", "E"}
        /\ Stream[1].op = "end" => 1 = 1
        /\ Stream[1].op \in {"G", "E"} => 1 = 1 /\ 1 = 1 /\ o # 0 /\ o \notin DOMAIN disk
        /\ Stream[1].op = "end" => \A m : HandsOver(past, At(Stream, 1 - 1), Stream[1], m) =>
                                             o \in DOMAIN disk /\ Hands(past, disk[o], m)
        /\ Stream[1].op = "remove" /\ 1 = 1 /\ 1 < 1 => o \in DOMAIN disk \ DOMAIN disk
    BY <1>9, <2>1
  <2> QED BY ONLY <1>3, <1>8, <1>10, <1>11, <2>1, <2>2, CutJoins
<1>14. Ascends(disk, o, Stream')
  BY ONLY <1>8, <1>10, <1>11, <1>12, CutAscends
<1>15. JoinedFile(past, disk, Stream', o)
  BY <1>12 DEF JoinedFile, Cut
<1>16. HoldsSave(File', writer'.save)
  BY <1>7 DEF HoldsSave, Tip, BeforeTip, At, None
<1>17. Taken(Stream, Stream', e)
  BY <1>3, <1>8, <1>9 DEF Taken
<1>18. /\ Joins(past', disk', Stream') /\ JoinedFile(past', disk', Stream', writer'.open)
       /\ Ascends(disk', writer'.open, Stream') /\ (writer'.open \in DOMAIN disk' => File' # <<>>)
       /\ DOMAIN disk' \subseteq DOMAIN disk \cup Begun /\ writer'.open \in {0, writer.open} \cup Begun
  BY <1>1, <1>5, <1>13, <1>14, <1>15
<1> QED BY ONLY RecordingInv, <1>0, <1>1, <1>6, <1>16, <1>17, <1>18, WorkRest

LEMMA WorkStops ==
    ASSUME RecordingInv, queue' = queue \/ (queue # <<>> /\ queue' = Tail(queue)),
           queue # <<>> \/ writer.open # 0, writer' = [writer EXCEPT !.error = TRUE, !.open = 0],
           UNCHANGED <<host, past, rec, todo, disk, play>>
    PROVE  RecordingInv'
<1>0. ReplayTypes /\ FilesInv /\ (Recording => RecorderInv /\ Batch)
  BY DEF RecordingInv
<1>1. Recording' = Recording /\ NextInput' = NextInput /\ play.phase = "no"
  BY <1>0 DEF Recording, NextInput, ReplayTypes
<1>2. queue' \in Seq(Item) /\ \A i \in 1 .. Len(queue') : queue'[i].op \in Commands
  BY <1>0, TakenFacts DEF ReplayTypes
<1>3. DiskType' /\ writer'.error = TRUE
  BY <1>0 DEF ReplayTypes, DiskType
<1>4. PastType'
  BY <1>0, <1>1 DEF ReplayTypes, PastType
<1>5. ReplayTypes'
  BY <1>0, <1>1, <1>2, <1>3, <1>4 DEF ReplayTypes
<1>6. FilesInv' /\ PlayInv' /\ (Recording' => RecorderInv' /\ Batch')
  BY <1>0, <1>1 DEF FilesInv, PlayInv, RecorderInv, Batch
<1> QED BY <1>3, <1>5, <1>6 DEF RecordingInv

LEMMA WorkFailsKept ==
    ASSUME RecordingInv, WorkFails
    PROVE  RecordingInv'
  BY WorkStops DEF WorkFails

LEMMA WorkKept ==
    ASSUME RecordingInv, Work
    PROVE  RecordingInv'
<1> DEFINE c == Head(queue)
<1>1. c.op \in Commands /\ queue # <<>>
  BY TakenFacts DEF RecordingInv, Work
<1>2. CASE c.op \in {"begin", "end", "remove"}
  BY <1>2, WorkBegins, WorkEnds, WorkRemoves
<1>3. CASE c.op \in {"frame", "snapshot", "I", "X", "G", "E"} /\ writer.open # 0
  BY <1>3, WorkWrites, WorkLoses
<1>4. CASE c.op \notin {"begin", "end", "remove"} /\ writer.open = 0
  <2>1. /\ writer' = [writer EXCEPT !.error = TRUE, !.open = 0] /\ queue' = Tail(queue)
        /\ UNCHANGED <<host, past, rec, todo, disk, play>>
    BY <1>4 DEF Work
  <2> QED BY <1>1, <2>1, WorkStops
<1> QED BY <1>1, <1>2, <1>3, <1>4 DEF Commands

-----------------------------------------------------------------------------
(* The session: the stream stays as it is.                                   *)

LEMMA PastIs ==
    ASSUME ReplayTypes
    PROVE  /\ past \in Seq([from : Int, input : Int, to : Machine]) /\ Len(past) \in Nat
           /\ DOMAIN past = 1 .. Len(past)
           /\ \A k \in DOMAIN past : /\ past[k].from \in Int /\ past[k].input \in Int
                                     /\ past[k].to \in Machine /\ past[k].to.id = k
<1>1. past \in Seq([from : Int, input : Int, to : Machine]) /\ \A k \in DOMAIN past : past[k].to.id = k
  BY DEF ReplayTypes, PastType
<1> DEFINE Frame == [from : Int, input : Int, to : Machine]
<1>2. \A r \in Frame : r.from \in Int /\ r.input \in Int /\ r.to \in Machine
  OBVIOUS
<1>3. past \in Seq(Frame)
  BY <1>1
<1> HIDE DEF Frame
<1>4. Len(past) \in Nat /\ DOMAIN past = 1 .. Len(past) /\ \A k \in DOMAIN past : past[k] \in Frame
  BY <1>3
<1> QED BY <1>1, <1>2, <1>4

LEMMA RunFrameKept ==
    ASSUME RecordingInv, RunFrame
    PROVE  RecordingInv'
<1> DEFINE id == Len(past) + 1
<1>0. ReplayTypes /\ FilesInv /\ Recording /\ RecorderInv /\ Batch /\ todo = <<>> /\ host.pc = "run"
  BY DEF RecordingInv, RunFrame, Between
<1> PICK wrote \in BOOLEAN :
       LET to == [id |-> id, frame |-> host.at.frame + 1,
                  save |-> IF wrote THEN id ELSE host.at.save]
       IN /\ past' = Append(past, [from |-> host.at.id, input |-> host.input, to |-> to])
          /\ host' = [host EXCEPT !.at = to, !.pc = "end", !.restored = FALSE,
                                  !.seq = IF wrote THEN @ + 1 ELSE @]
  BY DEF RunFrame
<1> DEFINE to == [id |-> id, frame |-> host.at.frame + 1,
                  save |-> IF wrote THEN id ELSE host.at.save]
           row == [from |-> host.at.id, input |-> host.input, to |-> to]
<1>1. /\ past' = Append(past, row) /\ UNCHANGED <<rec, todo, queue, writer, disk, play>>
      /\ host' = [host EXCEPT !.at = to, !.pc = "end", !.restored = FALSE,
                              !.seq = IF wrote THEN @ + 1 ELSE @]
  BY DEF RunFrame
<1>2. /\ host \in Host /\ host.at \in Machine /\ host.input \in Nat
      /\ past \in Seq([from : Int, input : Int, to : Machine]) /\ Len(past) \in Nat
      /\ host.at.id \in Int /\ host.at.frame \in Int /\ host.at.save \in Int /\ host.seq \in Nat
      /\ \A k \in DOMAIN past : past[k].input <= host.input /\ past[k].input \in Int
  <2>1. /\ host \in Host /\ past \in Seq([from : Int, input : Int, to : Machine])
        /\ \A k \in DOMAIN past : past[k].input <= host.input
    BY <1>0 DEF ReplayTypes, PastType
  <2>2. /\ host.at \in Machine /\ host.input \in Nat /\ host.seq \in Nat
    BY <2>1 DEF Host
  <2>3. /\ host.at.id \in Int /\ host.at.frame \in Int /\ host.at.save \in Int
    BY <2>2 DEF Machine
  <2>4. Len(past) \in Nat /\ \A k \in DOMAIN past : past[k].input \in Int
    BY <1>0, PastIs
  <2> QED BY <2>1, <2>2, <2>3, <2>4
<1>3. to \in Machine /\ to.id = id /\ to.frame = host.at.frame + 1 /\ id \in Nat
      /\ (~wrote => to.save = host.at.save)
  BY <1>2 DEF Machine
<1>4. row \in [from : Int, input : Int, to : Machine] /\ row.from = host.at.id
      /\ row.input = host.input /\ row.to = to
  BY <1>2, <1>3
<1> HIDE DEF row, to
<1>5. /\ past' \in Seq([from : Int, input : Int, to : Machine]) /\ DOMAIN past' = DOMAIN past \cup {id}
      /\ past'[id] = row /\ id \notin DOMAIN past /\ \A k \in DOMAIN past : past'[k] = past[k]
  <2> DEFINE Frame == [from : Int, input : Int, to : Machine]
  <2>1. past \in Seq(Frame) /\ row \in Frame /\ Len(past) \in Nat
    BY ONLY <1>2, <1>4
  <2>2. past' = Append(past, row) /\ id = Len(past) + 1
    BY <1>1
  <2> HIDE DEF Frame, id
  <2>3. past' \in Seq(Frame)
    BY ONLY <2>1, <2>2
  <2>4. DOMAIN past = 1 .. Len(past) /\ DOMAIN past' = 1 .. Len(past) + 1
    BY ONLY <2>1, <2>2
  <2>5. past'[id] = row /\ \A k \in 1 .. Len(past) : past'[k] = past[k]
    BY ONLY <2>1, <2>2
  <2>6. DOMAIN past' = DOMAIN past \cup {id} /\ id \notin DOMAIN past
    BY ONLY <2>1, <2>2, <2>4
  <2> QED BY ONLY <2>3, <2>4, <2>5, <2>6 DEF Frame
<1>6. Grown(past, past')
  BY <1>5 DEF Grown
<1>7. Recording' /\ host'.input = host.input /\ host'.pc = "end" /\ host'.at = to
      /\ host'.epoch = host.epoch /\ host'.seq = (IF wrote THEN host.seq + 1 ELSE host.seq)
      /\ NextInput' = host.input /\ NextInput = host.input /\ host' \in Host
  <2>1. host' \in Host
    <3>1. (IF wrote THEN host.seq + 1 ELSE host.seq) \in Nat
      BY <1>2
    <3>2. to \in Machine /\ "end" \in {"end", "poll", "run"} /\ FALSE \in BOOLEAN
      BY <1>3
    <3>3. host' = [host EXCEPT !.at = to, !.pc = "end", !.restored = FALSE,
                               !.seq = IF wrote THEN host.seq + 1 ELSE host.seq]
      BY <1>1, <1>2 DEF Host
    <3> QED BY ONLY <1>2, <3>1, <3>2, <3>3 DEF Host
  <2> QED BY <1>0, <1>1, <1>2, <2>1 DEF Host, Recording, NextInput
<1>8. ReplayTypes'
  <2>1. PastType'
    <3>1. PastType
      BY <1>0 DEF ReplayTypes
    <3>2. \A k \in DOMAIN past' : k = id \/ (k \in DOMAIN past /\ past'[k] = past[k])
      BY ONLY <1>5
    <3>3. \A k \in DOMAIN past' : past'[k].to.id = k
      BY ONLY <1>3, <1>4, <1>5, <3>1, <3>2 DEF PastType
    <3>4. \A k \in DOMAIN past' : past'[k].input <= host'.input
      BY ONLY <1>2, <1>4, <1>5, <1>7, <3>2
    <3> QED BY ONLY <1>5, <3>3, <3>4 DEF PastType
  <2>2. DiskType'
    BY <1>0, <1>1 DEF ReplayTypes, DiskType
  <2> QED BY <1>0, <1>1, <1>7, <2>1, <2>2 DEF ReplayTypes
<1>9. ASSUME NEW L, Grammar(past, L), Before(past, L, host.input)
      PROVE  Grammar(past', L) /\ Before(past', L, host.input)
  <2>1. ASSUME NEW i \in 1 .. Len(L), IsPrint(L[i])
        PROVE  Once(past', PrintOf(L[i]))
    <3> DEFINE k == PrintOf(L[i])
    <3>1. k \in DOMAIN past /\ Once(past, k)
      BY <1>9, <2>1 DEF Grammar, Follows, Printed
    <3>2. past[k].input < host.input
      BY <1>9, <2>1 DEF Before
    <3>3. past'[id].input # past'[k].input
      <4>1. past'[id].input = host.input /\ past'[k] = past[k]
        BY <1>4, <1>5, <3>1
      <4>2. past[k].input \in Int /\ host.input \in Int
        BY <1>2, <3>1
      <4> QED BY ONLY <3>2, <4>1, <4>2
    <3> HIDE DEF k
    <3>4. Once(past', k)
      BY <1>5, <3>1, <3>3 DEF Once
    <3> QED BY <3>4 DEF k
  <2> QED BY <1>6, <1>9, <2>1, GrownGrammar, GrownBefore
<1>10. FilesInv'
  <2>1. ASSUME NEW n \in DOMAIN disk
        PROVE  /\ Grammar(past', disk[n]) /\ Before(past', disk[n], host.input)
               /\ JoinedFile(past', disk, disk[n], n)
    <3>1. Grammar(past, disk[n]) /\ Before(past, disk[n], host.input)
            /\ JoinedFile(past, disk, disk[n], n)
      BY <1>0, <1>7 DEF FilesInv
    <3>2. \A k \in DOMAIN disk :
             Grammar(past, disk[k]) /\ Len(disk[k]) \in Nat /\ (disk[k] # <<>> => Len(disk[k]) > 0)
      <4>1. \A k \in DOMAIN disk : disk[k] \in Seq(Item)
        BY <1>0 DEF ReplayTypes, DiskType
      <4> QED BY <1>0, <4>1 DEF FilesInv
    <3> QED BY <1>6, <1>9, <3>1, <3>2, GrownJoinedFile
  <2> QED BY <1>0, <1>1, <1>7, <2>1 DEF FilesInv
<1>11. PlayInv'
  BY <1>0, <1>1 DEF PlayInv, ReplayTypes
<1>12. RecorderInv' /\ Batch'
  <2>1. rec.saveSeq \in Nat /\ host.seq \in Nat
    BY <1>0, <1>2 DEF ReplayTypes, Recorder
  <2> QED BY <1>0, <1>1, <1>7, <2>1 DEF RecorderInv, Batch
<1> SUFFICES ASSUME ~writer.error
             PROVE  StreamInv' /\ NumbersInv' /\ TipInv'
  BY <1>1, <1>8, <1>10, <1>11, <1>12 DEF RecordingInv
<1>13. StreamInv /\ NumbersInv /\ TipInv
  BY <1>0 DEF RecordingInv
<1>14. NumbersInv'
  BY <1>1, <1>13 DEF NumbersInv
<1>15. StreamInv'
  <2>1. Grammar(past, Stream) /\ Before(past, Stream, host.input)
    BY <1>0, <1>7, <1>13 DEF StreamInv
  <2>2. \A k \in DOMAIN disk :
             Grammar(past, disk[k]) /\ Len(disk[k]) \in Nat /\ (disk[k] # <<>> => Len(disk[k]) > 0)
    <3>1. \A k \in DOMAIN disk : disk[k] \in Seq(Item)
      BY <1>0 DEF ReplayTypes, DiskType
    <3> QED BY <1>0, <3>1 DEF FilesInv
  <2>3. /\ Joins(past', disk, Stream) /\ JoinedFile(past', disk, Stream, writer.open)
    BY <1>6, <1>13, <2>1, <2>2, GrownJoins, GrownJoinedFile DEF StreamInv
  <2>4. Stream' = Stream /\ File' = File
    BY <1>1 DEF Stream, File
  <2> QED BY <1>1, <1>7, <1>9, <1>13, <2>1, <2>3, <2>4 DEF StreamInv
<1>16. TipInv'
  <2> SUFFICES ASSUME rec.open
               PROVE  IF rec.pendingEnd THEN AwaitsEnd' ELSE HalfWay'
    BY <1>0, <1>1 DEF TipInv
  <2>1. rec.pendingEnd /\ AwaitsEnd
    BY <1>0, <1>13 DEF TipInv, HalfWay
  <2> SUFFICES AwaitsEnd'
    BY <2>1
  <2> DEFINE a == BeforeTip(Stream)
  <2>2. Stream' = Stream
    BY <1>1 DEF Stream, File
  <2>3. Known(past, a) /\ IsMachine(a)
    BY <1>13, <2>1, GrammarKnows DEF StreamInv, AwaitsEnd, BeforeTip
  <2>4. MachineOf(past', a) = MachineOf(past, a)
    BY <1>6, <2>3 DEF Grown, Known, MachineOf, IsMachine
  <2> SUFFICES ASSUME rec.epoch = host.epoch
               PROVE  FrameRan'
    BY <1>1, <1>7, <2>1, <2>2 DEF AwaitsEnd
  <2>5. AwaitsFrame
    BY <1>0, <2>1 DEF AwaitsEnd, FrameRan
  <2>6. Once(past', id)
    <3>1. \A j \in DOMAIN past : past[j].input # host.input
      BY <1>2, <2>5 DEF AwaitsFrame
    <3> QED BY <1>4, <1>5, <3>1 DEF Once
  <2>7. host'.seq = rec.saveSeq => ~wrote
    <3>1. rec.saveSeq \in Nat /\ rec.saveSeq <= host.seq
      BY <1>0 DEF ReplayTypes, Recorder, RecorderInv
    <3> QED BY <1>2, <1>7, <3>1
  <2>8. rec.boundary # to.frame
    BY <1>2, <1>3, <2>5 DEF AwaitsFrame
  <2> QED BY <1>1, <1>3, <1>4, <1>5, <1>7, <2>2, <2>4, <2>5, <2>6, <2>7, <2>8 DEF FrameRan, AwaitsFrame
<1> QED BY <1>14, <1>15, <1>16

(* A restored machine is of another epoch than the recorder's. *)
LEMMA RestoreKept ==
    ASSUME RecordingInv, Restore \/ NoticeRestore
    PROVE  RecordingInv'
<1>0. ReplayTypes /\ FilesInv /\ Recording /\ RecorderInv /\ Batch /\ todo = <<>>
  BY DEF RecordingInv, Restore, NoticeRestore, Between
<1>1. UNCHANGED <<past, rec, todo, queue, writer, disk, play>>
  BY DEF Restore, NoticeRestore
<1>2. /\ host' \in Host /\ Recording' /\ host'.input = host.input /\ host'.seq = host.seq
      /\ \/ host'.epoch = host.epoch + 1 /\ host'.pc = host.pc /\ host.pc # "end"
         \/ host'.epoch = host.epoch /\ host'.at = host.at /\ host.pc = "run" /\ host'.pc = "end"
  <2>1. host \in Host /\ \A k \in DOMAIN past : past[k].to \in Machine
    BY <1>0, PastIs DEF ReplayTypes
  <2>2. CASE Restore
    <3>1. PICK k \in DOMAIN past :
             host' = [host EXCEPT !.at = past[k].to, !.epoch = @ + 1, !.restored = TRUE,
                                  !.restores = @ + 1]
      BY <2>2 DEF Restore
    <3>2. past[k].to \in Machine /\ host.pc \in {"poll", "run"} /\ host.left = "no"
      BY <1>0, <2>1, <2>2 DEF Restore, Recording
    <3>3. host' \in Host
      <4>1. /\ host.epoch \in Nat /\ host.epoch + 1 \in Nat /\ host.restores + 1 \in Nat
            /\ TRUE \in BOOLEAN
        BY <2>1 DEF Host
      <4>2. host' = [host EXCEPT !.at = past[k].to, !.epoch = host.epoch + 1, !.restored = TRUE,
                                 !.restores = host.restores + 1]
        BY <2>1, <3>1 DEF Host
      <4> QED BY ONLY <2>1, <3>2, <4>1, <4>2 DEF Host
    <3> QED BY <1>0, <2>1, <3>1, <3>2, <3>3 DEF Host, Recording
  <2>3. CASE NoticeRestore
    BY <1>0, <2>1, <2>3 DEF Host, NoticeRestore, Recording
  <2> QED BY <2>2, <2>3
<1>3. NextInput' = NextInput
  BY <1>1, <1>2 DEF NextInput
<1>4. ReplayTypes'
  <2>1. PastType' /\ DiskType'
    BY <1>0, <1>1, <1>2 DEF ReplayTypes, PastType, DiskType
  <2> QED BY <1>0, <1>1, <1>2, <2>1 DEF ReplayTypes
<1>5. FilesInv'
  BY <1>0, <1>1, <1>2, <1>3 DEF FilesInv
<1>6. PlayInv'
  BY <1>0, <1>1 DEF PlayInv, ReplayTypes
<1>7. RecorderInv' /\ Batch' /\ rec.epoch \in Nat /\ host.epoch \in Nat
  <2>1. rec.epoch \in Nat /\ host.epoch \in Nat
    BY <1>0 DEF ReplayTypes, Recorder, Host
  <2> QED BY <1>0, <1>1, <1>2, <2>1 DEF RecorderInv, Batch
<1> SUFFICES ASSUME ~writer.error
             PROVE  StreamInv' /\ NumbersInv' /\ TipInv'
  BY <1>1, <1>4, <1>5, <1>6, <1>7 DEF RecordingInv
<1>8. StreamInv /\ NumbersInv /\ TipInv
  BY <1>0 DEF RecordingInv
<1>9. Stream' = Stream /\ File' = File
  BY <1>1 DEF Stream, File
<1>10. NumbersInv' /\ StreamInv'
  BY <1>0, <1>1, <1>2, <1>3, <1>8, <1>9 DEF NumbersInv, StreamInv
<1>11. TipInv'
  <2> SUFFICES ASSUME rec.open
               PROVE  IF rec.pendingEnd THEN AwaitsEnd' ELSE HalfWay'
    BY <1>0, <1>1 DEF TipInv
  <2>1. IF rec.pendingEnd THEN AwaitsEnd ELSE HalfWay
    BY <1>0, <1>8 DEF TipInv
  <2>2. CASE host'.epoch = host.epoch + 1 /\ host'.pc = host.pc
    <3>1. rec.epoch # host'.epoch
      BY <1>0, <1>7, <2>2 DEF RecorderInv
    <3> QED BY <1>1, <1>9, <2>1, <2>2, <3>1 DEF AwaitsEnd, HalfWay
  <2>3. CASE host'.epoch = host.epoch /\ host'.at = host.at /\ host.pc = "run" /\ host'.pc = "end"
    <3>1. rec.pendingEnd /\ AwaitsEnd
      BY <2>1, <2>3 DEF HalfWay
    <3>2. rec.epoch = host.epoch => AwaitsFrame'
      BY <1>1, <1>2, <1>9, <2>3, <3>1 DEF AwaitsEnd, AwaitsFrame, FrameRan
    <3> QED BY <1>1, <1>9, <2>3, <3>1, <3>2 DEF AwaitsEnd
  <2> QED BY <1>2, <2>2, <2>3
<1> QED BY <1>10, <1>11

-----------------------------------------------------------------------------
(* The recorder adds to the end.                                             *)

LEMMA Appended ==
    ASSUME ReplayTypes, NEW L, L = (File \o queue) \o <<>>, NEW t \in Seq(Item),
           NEW M, M = (File \o queue) \o t
    PROVE  /\ Prefix(L, M) /\ Len(L) \in Nat /\ Len(t) \in Nat /\ Len(M) = Len(L) + Len(t)
           /\ \A i \in 1 .. Len(t) : M[Len(L) + i] = t[i]
           /\ \A i \in Len(L) + 1 .. Len(M) : M[i] = t[i - Len(L)] /\ i - Len(L) \in 1 .. Len(t)
           /\ Len(L) = Len(File) + Len(queue) /\ Len(File) \in Nat /\ Len(queue) \in Nat
           /\ \A i \in 1 .. Len(L) : L[i] = IF i <= Len(File) THEN File[i] ELSE queue[i - Len(File)]
<1>1. File \in Seq(Item) /\ queue \in Seq(Item) /\ <<>> \in Seq(Item) /\ Len(<<>>) = 0
  BY StreamIs
<1> DEFINE F == File
<1> HIDE DEF F
<1>2. /\ Len(L) \in Nat /\ Len(F) \in Nat /\ Len(queue) \in Nat /\ Len(L) = Len(F) + Len(queue)
      /\ \A i \in 1 .. Len(F) : L[i] = F[i]
      /\ \A i \in Len(F) + 1 .. Len(F) + Len(queue) : L[i] = queue[i - Len(F)]
  <2>1. /\ Len(L) \in Nat /\ Len(F) \in Nat /\ Len(queue) \in Nat
        /\ Len(L) = Len(F) + Len(queue) + Len(<<>>)
        /\ \A i \in 1 .. Len(F) : L[i] = F[i]
        /\ \A i \in Len(F) + 1 .. Len(F) + Len(queue) : L[i] = queue[i - Len(F)]
    <3>1. F \in Seq(Item) /\ queue \in Seq(Item) /\ <<>> \in Seq(Item) /\ L = (F \o queue) \o <<>>
      BY <1>1 DEF F
    <3> QED BY ONLY <3>1, Chained
  <2> QED BY ONLY <1>1, <2>1
<1>3. /\ Len(M) \in Nat /\ Len(t) \in Nat /\ Len(M) = Len(F) + Len(queue) + Len(t)
      /\ \A i \in 1 .. Len(F) : M[i] = F[i]
      /\ \A i \in Len(F) + 1 .. Len(F) + Len(queue) : M[i] = queue[i - Len(F)]
      /\ \A i \in 1 .. Len(t) : M[Len(F) + Len(queue) + i] = t[i]
      /\ \A i \in Len(F) + Len(queue) + 1 .. Len(M) : M[i] = t[i - (Len(F) + Len(queue))]
  <2>1. F \in Seq(Item) /\ queue \in Seq(Item) /\ t \in Seq(Item) /\ M = (F \o queue) \o t
    BY <1>1 DEF F
  <2> QED BY ONLY <2>1, Chained
<1>4. \A i \in 1 .. Len(L) :
         \/ i \in 1 .. Len(F) /\ i <= Len(F)
         \/ i \in Len(F) + 1 .. Len(F) + Len(queue) /\ ~(i <= Len(F))
  BY ONLY <1>2
<1>5. \A i \in 1 .. Len(L) : M[i] = L[i]
  BY ONLY <1>2, <1>3, <1>4
<1>6. Prefix(L, M) /\ Len(M) = Len(L) + Len(t)
        /\ \A i \in Len(L) + 1 .. Len(M) : i - Len(L) \in 1 .. Len(t)
  <2>1. Len(M) = Len(L) + Len(t) /\ Len(L) <= Len(M)
        /\ \A i \in Len(L) + 1 .. Len(M) : i - Len(L) \in 1 .. Len(t)
    BY ONLY <1>2, <1>3
  <2> QED BY <1>2, <1>3, <1>5, <2>1 DEF Prefix
<1> QED BY <1>2, <1>3, <1>4, <1>6 DEF F

(* No segment begins. *)
LEMMA Continued ==
    ASSUME ReplayTypes, StreamInv, NEW M, Prefix(Stream, M),
           \A i \in Len(Stream) + 1 .. Len(M) :
               /\ M[i].op \notin {"begin", "snapshot", "header"}
               /\ Follows(past, At(M, i - 2), At(M, i - 1), M[i])
    PROVE  /\ Grammar(past, M) /\ Joins(past, disk, M)
           /\ JoinedFile(past, disk, M, writer.open) /\ Ascends(disk, writer.open, M)
<1> DEFINE L == Stream
<1>0. /\ Len(L) \in Nat /\ Len(M) \in Nat /\ Len(L) <= Len(M) /\ \A i \in 1 .. Len(L) : M[i] = L[i]
      /\ \A i \in Len(L) + 1 .. Len(M) : M[i].op \notin {"begin", "snapshot", "header"}
  BY DEF Prefix
<1>1. \A i \in 1 .. Len(M) : i \in 1 .. Len(L) \/ i \in Len(L) + 1 .. Len(M)
  BY ONLY <1>0
<1>2. /\ Grammar(past, L) /\ Joins(past, disk, L) /\ JoinedFile(past, disk, L, writer.open)
      /\ Ascends(disk, writer.open, L) /\ Prefix(L, M)
  BY DEF StreamInv
<1>3. \A i \in 1 .. Len(L) : L[i].op = "begin" => L[i].seg \in Nat \ {0}
  BY StreamIs, ItemIs
<1> HIDE DEF L
<1>4. Grammar(past, M)
  BY <1>2, ExtendedFollows DEF L
<1>5. Joins(past, disk, M)
  <2>1. \A i \in Len(L) + 1 .. Len(M) : Joined(past, disk, M, i)
    BY <1>0 DEF Joined
  <2>2. ~(Len(L) < Len(M) /\ GoesOn(M[Len(L) + 1]))
    <3>1. Len(L) < Len(M) => Len(L) + 1 \in Len(L) + 1 .. Len(M)
      BY ONLY <1>0
    <3> QED BY <1>0, <3>1 DEF GoesOn
  <2>3. \A i \in 1 .. Len(M) : M[i].op = "begin" => M[i].seg \in Int
    BY <1>0, <1>1, <1>3
  <2> QED BY <1>0, <1>2, <2>1, <2>2, <2>3, ExtendedJoins
<1>6. Ascends(disk, writer.open, M)
  BY <1>0, <1>1, <1>2 DEF Ascends
<1>7. JoinedFile(past, disk, M, writer.open)
  <2> SUFFICES ASSUME Len(M) > 1, M[1].op = "header", GoesOn(M[2])
               PROVE  OnDisk(past, disk, writer.open - 1, M[2].of)
    BY DEF JoinedFile
  <2>1. 2 \in 1 .. Len(M) /\ 1 \in 1 .. Len(M)
    BY <1>0
  <2>2. 2 \in 1 .. Len(L)
    BY <1>0, <1>1, <2>1 DEF GoesOn
  <2>3. Len(L) > 1 /\ 1 \in 1 .. Len(L)
    BY <1>0, <2>2
  <2> QED BY <1>0, <1>2, <2>2, <2>3 DEF JoinedFile
<1> QED BY <1>4, <1>5, <1>6, <1>7

LEMMA LastOf ==
    ASSUME NEW L, NEW M, Prefix(L, M)
    PROVE  /\ At(M, Len(L)) = Tip(L) /\ At(M, Len(L) - 1) = BeforeTip(L)
           /\ At(M, (Len(L) + 1) - 1) = Tip(L) /\ At(M, (Len(L) + 1) - 2) = BeforeTip(L)
<1>1. Len(L) \in Int /\ Len(L) - 1 \in Int /\ Len(L) <= Len(L) /\ Len(L) - 1 <= Len(L)
      /\ (Len(L) + 1) - 1 = Len(L) /\ (Len(L) + 1) - 2 = Len(L) - 1
  BY DEF Prefix
<1>2. At(M, Len(L)) = Tip(L) /\ At(M, Len(L) - 1) = BeforeTip(L)
  BY <1>1, PrefixAt DEF Tip, BeforeTip
<1> QED BY <1>1, <1>2

LEMMA FrameEndKept ==
    ASSUME RecordingInv, FrameEnd
    PROVE  RecordingInv'
<1> DEFINE repeated == rec.boundary = host.at.frame
           ends == rec.recording /\ ~repeated /\ rec.pendingEnd
           x == [op |-> "X"]
           f == [op |-> "frame", of |-> host.at, reuse |-> ~rec.fullSave /\ host.seq = rec.saveSeq]
           L == Stream
           a == BeforeTip(L)
           b == Tip(L)
<1>0. ReplayTypes /\ FilesInv /\ Recording /\ RecorderInv /\ Batch /\ todo = <<>> /\ host.pc = "end"
  BY DEF RecordingInv, FrameEnd, Between
<1>1. /\ UNCHANGED <<past, queue, writer, disk, play>>
      /\ host' = [host EXCEPT !.pc = "poll"]
      /\ rec' = [rec EXCEPT !.skipBegin = rec.recording /\ repeated, !.pendingEnd = @ /\ ~ends]
      /\ \/ todo' = <<>> /\ (~ends \/ ~rec.open)
         \/ todo' = <<x>> /\ ends /\ rec.open /\ host.epoch # rec.epoch
         \/ todo' = <<f>> /\ ends /\ rec.open /\ host.epoch = rec.epoch
  BY DEF FrameEnd
<1>2. host \in Host /\ rec \in Recorder /\ host.at \in Machine /\ host.input \in Nat
      /\ host.epoch \in Nat
  BY <1>0 DEF ReplayTypes, Host
<1>3. /\ host' \in Host /\ host'.pc = "poll" /\ host'.at = host.at /\ host'.input = host.input
      /\ host'.epoch = host.epoch /\ host'.seq = host.seq /\ Recording'
  BY <1>0, <1>1, <1>2 DEF Host, Recording
<1>4. /\ rec' \in Recorder /\ rec'.open = rec.open /\ rec'.gap = rec.gap
      /\ rec'.gapMarker = rec.gapMarker /\ rec'.recording = rec.recording /\ rec'.epoch = rec.epoch
      /\ rec'.saveSeq = rec.saveSeq /\ rec'.segment = rec.segment /\ rec'.fullSave = rec.fullSave
      /\ rec'.boundary = rec.boundary
      /\ rec'.skipBegin = (rec.recording /\ repeated) /\ rec'.pendingEnd = (rec.pendingEnd /\ ~ends)
  BY <1>1, <1>2 DEF Recorder
<1>5. x \in Item /\ f \in Item /\ f.op = "frame" /\ f.of = host.at
      /\ (f.reuse => ~rec.fullSave /\ host.seq = rec.saveSeq)
  <2>1. (~rec.fullSave /\ host.seq = rec.saveSeq) \in BOOLEAN
    OBVIOUS
  <2> QED BY <1>2, <2>1 DEF Item
<1> HIDE DEF f
<1>6. todo' \in Seq(Item) /\ \A i \in 1 .. Len(todo') : todo'[i].op \in {"X", "frame"} /\ Len(todo') = 1
  <2>1. CASE todo' = <<>>
    BY <2>1
  <2>2. CASE todo' = <<x>>
    BY <1>5, <2>2
  <2>3. CASE todo' = <<f>>
    BY <1>5, <2>3
  <2> QED BY <1>1, <2>1, <2>2, <2>3
<1>7. NextInput = host.input /\ NextInput' = (IF rec'.skipBegin THEN host.input ELSE host.input + 1)
  BY <1>0, <1>3 DEF NextInput
<1>8. \A R : Grammar(past, R) /\ Before(past, R, NextInput) => Before(past, R, NextInput')
  <2> SUFFICES ASSUME NEW R, Grammar(past, R), Before(past, R, NextInput),
                      NEW i \in 1 .. Len(R), IsPrint(R[i])
               PROVE  past[PrintOf(R[i])].input < NextInput'
    BY DEF Before
  <2>1. PrintOf(R[i]) \in DOMAIN past
    BY DEF Grammar, Follows, Printed
  <2>2. past[PrintOf(R[i])].input \in Int /\ past[PrintOf(R[i])].input < NextInput
    BY <1>0, <2>1, PastIs DEF Before
  <2> QED BY <1>2, <1>7, <2>2
<1>9. ReplayTypes'
  <2>1. PastType' /\ DiskType'
    BY <1>0, <1>1, <1>3 DEF ReplayTypes, PastType, DiskType
  <2>2. \A i \in 1 .. Len(todo') : todo'[i].op \in Commands
    BY <1>6 DEF Commands
  <2> QED BY <1>0, <1>1, <1>3, <1>4, <1>6, <2>1, <2>2 DEF ReplayTypes
<1>10. FilesInv'
  BY <1>0, <1>1, <1>3, <1>8 DEF FilesInv
<1>11. PlayInv'
  BY <1>0, <1>1 DEF PlayInv, ReplayTypes
<1>12. RecorderInv'
  BY <1>0, <1>1, <1>3, <1>4 DEF RecorderInv
<1>13. Batch'
  <2>1. CASE todo' = <<>>
    BY <1>6, <2>1 DEF Batch
  <2>2. CASE todo' # <<>>
    <3>1. rec.open /\ ~rec.gap /\ Len(todo') = 1 /\ todo'[1].op \in {"X", "frame"}
          /\ 1 \in 1 .. Len(todo')
      <4>1. rec.open /\ ~rec.gap
        BY <1>0, <1>1, <2>2 DEF RecorderInv
      <4>2. 1 \in 1 .. Len(todo')
        BY <1>6, <2>2
      <4> QED BY <1>6, <4>1, <4>2
    <3>2. Tip(todo') = todo'[1]
      BY <3>1 DEF Tip, At
    <3> QED BY <1>4, <1>6, <3>1, <3>2 DEF Batch, Starts
  <2> QED BY <2>1, <2>2
<1> SUFFICES ASSUME ~writer.error
             PROVE  StreamInv' /\ NumbersInv' /\ TipInv'
  BY <1>1, <1>9, <1>10, <1>11, <1>12, <1>13 DEF RecordingInv
<1>14. StreamInv /\ NumbersInv /\ TipInv
  BY <1>0 DEF RecordingInv
<1>15. NumbersInv'
  <2>1. \A i \in 1 .. Len(todo') : todo'[i].op # "begin"
    BY <1>6
  <2> QED BY <1>1, <1>4, <1>14, <2>1 DEF NumbersInv
<1>16. File' = File /\ Stream = (File \o queue) \o <<>> /\ Stream' = (File \o queue) \o todo'
  BY <1>0, <1>1 DEF File, Stream
<1>17. /\ Prefix(L, Stream') /\ Len(L) \in Nat /\ Len(Stream') = Len(L) + Len(todo')
            /\ Len(todo') \in Nat
       /\ \A i \in Len(L) + 1 .. Len(Stream') : Stream'[i] = todo'[i - Len(L)]
            /\ i - Len(L) \in 1 .. Len(todo')
  <2>1. ReplayTypes /\ todo' \in Seq(Item) /\ L = (File \o queue) \o <<>>
        /\ Stream' = (File \o queue) \o todo'
    BY <1>0, <1>6, <1>16
  <2> HIDE DEF L
  <2>2. Prefix(L, Stream') /\ Len(L) \in Nat
    BY ONLY <2>1, Appended
  <2>3. Len(Stream') = Len(L) + Len(todo') /\ Len(todo') \in Nat
    BY ONLY <2>1, Appended
  <2>4. \A i \in Len(L) + 1 .. Len(Stream') : Stream'[i] = todo'[i - Len(L)]
    BY ONLY <2>1, Appended
  <2>5. \A i \in Len(L) + 1 .. Len(Stream') : i - Len(L) \in 1 .. Len(todo')
    BY ONLY <2>2, <2>3
  <2> QED BY ONLY <2>2, <2>3, <2>4, <2>5
<1>18. rec.open => rec.pendingEnd /\ AwaitsEnd
  BY <1>0, <1>14 DEF TipInv, HalfWay
<1>19. ends /\ rec.open /\ host.epoch = rec.epoch => FrameRan /\ Printed(past, a, b, f)
                                                      /\ MachineOf(past, f) = host.at
  <2> SUFFICES ASSUME ends, rec.open, host.epoch = rec.epoch
               PROVE  FrameRan /\ Printed(past, a, b, f) /\ MachineOf(past, f) = host.at
    OBVIOUS
  <2>1. AwaitsEnd /\ FrameRan
    BY <1>18 DEF AwaitsEnd, AwaitsFrame
  <2>2. PrintOf(f) = host.at.id /\ PrintedSave(f) = host.at.save /\ MachineOf(past, f) = host.at
    BY <1>5, <2>1 DEF PrintOf, PrintedSave, MachineOf, FrameRan
  <2>3. f.reuse => IsPrint(a) /\ MachineOf(past, a).save = host.at.save
    BY <1>5, <2>1 DEF AwaitsEnd, FrameRan
  <2>4. IsPrint(a) => MachineOf(past, a).save = PrintedSave(a)
    <3> SUFFICES ASSUME IsPrint(a)
                 PROVE  past[PrintOf(a)].to.save = PrintedSave(a)
      BY DEF MachineOf, IsPrint
    <3>1. Len(L) - 1 \in 1 .. Len(L) /\ a = L[Len(L) - 1]
      BY NoneIs DEF BeforeTip, At
    <3>2. Follows(past, At(L, (Len(L) - 1) - 2), At(L, (Len(L) - 1) - 1), a)
      BY <1>14, <3>1 DEF StreamInv, Grammar
    <3> QED BY <3>2 DEF Follows, Printed
  <2>5. b.op = "I" /\ IsMachine(a)
    BY <2>1 DEF AwaitsEnd
  <2> HIDE DEF a, b
  <2>6. /\ host.at.id \in DOMAIN past /\ past[host.at.id].to = host.at
        /\ past[host.at.id].from = MachineOf(past, a).id
        /\ past[host.at.id].input = b.input /\ Once(past, host.at.id)
    BY <2>1 DEF FrameRan, a, b
  <2>7. Printed(past, a, b, f)
    BY ONLY <2>2, <2>3, <2>4, <2>5, <2>6 DEF Printed
  <2> QED BY <2>1, <2>2, <2>7
<1>20. ASSUME NEW i \in Len(L) + 1 .. Len(Stream')
       PROVE  /\ Stream'[i].op \notin {"begin", "snapshot", "header"}
              /\ Follows(past, At(Stream', i - 2), At(Stream', i - 1), Stream'[i])
              /\ Stream'[i] = todo'[1] /\ i = Len(L) + 1 /\ todo' # <<>>
  <2>1. i = Len(L) + 1 /\ i - Len(L) = 1 /\ 1 \in 1 .. Len(todo')
    BY <1>6, <1>17
  <2>2. Stream'[i] = todo'[1] /\ todo'[1].op \in {"X", "frame"} /\ todo' # <<>>
    BY <1>6, <1>17, <2>1
  <2>3. At(Stream', i - 2) = a /\ At(Stream', i - 1) = b
    BY <1>17, <2>1, LastOf
  <2>4. rec.open /\ b.op = "I"
    BY <1>1, <1>18, <2>2 DEF AwaitsEnd
  <2> HIDE DEF a, b
  <2>5. CASE todo' = <<x>>
    BY <2>1, <2>2, <2>3, <2>4, <2>5 DEF Follows, IsPrint
  <2>6. CASE todo' = <<f>> /\ ends /\ rec.open /\ host.epoch = rec.epoch
    <3>1. Printed(past, a, b, f) /\ Stream'[i] = f
      BY <1>19, <2>2, <2>6
    <3> QED BY <1>5, <2>1, <2>2, <2>3, <3>1 DEF Follows
  <2> QED BY <1>1, <2>2, <2>5, <2>6
<1>21. /\ Grammar(past, Stream') /\ Joins(past, disk, Stream')
       /\ JoinedFile(past, disk, Stream', writer.open) /\ Ascends(disk, writer.open, Stream')
  BY <1>0, <1>14, <1>17, <1>20, Continued
<1>22. Before(past, Stream', NextInput')
  <2>1. Before(past, L, NextInput')
    BY <1>0, <1>8, <1>14 DEF StreamInv
  <2> SUFFICES ASSUME NEW i \in 1 .. Len(Stream'), IsPrint(Stream'[i])
               PROVE  past[PrintOf(Stream'[i])].input < NextInput'
    BY DEF Before
  <2>2. CASE i \in 1 .. Len(L)
    BY <1>17, <2>1, <2>2 DEF Before, Prefix
  <2>3. CASE i \in Len(L) + 1 .. Len(Stream')
    <3>1. Stream'[i] = todo'[1] /\ todo' # <<>>
      BY <1>20, <2>3
    <3>2. todo' = <<f>> /\ ends /\ rec.open /\ host.epoch = rec.epoch
      <4>1. todo' # <<x>>
        BY <3>1 DEF IsPrint
      <4> QED BY <1>1, <3>1, <4>1
    <3>3. Stream'[i] = f /\ PrintOf(f) = host.at.id
      BY <1>5, <3>1, <3>2 DEF PrintOf
    <3>4. past[host.at.id].input = host.input
      BY <1>19, <3>2 DEF FrameRan
    <3>5. ~rec'.skipBegin
      BY <1>4, <3>2
    <3> QED BY <1>2, <1>7, <3>3, <3>4, <3>5
  <2> QED BY <1>17, <2>2, <2>3
<1>23. StreamInv'
  BY <1>1, <1>14, <1>16, <1>21, <1>22 DEF StreamInv
<1>24. TipInv'
  <2>1. CASE todo' = <<>>
    <3>1. Stream' = L
      BY <1>16, <2>1
    <3> SUFFICES ASSUME rec.open
                 PROVE  rec'.pendingEnd /\ AwaitsEnd'
      BY <1>4, <2>1 DEF TipInv
    <3>2. ~ends /\ rec.pendingEnd /\ AwaitsEnd /\ rec.recording
      BY <1>0, <1>1, <1>18, <2>1 DEF RecorderInv
    <3>3. repeated /\ rec'.skipBegin /\ rec'.pendingEnd
      BY <1>4, <3>2
    <3>4. rec.epoch = host.epoch => AwaitsFrame
      BY <3>2, <3>3 DEF AwaitsEnd, FrameRan
    <3>5. rec'.epoch = host'.epoch => AwaitsFrame'
      BY <1>1, <1>3, <1>4, <3>1, <3>4 DEF AwaitsFrame
    <3> QED BY <1>3, <1>4, <3>1, <3>2, <3>3, <3>5 DEF AwaitsEnd
  <2>2. CASE todo' # <<>>
    <3>1. ends /\ rec.open /\ rec'.open /\ ~rec'.pendingEnd /\ ~rec'.skipBegin
      BY <1>1, <1>4, <2>2
    <3>2. Tip(todo') = todo'[1] /\ todo'[1].op \in {"X", "frame"}
      <4>1. 1 \in 1 .. Len(todo') /\ Len(todo') = 1
        BY <1>6, <2>2
      <4> QED BY <1>6, <4>1 DEF Tip, At
    <3>3. rec.epoch = host.epoch => IsPrint(todo'[1]) /\ MachineOf(past, todo'[1]) = host.at
      BY <1>1, <1>5, <1>19, <2>2 DEF IsPrint
    <3>4. PrintNext'
      BY <1>1, <1>3, <1>4, <3>1, <3>2, <3>3 DEF PrintNext
    <3> QED BY <2>2, <3>2, <3>4 DEF TipInv
  <2> QED BY <2>1, <2>2
<1> QED BY <1>15, <1>23, <1>24

(* Only marks are added to a queue. *)
Marked(q, r) ==
    /\ r \in Seq(Item) /\ Len(q) \in Nat /\ Len(r) \in Nat /\ Len(q) <= Len(r)
    /\ \A i \in 1 .. Len(q) : r[i] = q[i]
    /\ \A i \in Len(q) + 1 .. Len(r) : r[i].op \in {"G", "E", "end"}

LEMMA MarkedBy ==
    ASSUME NEW q, NEW r, Marked(q, r), NEW t \in Seq(Item),
           \A i \in 1 .. Len(t) : t[i].op \in {"G", "E", "end"}
    PROVE  Marked(q, r \o t)
<1> DEFINE s == r \o t
<1>1. /\ s \in Seq(Item) /\ Len(s) \in Nat /\ Len(r) \in Nat /\ Len(t) \in Nat /\ Len(q) \in Nat
      /\ Len(s) = Len(r) + Len(t) /\ Len(q) <= Len(r)
      /\ \A i \in 1 .. Len(r) : s[i] = r[i]
      /\ \A i \in Len(r) + 1 .. Len(s) : s[i] = t[i - Len(r)]
  <2>1. r \in Seq(Item)
    BY DEF Marked
  <2> QED BY <2>1 DEF Marked
<1> HIDE DEF s
<1>2. \A i \in Len(q) + 1 .. Len(s) : s[i].op \in {"G", "E", "end"}
  <2> SUFFICES ASSUME NEW i \in Len(q) + 1 .. Len(s)
               PROVE  s[i].op \in {"G", "E", "end"}
    OBVIOUS
  <2>1. CASE i <= Len(r)
    <3>1. i \in Len(q) + 1 .. Len(r) /\ i \in 1 .. Len(r)
      BY ONLY <1>1, <2>1
    <3> QED BY <1>1, <3>1 DEF Marked
  <2>2. CASE i > Len(r)
    <3>1. i \in Len(r) + 1 .. Len(s) /\ i - Len(r) \in 1 .. Len(t)
      BY ONLY <1>1, <2>2
    <3> QED BY <1>1, <3>1
  <2> QED BY <1>1, <2>1, <2>2
<1>3. \A i \in 1 .. Len(q) : s[i] = q[i]
  <2>1. \A i \in 1 .. Len(q) : i \in 1 .. Len(r)
    BY ONLY <1>1
  <2> QED BY <1>1, <2>1 DEF Marked
<1>4. Marked(q, s)
  BY <1>1, <1>2, <1>3 DEF Marked
<1> QED BY <1>4 DEF s

LEMMA NewIs ==
    /\ NewHost \in Host /\ NewRecorder \in Recorder
    /\ \A l \in {"quit", "killed"} : /\ [NewHost EXCEPT !.left = l] \in Host
                                    /\ [NewHost EXCEPT !.left = l].left = l
<1>1. Boot \in Machine
  BY DEF Boot, Machine
<1>2. NewHost \in Host
  BY <1>1 DEF NewHost, Host
<1>3. ASSUME NEW l \in {"quit", "killed"}
      PROVE  /\ [NewHost EXCEPT !.left = l] \in Host
             /\ [NewHost EXCEPT !.left = l].left = l
  BY <1>2 DEF Host
<1>4. NewRecorder \in Recorder
  BY DEF NewRecorder, Recorder
<1> QED BY <1>2, <1>3, <1>4

LEMMA QuitSessionKept ==
    ASSUME RecordingInv, QuitSession
    PROVE  RecordingInv'
<1>0. ReplayTypes /\ FilesInv /\ Recording /\ todo = <<>>
  BY DEF RecordingInv, QuitSession, Between
<1>1. /\ UNCHANGED <<past, todo, writer, disk, play>>
      /\ host' = [NewHost EXCEPT !.left = "quit"] /\ rec' = NewRecorder
  BY DEF QuitSession
<1>2. Marked(queue, queue')
  <2> PICK ends \in {<<>>, Marker, Marker \o <<[op |-> "E"]>>} :
         queue' = (queue \o (IF rec.recording /\ rec.segment > 0 THEN ends ELSE <<>>))
                         \o (IF rec.open THEN <<[op |-> "end"]>> ELSE <<>>)
    BY DEF QuitSession
  <2>1. Marked(queue, queue)
    <3>1. queue \in Seq(Item) /\ Len(queue) \in Nat
      BY <1>0, StreamIs
    <3> QED BY <3>1 DEF Marked
  <2> DEFINE Marks(t) == t \in Seq(Item) /\ \A i \in 1 .. Len(t) : t[i].op \in {"G", "E", "end"}
  <2>2. [op |-> "G"] \in Item /\ [op |-> "E"] \in Item /\ [op |-> "end"] \in Item
    BY DEF Item
  <2>3. Marks(<<>>) /\ Marks(<<[op |-> "G"]>>) /\ Marks(<<[op |-> "E"]>>) /\ Marks(<<[op |-> "end"]>>)
        /\ Marks(<<>> \o <<[op |-> "E"]>>) /\ Marks(<<[op |-> "G"]>> \o <<[op |-> "E"]>>)
    BY <2>2
  <2>4. Marks(ends)
    BY <2>3 DEF Marker
  <2>5. Marks(IF rec.recording /\ rec.segment > 0 THEN ends ELSE <<>>)
    BY <2>3, <2>4
  <2>6. Marks(IF rec.open THEN <<[op |-> "end"]>> ELSE <<>>)
    BY <2>3
  <2> QED BY <2>1, <2>5, <2>6, MarkedBy
<1>3. host' \in Host /\ rec' \in Recorder /\ ~Recording'
  <2>1. /\ host'.left = "quit" /\ host' \in Host
    BY <1>1, NewIs
  <2>2. rec' \in Recorder
    BY <1>1, NewIs
  <2> QED BY <2>1, <2>2 DEF Recording
<1>4. ReplayTypes'
  <2>1. PastType' /\ DiskType'
    BY <1>0, <1>1, <1>3 DEF ReplayTypes, PastType, DiskType
  <2>2. \A i \in 1 .. Len(queue') : queue'[i].op \in Commands
    <3>1. \A i \in 1 .. Len(queue') : i \in 1 .. Len(queue) \/ i \in Len(queue) + 1 .. Len(queue')
      BY <1>2 DEF Marked
    <3> QED BY <1>0, <1>2, <3>1 DEF ReplayTypes, Marked, Commands
  <2>3. queue' \in Seq(Item) /\ play.phase = "no"
    BY <1>0, <1>2 DEF Marked, ReplayTypes
  <2> QED BY <1>0, <1>1, <1>3, <2>1, <2>2, <2>3 DEF ReplayTypes
<1>5. FilesInv'
  BY <1>0, <1>1, <1>3 DEF FilesInv
<1>6. PlayInv'
  BY <1>0, <1>1 DEF PlayInv, ReplayTypes
<1> SUFFICES ASSUME ~writer.error
             PROVE  StreamInv'
  BY <1>1, <1>3, <1>4, <1>5, <1>6 DEF RecordingInv
<1>7. StreamInv
  BY DEF RecordingInv
<1>8. File' = File /\ Stream = (File \o queue) \o <<>> /\ Stream' = (File \o queue') \o <<>>
  BY <1>0, <1>1 DEF File, Stream

        <1>9. Prefix(Stream, Stream') /\ \A i \in Len(Stream) + 1 .. Len(Stream') : Stream'[i].op \in {"G", "E", "end"}
  <2> DEFINE L == Stream
             M == Stream'
             F == File
             q == queue
             r == queue'
  <2>1. F \in Seq(Item) /\ q \in Seq(Item) /\ r \in Seq(Item) /\ <<>> \in Seq(Item) /\ Len(<<>>) = 0
        /\ Marked(q, r) /\ L = (F \o q) \o <<>> /\ M = (F \o r) \o <<>>
    BY <1>0, <1>2, <1>8, StreamIs DEF Marked
  <2> HIDE DEF L, M, F, q, r
  <2>2. /\ Len(L) \in Nat /\ Len(F) \in Nat /\ Len(q) \in Nat /\ Len(L) = Len(F) + Len(q) + Len(<<>>)
        /\ \A i \in 1 .. Len(F) : L[i] = F[i]
        /\ \A i \in Len(F) + 1 .. Len(F) + Len(q) : L[i] = q[i - Len(F)]
    BY ONLY <2>1, Chained
  <2>3. /\ Len(M) \in Nat /\ Len(r) \in Nat /\ Len(M) = Len(F) + Len(r) + Len(<<>>)
        /\ \A i \in 1 .. Len(F) : M[i] = F[i]
        /\ \A i \in Len(F) + 1 .. Len(F) + Len(r) : M[i] = r[i - Len(F)]
    BY ONLY <2>1, Chained
  <2>4. /\ Len(q) <= Len(r) /\ \A i \in 1 .. Len(q) : r[i] = q[i]
        /\ \A i \in Len(q) + 1 .. Len(r) : r[i].op \in {"G", "E", "end"}
    BY <2>1 DEF Marked
  <2>5. ASSUME NEW i \in 1 .. Len(L)
        PROVE  M[i] = L[i]
    <3>1. CASE i <= Len(F)
      <4>1. i \in 1 .. Len(F)
        BY ONLY <2>2, <3>1, <2>5
      <4> QED BY <2>2, <2>3, <4>1
    <3>2. CASE i > Len(F)
      <4>1. i \in Len(F) + 1 .. Len(F) + Len(q) /\ i \in Len(F) + 1 .. Len(F) + Len(r)
            /\ i - Len(F) \in 1 .. Len(q)
        BY ONLY <2>1, <2>2, <2>3, <2>4, <3>2, <2>5
      <4> QED BY <2>2, <2>3, <2>4, <4>1
    <3> QED BY <2>2, <3>1, <3>2
  <2>6. ASSUME NEW i \in Len(L) + 1 .. Len(M)
        PROVE  M[i].op \in {"G", "E", "end"}
    <3>1. i \in Len(F) + 1 .. Len(F) + Len(r) /\ i - Len(F) \in Len(q) + 1 .. Len(r)
      BY ONLY <2>1, <2>2, <2>3, <2>6
    <3> QED BY <2>3, <2>4, <3>1
  <2>7. Len(L) <= Len(M)
    BY ONLY <2>1, <2>2, <2>3, <2>4
  <2>8. Prefix(L, M)
    BY <2>2, <2>3, <2>5, <2>7 DEF Prefix
  <2> QED BY <2>6, <2>8 DEF L, M
<1>10. \A i \in Len(Stream) + 1 .. Len(Stream') :
          /\ Stream'[i].op \notin {"begin", "snapshot", "header"}
          /\ Follows(past, At(Stream', i - 2), At(Stream', i - 1), Stream'[i])
  <2> SUFFICES ASSUME NEW i \in Len(Stream) + 1 .. Len(Stream')
               PROVE  /\ Stream'[i].op \notin {"begin", "snapshot", "header"}
                      /\ Follows(past, At(Stream', i - 2), At(Stream', i - 1), Stream'[i])
    OBVIOUS
  <2>1. Stream'[i].op \in {"G", "E", "end"}
    BY <1>9
  <2> QED BY ONLY <2>1 DEF Follows, IsPrint
<1>11. /\ Grammar(past, Stream') /\ Joins(past, disk, Stream')
       /\ JoinedFile(past, disk, Stream', writer.open) /\ Ascends(disk, writer.open, Stream')
  BY <1>0, <1>7, <1>9, <1>10, Continued
<1> QED BY <1>1, <1>3, <1>7, <1>8, <1>11 DEF StreamInv

(* What is left of the open file is how it began. *)
LEMMA KillSessionKept ==
    ASSUME RecordingInv, KillSession
    PROVE  RecordingInv'
<1> DEFINE o == writer.open
           R == disk[o]
           S == disk'[o]
<1>0. ReplayTypes /\ FilesInv /\ Recording
  BY DEF RecordingInv, KillSession
<1>1. /\ host' = [NewHost EXCEPT !.left = "killed"] /\ rec' = NewRecorder
      /\ queue' = <<>> /\ todo' = <<>> /\ writer' = [open |-> 0, save |-> -1, error |-> FALSE]
      /\ UNCHANGED <<past, play>>
      /\ \/ disk' = disk
         \/ o \in DOMAIN disk /\ \E n \in 0 .. Len(R) : disk' = [disk EXCEPT ![o] = SubSeq(@, 1, n)]
  BY DEF KillSession
<1>2. /\ \A k \in DOMAIN disk : disk[k] \in Seq(Item) /\ Len(disk[k]) \in Nat
      /\ disk \in [DOMAIN disk -> Seq(Item)] /\ DOMAIN disk \subseteq Nat /\ 0 \notin DOMAIN disk
      /\ DOMAIN disk \subseteq Nat \ {0} /\ o \in Nat
  <2>1. /\ DiskType
    BY <1>0 DEF ReplayTypes
  <2>2. /\ disk \in [DOMAIN disk -> Seq(Item)] /\ DOMAIN disk \subseteq Nat \ {0} /\ o \in Nat
    BY <2>1 DEF DiskType
  <2>3. \A k \in DOMAIN disk : disk[k] \in Seq(Item)
    BY <2>2
  <2> QED BY <2>2, <2>3
<1>3. host' \in Host /\ rec' \in Recorder /\ ~Recording'
  BY <1>1, NewIs DEF Recording
<1>4. /\ DOMAIN disk' = DOMAIN disk /\ \A k \in DOMAIN disk : k # o => disk'[k] = disk[k]
      /\ o \in DOMAIN disk => S \in Seq(Item) /\ Prefix(S, R)
  <2>1. CASE disk' = disk
    BY <1>2, <2>1 DEF Prefix
  <2>2. ASSUME o \in DOMAIN disk, NEW n \in 0 .. Len(R), disk' = [disk EXCEPT ![o] = SubSeq(@, 1, n)]
        PROVE  /\ DOMAIN disk' = DOMAIN disk /\ \A k \in DOMAIN disk : k # o => disk'[k] = disk[k]
               /\ S \in Seq(Item) /\ Prefix(S, R)
    <3>1. S = SubSeq(R, 1, n) /\ DOMAIN disk' = DOMAIN disk
          /\ \A k \in DOMAIN disk : k # o => disk'[k] = disk[k]
      BY <1>2, <2>2
    <3>2. R \in Seq(Item) /\ Len(R) \in Nat /\ n \in Nat /\ n <= Len(R)
      BY <1>2, <2>2
    <3> HIDE DEF R, S
    <3>3. S \in Seq(Item) /\ Len(S) = n /\ \A i \in 1 .. n : S[i] = R[i]
      BY ONLY <3>1, <3>2
    <3>4. Prefix(S, R)
      BY <3>2, <3>3 DEF Prefix
    <3> QED BY <3>1, <3>3, <3>4
  <2> QED BY <1>1, <2>1, <2>2
<1>5. ReplayTypes'
  <2>1. PastType'
    BY <1>0, <1>1, <1>3 DEF ReplayTypes, PastType
  <2>2. disk' \in [DOMAIN disk' -> Seq(Item)]
    <3>1. \A k \in DOMAIN disk' : disk'[k] \in Seq(Item)
      BY <1>2, <1>4
    <3>2. disk' = [k \in DOMAIN disk' |-> disk'[k]]
      BY <1>1, <1>2
    <3> QED BY <3>1, <3>2
  <2>3. DiskType'
    BY <1>1, <1>2, <1>4, <2>2 DEF DiskType
  <2>4. play.phase = "no"
    BY <1>0 DEF ReplayTypes
  <2>5. <<>> \in Seq(Item) /\ Len(<<>>) = 0
    OBVIOUS
  <2> QED BY <1>1, <1>3, <2>1, <2>3, <2>4, <2>5 DEF ReplayTypes
<1>6. FilesInv'
  <2>1. ASSUME NEW n \in DOMAIN disk
        PROVE  /\ \A i \in 1 .. Len(disk'[n]) : disk'[n][i].op \in Records
               /\ disk'[n] # <<>> => disk'[n][1].op = "header"
               /\ Grammar(past, disk'[n]) /\ JoinedFile(past, disk', disk'[n], n)
    <3>1. /\ \A i \in 1 .. Len(disk[n]) : disk[n][i].op \in Records
          /\ disk[n] # <<>> => disk[n][1].op = "header"
          /\ Grammar(past, disk[n]) /\ JoinedFile(past, disk, disk[n], n)
      BY <1>0 DEF FilesInv
    <3>2. n - 1 # o \/ disk' = disk
      <4>1. CASE writer.error
        <5>1. o = 0
          BY <1>0, <4>1 DEF ReplayTypes, DiskType
        <5> QED BY <1>1, <1>2, <5>1
      <4>2. CASE ~writer.error
        <5>1. Ascends(disk, o, Stream)
          BY <4>2 DEF RecordingInv, StreamInv
        <5>2. n \in Nat /\ (o # 0 => n <= o)
          BY <1>2, <5>1 DEF Ascends
        <5>3. o # 0 \/ disk' = disk
          BY <1>1, <1>2
        <5> QED BY <1>2, <5>2, <5>3
      <4> QED BY <4>1, <4>2
    <3>3. n - 1 \in DOMAIN disk' => n - 1 \in DOMAIN disk /\ disk'[n - 1] = disk[n - 1]
      BY <1>4, <3>2
    <3>4. JoinedFile(past, disk', disk[n], n)
      BY ONLY <3>1, <3>3, FileKept
    <3>5. CASE n # o
      BY <1>4, <3>1, <3>4, <3>5
    <3>6. CASE n = o
      <4>1. Prefix(S, R) /\ S \in Seq(Item)
        BY <1>4, <3>6
      <4>2. Grammar(past, S)
        BY <3>1, <3>6, <4>1, PrefixFollows
      <4>3. /\ Len(S) \in Nat /\ Len(R) \in Nat /\ Len(S) <= Len(R)
                 /\ \A i \in 1 .. Len(S) : S[i] = R[i]
            /\ S # <<>> => 1 \in 1 .. Len(S)
        BY <4>1 DEF Prefix
      <4>4. JoinedFile(past, disk', S, n)
        <5>1. Len(S) > 1 => Len(R) > 1 /\ 1 \in 1 .. Len(S) /\ 2 \in 1 .. Len(S)
          BY <4>3
        <5> QED BY <3>4, <3>6, <4>3, <5>1 DEF JoinedFile
      <4>5. \A i \in 1 .. Len(S) : i \in 1 .. Len(R)
        BY <4>3
      <4>6. S # <<>> => R # <<>> /\ S[1] = R[1]
        <5>1. 1 \in 1 .. Len(S) => Len(R) > 0
          BY <4>3
        <5> QED BY <1>2, <3>6, <4>3, <5>1
      <4> QED BY <3>1, <3>6, <4>2, <4>3, <4>4, <4>5, <4>6
    <3> QED BY <3>5, <3>6
  <2> QED BY <1>1, <1>3, <1>4, <2>1 DEF FilesInv
<1>7. PlayInv'
  BY <1>0, <1>1 DEF PlayInv, ReplayTypes
<1>8. StreamInv'
  <2>1. File' = <<>>
    BY <1>1, <1>2, <1>4 DEF File
  <2>2. Stream' = <<>> /\ Len(<<>>) = 0
    BY <1>1, <2>1 DEF Stream
  <2>3. /\ Grammar(past, <<>>) /\ Joins(past, disk', <<>>) /\ JoinedFile(past, disk', <<>>, 0)
        /\ Ascends(disk', 0, <<>>)
    BY <2>2 DEF Grammar, Joins, JoinedFile, Ascends
  <2>4. HoldsSave(<<>>, -1)
    BY <2>2 DEF HoldsSave, Tip, BeforeTip, At, None
  <2> QED BY <1>1, <1>2, <1>3, <1>4, <2>1, <2>2, <2>3, <2>4 DEF StreamInv
<1> QED BY <1>1, <1>3, <1>5, <1>6, <1>7, <1>8 DEF RecordingInv

(* A command passes from the recorder to the queue. *)
LEMMA Passed ==
    ASSUME ReplayTypes, todo # <<>>, queue' = Append(queue, Head(todo)), todo' = Tail(todo),
           File' = File
    PROVE  Stream' = Stream
<1> DEFINE F == File
           q == queue
           t == todo
           r == queue'
           u == todo'
           L == (F \o q) \o t
           M == (F \o r) \o u
<1>0. F \in Seq(Item) /\ q \in Seq(Item) /\ t \in Seq(Item)
  BY StreamIs
<1>1. /\ Head(t) \in Item /\ Head(t) = t[1] /\ u \in Seq(Item) /\ Len(t) \in Nat /\ Len(t) >= 1
      /\ Len(u) = Len(t) - 1 /\ \A i \in 1 .. Len(t) - 1 : u[i] = t[i + 1]
  <2>1. t \in Seq(Item) /\ t # <<>> /\ u = Tail(t)
    BY <1>0
  <2> QED BY ONLY <2>1, HeadAndTail
<1>2. /\ r \in Seq(Item) /\ Len(q) \in Nat /\ Len(r) = Len(q) + 1 /\ r[Len(q) + 1] = t[1]
      /\ \A i \in 1 .. Len(q) : r[i] = q[i]
  <2>1. r = Append(q, Head(t))
    OBVIOUS
  <2> QED BY ONLY <1>0, <1>1, <2>1
<1>3. L = (F \o q) \o t /\ M = (F \o r) \o u
  OBVIOUS
<1> HIDE DEF F, q, t, r, u, L, M
<1>4. /\ L \in Seq(Item) /\ Len(L) \in Nat /\ Len(F) \in Nat /\ Len(L) = Len(F) + Len(q) + Len(t)
      /\ \A i \in 1 .. Len(F) : L[i] = F[i]
      /\ \A i \in Len(F) + 1 .. Len(F) + Len(q) : L[i] = q[i - Len(F)]
      /\ \A i \in Len(F) + Len(q) + 1 .. Len(L) : L[i] = t[i - (Len(F) + Len(q))]
  <2>1. F \in Seq(Item) /\ q \in Seq(Item) /\ t \in Seq(Item) /\ L = (F \o q) \o t
    BY <1>0, <1>3
  <2> QED BY ONLY <2>1, Chained
<1>5. /\ M \in Seq(Item) /\ Len(M) \in Nat /\ Len(M) = Len(F) + Len(r) + Len(u)
      /\ \A i \in 1 .. Len(F) : M[i] = F[i]
      /\ \A i \in Len(F) + 1 .. Len(F) + Len(r) : M[i] = r[i - Len(F)]
      /\ \A i \in Len(F) + Len(r) + 1 .. Len(M) : M[i] = u[i - (Len(F) + Len(r))]
  <2>1. F \in Seq(Item) /\ r \in Seq(Item) /\ u \in Seq(Item) /\ M = (F \o r) \o u
    BY <1>0, <1>1, <1>2, <1>3
  <2> QED BY ONLY <2>1, Chained
<1>6. Len(M) = Len(L)
  BY ONLY <1>1, <1>2, <1>4, <1>5
<1>7. ASSUME NEW i \in 1 .. Len(L)
      PROVE  M[i] = L[i]
  <2>1. CASE i <= Len(F)
    <3>1. i \in 1 .. Len(F)
      BY ONLY <1>4, <1>7, <2>1
    <3> QED BY <1>4, <1>5, <3>1
  <2>2. CASE i > Len(F) /\ i <= Len(F) + Len(q)
    <3>1. i \in Len(F) + 1 .. Len(F) + Len(q) /\ i \in Len(F) + 1 .. Len(F) + Len(r)
          /\ i - Len(F) \in 1 .. Len(q)
      BY ONLY <1>2, <1>4, <1>7, <2>2
    <3> QED BY <1>2, <1>4, <1>5, <3>1
  <2>3. CASE i = Len(F) + Len(q) + 1
    <3>1. /\ i \in Len(F) + Len(q) + 1 .. Len(L) /\ i \in Len(F) + 1 .. Len(F) + Len(r)
          /\ i - Len(F) = Len(q) + 1 /\ i - (Len(F) + Len(q)) = 1
      BY ONLY <1>1, <1>2, <1>4, <1>7, <2>3
    <3> QED BY <1>2, <1>4, <1>5, <3>1
  <2>4. CASE i > Len(F) + Len(q) + 1
    <3>1. /\ i \in Len(F) + Len(q) + 1 .. Len(L) /\ i \in Len(F) + Len(r) + 1 .. Len(M)
          /\ i - (Len(F) + Len(r)) \in 1 .. Len(t) - 1
          /\ (i - (Len(F) + Len(r))) + 1 = i - (Len(F) + Len(q))
      BY ONLY <1>1, <1>2, <1>4, <1>5, <1>6, <1>7, <2>4
    <3> QED BY <1>1, <1>4, <1>5, <3>1
  <2>5. i \in Nat /\ Len(F) \in Nat /\ Len(q) \in Nat
    BY ONLY <1>2, <1>4, <1>7
  <2> QED BY ONLY <2>1, <2>2, <2>3, <2>4, <2>5
<1>8. M = L
  BY ONLY <1>4, <1>5, <1>6, <1>7
<1> QED BY <1>8 DEF F, q, t, r, u, L, M, Stream

LEMMA EnqueueAccepted ==
    ASSUME RecordingInv, Enqueue, ~writer.error, queue' = Append(queue, Head(todo)),
           rec' = Accepted(Head(todo)), todo' = Tail(todo)
    PROVE  RecordingInv'
<1> DEFINE c == Head(todo)
           n == Len(todo)
<1>0. /\ ReplayTypes /\ FilesInv /\ Recording /\ RecorderInv /\ Batch /\ todo # <<>>
      /\ StreamInv /\ NumbersInv /\ TipInv
  BY DEF RecordingInv, Enqueue
<1>1. UNCHANGED <<host, past, writer, disk, play>>
  BY DEF Enqueue
<1>2. /\ c \in Item /\ c = todo[1] /\ todo' \in Seq(Item) /\ n \in Nat /\ n >= 1 /\ Len(todo') = n - 1
      /\ \A i \in 1 .. n - 1 : todo'[i] = todo[i + 1] /\ i + 1 \in 1 .. n
      /\ 1 \in 1 .. n /\ n \in 1 .. n /\ c.op \in Commands /\ todo \in Seq(Item)
  <2>1. todo \in Seq(Item) /\ todo # <<>>
    BY <1>0 DEF ReplayTypes
  <2>2. /\ c \in Item /\ c = todo[1] /\ todo' \in Seq(Item) /\ n \in Nat /\ n >= 1 /\ Len(todo') = n - 1
        /\ \A i \in 1 .. n - 1 : todo'[i] = todo[i + 1]
    BY <2>1, HeadAndTail
  <2>3. 1 \in 1 .. n /\ n \in 1 .. n /\ \A i \in 1 .. n - 1 : i + 1 \in 1 .. n
    BY ONLY <2>2
  <2> QED BY <1>0, <2>1, <2>2, <2>3 DEF ReplayTypes
<1>3. Tip(todo) = todo[n] /\ (n >= 2 => Tip(todo') = todo[n]) /\ (n = 1 => todo' = <<>>)
  <2>1. Tip(todo) = todo[n]
    BY <1>2 DEF Tip, At
  <2>2. n >= 2 => n - 1 \in 1 .. n - 1 /\ (n - 1) + 1 = n
          /\ Len(todo') \in 1 .. Len(todo') /\ Len(todo') = n - 1
    BY ONLY <1>2
  <2>3. n >= 2 => Tip(todo') = todo[n]
    BY <1>2, <2>2 DEF Tip, At
  <2> QED BY <1>2, <2>1, <2>3
<1>q. /\ queue \in Seq(Item) /\ queue' \in Seq(Item) /\ Len(queue) \in Nat
           /\ Len(queue') = Len(queue) + 1
      /\ \A i \in 1 .. Len(queue') :
            \/ i \in 1 .. Len(queue) /\ queue'[i] = queue[i]
            \/ i = Len(queue) + 1 /\ queue'[i] = c
  <2>1. queue \in Seq(Item)
    BY <1>0 DEF ReplayTypes
  <2> HIDE DEF c
  <2> QED BY <1>2, <2>1 DEF c
<1>4. /\ rec \in Recorder /\ rec' \in Recorder /\ rec'.recording = rec.recording
      /\ rec'.skipBegin = rec.skipBegin /\ rec'.boundary = rec.boundary
      /\ rec'.open = IF c.op = "end" THEN FALSE ELSE IF c.op = "begin" THEN TRUE ELSE rec.open
      /\ rec'.gap = (rec.gap /\ c.op # "G") /\ rec'.gapMarker = (rec.gapMarker /\ c.op # "G")
      /\ rec'.segment = IF c.op \in {"G", "end"} THEN rec.segment + 1 ELSE rec.segment
      /\ rec'.pendingEnd = (c.op = "I" \/ rec.pendingEnd)
      /\ rec'.epoch = (IF c.op = "I" THEN host.epoch ELSE rec.epoch)
      /\ rec'.saveSeq = (IF c.op = "frame" THEN host.seq ELSE rec.saveSeq)
      /\ c.op = "snapshot" => rec'.fullSave
      /\ c.op \notin {"snapshot", "frame"} => rec'.fullSave = rec.fullSave
      /\ rec.segment \in Nat /\ host.epoch \in Nat /\ host.seq \in Nat
  <2>1. rec \in Recorder /\ host.epoch \in Nat /\ host.seq \in Nat
    BY <1>0 DEF ReplayTypes, Host
  <2>2. rec.segment \in Nat /\ rec.oldest \in Nat /\ rec.rows \in Nat
    BY <2>1 DEF Recorder
  <2> HIDE DEF c, n
  <2>3. rec' = Accepted(c)
    BY DEF c
  <2>a. CASE c.op = "G"
    <3>1. rec' = [rec EXCEPT !.gapMarker = FALSE, !.gap = FALSE, !.segment = rec.segment + 1]
      BY ONLY <2>1, <2>2, <2>3, <2>a DEF Accepted, Recorder
    <3>2. rec.segment + 1 \in Nat /\ FALSE \in BOOLEAN
      BY ONLY <2>1, <2>2
    <3> QED BY ONLY <2>1, <2>2, <2>a, <3>1, <3>2 DEF Recorder
  <2>b. CASE c.op = "end"
    <3>1. rec' = [rec EXCEPT !.open = FALSE, !.segment = rec.segment + 1]
      BY ONLY <2>1, <2>2, <2>3, <2>b DEF Accepted, Recorder
    <3>2. rec.segment + 1 \in Nat /\ FALSE \in BOOLEAN
      BY ONLY <2>1, <2>2
    <3> QED BY ONLY <2>1, <2>2, <2>b, <3>1, <3>2 DEF Recorder
  <2>c. CASE c.op = "remove"
    <3>1. rec' = [rec EXCEPT !.oldest = rec.oldest + 1]
      BY ONLY <2>1, <2>2, <2>3, <2>c DEF Accepted, Recorder
    <3>2. rec.oldest + 1 \in Nat
      BY ONLY <2>1, <2>2
    <3> QED BY ONLY <2>1, <2>2, <2>c, <3>1, <3>2 DEF Recorder
  <2>d. CASE c.op = "begin"
    <3>1. rec' = [rec EXCEPT !.open = TRUE, !.rows = 0]
      BY ONLY <2>1, <2>2, <2>3, <2>d DEF Accepted, Recorder
    <3>2. 0 \in Nat /\ TRUE \in BOOLEAN
      BY ONLY <2>1, <2>2
    <3> QED BY ONLY <2>1, <2>2, <2>d, <3>1, <3>2 DEF Recorder
  <2>e. CASE c.op = "snapshot"
    <3>1. rec' = [rec EXCEPT !.fullSave = TRUE]
      BY ONLY <2>1, <2>2, <2>3, <2>e DEF Accepted, Recorder
    <3>2. TRUE \in BOOLEAN
      OBVIOUS
    <3> QED BY ONLY <2>1, <2>2, <2>e, <3>1, <3>2 DEF Recorder
  <2>f. CASE c.op = "I"
    <3>1. rec' = [rec EXCEPT !.epoch = host.epoch, !.pendingEnd = TRUE]
      BY ONLY <2>1, <2>2, <2>3, <2>f DEF Accepted, Recorder
    <3>2. TRUE \in BOOLEAN
      OBVIOUS
    <3> QED BY ONLY <2>1, <2>2, <2>f, <3>1, <3>2 DEF Recorder
  <2>g. CASE c.op = "X"
    <3>1. rec' = [rec EXCEPT !.rows = rec.rows + 1]
      BY ONLY <2>1, <2>2, <2>3, <2>g DEF Accepted, Recorder
    <3>2. rec.rows + 1 \in Nat
      BY ONLY <2>1, <2>2
    <3> QED BY ONLY <2>1, <2>2, <2>g, <3>1, <3>2 DEF Recorder
  <2>h. CASE c.op = "frame"
    <3>1. rec' = [rec EXCEPT !.rows = rec.rows + 1, !.fullSave = FALSE, !.saveSeq = host.seq]
      BY ONLY <2>1, <2>2, <2>3, <2>h DEF Accepted, Recorder
    <3>2. rec.rows + 1 \in Nat /\ FALSE \in BOOLEAN
      BY ONLY <2>1, <2>2
    <3> QED BY ONLY <2>1, <2>2, <2>h, <3>1, <3>2 DEF Recorder
  <2>i. CASE c.op = "E"
    BY <2>1, <2>2, <2>3, <2>i DEF Accepted, Recorder
  <2>4. c.op \in Commands
    BY <1>2
  <2> QED BY ONLY <2>4, <2>a, <2>b, <2>c, <2>d, <2>e, <2>f, <2>g, <2>h, <2>i DEF Commands
<1>5. Stream' = Stream /\ File' = File
  <2>1. File' = File
    BY <1>1 DEF File
  <2> QED BY <1>0, <2>1, Passed
<1>6. Recording' /\ NextInput' = NextInput
  BY <1>0, <1>1, <1>4 DEF Recording, NextInput
<1>b. /\ \A k \in 1 .. n : Starts(todo[k]) => k = 1
      /\ \A k \in 1 .. n : todo[k].op = "begin" => k = n - 2
      /\ \A k \in 1 .. n : todo[k].op = "snapshot" => k = n - 1
      /\ \A k \in 1 .. n : todo[k].op = "I" => k = n
      /\ \A k \in 1 .. n : todo[k].op \in {"X", "frame"} => n = 1
      /\ \A k \in 1 .. n : todo[k].op # "E"
      /\ todo[n].op \in {"I", "X", "frame"}
      /\ rec.gap => c.op = "G"
      /\ c.op = "G" => ~rec.open
      /\ c.op = "end" => rec.open
  BY <1>0, <1>2, <1>3 DEF Batch
<1>7. ReplayTypes'
  <2>1. PastType' /\ DiskType'
    BY <1>0, <1>1, <1>6 DEF ReplayTypes, PastType, DiskType
  <2>2. \A i \in 1 .. Len(queue') : queue'[i].op \in Commands
    BY <1>0, <1>2, <1>q DEF ReplayTypes
  <2>3. \A i \in 1 .. Len(todo') : todo'[i].op \in Commands
    BY <1>0, <1>2 DEF ReplayTypes
  <2>4. play.phase = "no"
    BY <1>0 DEF ReplayTypes
  <2> QED BY <1>0, <1>1, <1>2, <1>4, <1>6, <1>q, <2>1, <2>2, <2>3, <2>4 DEF ReplayTypes
<1>8. FilesInv' /\ PlayInv' /\ StreamInv'
  <2>1. play.phase = "no"
    BY <1>0 DEF ReplayTypes
  <2> QED BY <1>0, <1>1, <1>5, <1>6, <2>1 DEF FilesInv, PlayInv, StreamInv
<1>9. RecorderInv'
  <2>1. rec.recording
    BY <1>0 DEF RecorderInv
  <2>2. rec'.epoch <= host.epoch /\ rec'.saveSeq <= host.seq
    BY <1>0, <1>4 DEF RecorderInv
  <2>3. ~rec'.gap
    BY <1>4, <1>b
  <2>4. ~rec'.gapMarker
    BY <1>0, <1>4, <1>b DEF RecorderInv
  <2> QED BY <1>1, <1>4, <2>1, <2>2, <2>3, <2>4 DEF RecorderInv
<1>10. Batch'
  <2>1. ASSUME NEW k \in 1 .. Len(todo')
        PROVE  /\ ~Starts(todo'[k])
               /\ todo'[k].op = "begin" => k = Len(todo') - 2
               /\ todo'[k].op = "snapshot" => k = Len(todo') - 1
               /\ todo'[k].op = "I" => k = Len(todo')
               /\ todo'[k].op \notin {"X", "frame"}
               /\ todo'[k].op # "E"
               /\ n >= 2
    <3>1. k \in 1 .. n - 1 /\ k + 1 \in 1 .. n /\ todo'[k] = todo[k + 1] /\ k \in Nat
            /\ k >= 1 /\ k <= n - 1
      BY <1>2, <2>1
    <3>2. /\ Starts(todo[k + 1]) => k + 1 = 1
          /\ todo[k + 1].op = "begin" => k + 1 = n - 2
          /\ todo[k + 1].op = "snapshot" => k + 1 = n - 1
          /\ todo[k + 1].op = "I" => k + 1 = n
          /\ todo[k + 1].op \in {"X", "frame"} => n = 1
          /\ todo[k + 1].op # "E"
      BY <1>b, <3>1
    <3>3. Len(todo') = n - 1 /\ n \in Nat
      BY <1>2
    <3> HIDE DEF n
    <3> QED BY ONLY <3>1, <3>2, <3>3
  <2>2. todo' # <<>> => n >= 2 /\ ~rec'.gap /\ 1 \in 1 .. Len(todo')
    <3>1. todo' # <<>> => 1 \in 1 .. Len(todo')
      BY <1>2
    <3> QED BY <1>4, <1>b, <2>1, <3>1
  <2>3. todo' # <<>> => ~Starts(todo'[1]) /\ Tip(todo').op \in {"I", "X", "frame"}
    BY <1>3, <1>b, <2>1, <2>2
  <2> QED BY <2>1, <2>2, <2>3 DEF Batch, Starts
<1>11. NumbersInv'
  <2>0. /\ \A s \in DOMAIN disk \cup {writer.open} : s <= rec.segment /\ s \in Nat
        /\ \A i \in 1 .. Len(queue) : queue[i].op = "begin" => queue[i].seg <= rec.segment
             /\ queue[i].seg \in Nat
        /\ \A i \in 1 .. n : todo[i].op = "begin" =>
              todo[i].seg = IF Starts(c) THEN rec.segment + 1 ELSE rec.segment
    <3>1. \A i \in 1 .. Len(queue) : queue[i].op = "begin" => queue[i].seg \in Nat
      BY <1>q, ItemIs
    <3> QED BY <1>0, <1>2, <3>1, StreamIs DEF NumbersInv
  <2>1. Starts(c) <=> c.op \in {"G", "end"}
    BY DEF Starts
  <2>2. rec'.segment = IF Starts(c) THEN rec.segment + 1 ELSE rec.segment
    BY <1>4, <2>1
  <2>3. c.op = "begin" => c.seg = rec'.segment /\ c.seg = rec.segment
    BY <1>2, <2>0, <2>1, <2>2
  <2>4. rec.segment <= rec'.segment /\ rec'.segment \in Nat
    BY <1>4, <2>2
  <2>5. \A s \in DOMAIN disk \cup {writer.open} : s <= rec'.segment
    BY <1>4, <2>0, <2>4
  <2>6. \A i \in 1 .. Len(queue') : queue'[i].op = "begin" => queue'[i].seg <= rec'.segment
    BY <1>4, <1>q, <2>0, <2>3, <2>4
  <2>7. \A i \in 1 .. Len(todo') : todo'[i].op = "begin" => todo'[i].seg = rec'.segment
          /\ ~Starts(todo'[1])
    <3> SUFFICES ASSUME NEW i \in 1 .. Len(todo'), todo'[i].op = "begin"
                 PROVE  todo'[i].seg = rec'.segment /\ ~Starts(todo'[1])
      OBVIOUS
    <3>1. i \in 1 .. n - 1 /\ i + 1 \in 1 .. n /\ todo'[i] = todo[i + 1]
      BY <1>2
    <3>2. 1 \in 1 .. n - 1 /\ 1 + 1 \in 1 .. n /\ 1 + 1 # 1
      BY <1>2, <3>1
    <3>3. ~Starts(todo'[1])
      BY <1>2, <1>b, <3>2
    <3> QED BY <2>0, <2>2, <3>1, <3>3
  <2>8. rec'.recording /\ ~rec'.open /\ ~rec'.gapMarker => Skipped(disk, queue', rec'.segment)
    <3> SUFFICES ASSUME ~rec'.open, ~rec'.gapMarker, rec'.recording
                 PROVE  Skipped(disk, queue', rec'.segment)
      OBVIOUS
    <3>1. c.op # "begin"
      BY <1>4
    <3>2. CASE Starts(c)
      <4>1. rec'.segment = rec.segment + 1
        BY <2>2, <3>2
      <4> QED BY <1>4, <1>q, <2>0, <3>1, <4>1 DEF Skipped
    <3>3. CASE ~Starts(c)
      <4>1. ~rec.open /\ ~rec.gapMarker /\ rec.recording /\ rec'.segment = rec.segment
        BY <1>4, <2>1, <2>2, <3>1, <3>3
      <4>2. Skipped(disk, queue, rec.segment)
        BY <1>0, <4>1 DEF NumbersInv
      <4> QED BY <1>q, <3>1, <4>1, <4>2 DEF Skipped
    <3> QED BY <3>2, <3>3
  <2> QED BY <1>1, <2>5, <2>6, <2>7, <2>8 DEF NumbersInv
<1>12. TipInv'
  <2>0. IF todo[n].op = "I" THEN InputNext ELSE PrintNext
    BY <1>0, <1>3 DEF TipInv
  <2>1. CASE n >= 2
    <3>1. todo[n].op = "I" /\ InputNext /\ Tip(todo') = todo[n] /\ todo' # <<>>
      <4>1. todo[n].op \notin {"X", "frame"}
        <5>1. n # 1 /\ n \in 1 .. n
          BY ONLY <1>2, <2>1
        <5> HIDE DEF n
        <5> QED BY ONLY <1>b, <5>1
      <4>2. Len(todo') >= 1
        BY <1>2, <2>1
      <4> QED BY <1>3, <1>b, <2>0, <2>1, <4>1, <4>2
    <3>2. n = 2 => c.op = "snapshot"
      <4> SUFFICES ASSUME n = 2
                   PROVE  c.op = "snapshot"
        OBVIOUS
      <4>1. BeforeTip(Stream) = c
        <5>1. /\ Len(Stream) = Len(File) + Len(queue) + n /\ Len(Stream) \in Nat
              /\ Len(File) \in Nat /\ Len(queue) \in Nat
              /\ \A i \in Len(File) + Len(queue) + 1 .. Len(Stream) :
                    Stream[i] = todo[i - (Len(File) + Len(queue))]
          BY <1>0, StreamIs
        <5>2. /\ Len(Stream) - 1 \in Len(File) + Len(queue) + 1 .. Len(Stream)
              /\ (Len(Stream) - 1) - (Len(File) + Len(queue)) = 1
              /\ Len(Stream) - 1 \in 1 .. Len(Stream)
          BY <5>1
        <5>3. Stream[Len(Stream) - 1] = todo[1]
          BY ONLY <5>1, <5>2
        <5> QED BY <1>2, <5>2, <5>3 DEF BeforeTip, At
      <4>2. IsMachine(c)
        BY <3>1, <4>1 DEF InputNext
      <4>3. c.op \notin {"frame", "H"}
        BY <1>2, <1>b DEF Commands
      <4> QED BY <4>2, <4>3 DEF IsMachine, IsPrint
    <3>3. ~rec'.fullSave /\ Len(todo') = 1 => FALSE
      BY <1>2, <1>4, <3>2
    <3>4. InputNext'
      BY <1>1, <1>3, <1>4, <1>5, <3>1, <3>3 DEF InputNext
    <3> QED BY <3>1, <3>4 DEF TipInv
  <2>2. CASE n = 1
    <3>1. c = todo[n] /\ todo' = <<>> /\ Tip(Stream) = c
      <4>1. /\ Len(Stream) = Len(File) + Len(queue) + n /\ Len(Stream) \in Nat
            /\ Len(File) \in Nat /\ Len(queue) \in Nat
            /\ \A i \in Len(File) + Len(queue) + 1 .. Len(Stream) :
                  Stream[i] = todo[i - (Len(File) + Len(queue))]
        BY <1>0, StreamIs
      <4>2. /\ Len(Stream) \in Len(File) + Len(queue) + 1 .. Len(Stream)
            /\ Len(Stream) - (Len(File) + Len(queue)) = 1
            /\ Len(Stream) \in 1 .. Len(Stream)
        BY <2>2, <4>1
      <4>3. Stream[Len(Stream)] = todo[1]
        BY ONLY <4>1, <4>2
      <4> QED BY <1>2, <1>3, <2>2, <4>2, <4>3 DEF Tip, At
    <3>2. CASE c.op = "I"
      <4>1. InputNext
        BY <2>0, <3>1, <3>2
      <4>2. rec'.pendingEnd /\ rec'.epoch = host.epoch /\ rec'.fullSave = rec.fullSave
        BY <1>4, <3>2
      <4>3. Tip(todo) = c
        BY <1>3, <3>1
      <4>4. AwaitsFrame'
        BY <1>1, <1>4, <1>5, <3>1, <4>1, <4>3 DEF InputNext, AwaitsFrame
      <4>5. AwaitsEnd'
        BY <1>1, <1>4, <1>5, <2>2, <3>1, <3>2, <4>1, <4>2, <4>4 DEF InputNext, AwaitsEnd
      <4> QED BY <3>1, <4>2, <4>5 DEF TipInv
    <3>3. CASE c.op # "I"
      <4>1. PrintNext /\ Tip(todo) = c
        BY <1>3, <2>0, <3>1, <3>3
      <4>2. c.op \in {"X", "frame"}
        BY <1>b, <3>1, <3>3
      <4>3. ~rec'.pendingEnd /\ rec'.epoch = rec.epoch
        BY <1>4, <3>3, <4>1 DEF PrintNext
      <4>4. HalfWay'
        BY <1>1, <1>4, <1>5, <3>1, <4>1, <4>2, <4>3 DEF PrintNext, HalfWay, IsPrint
      <4> QED BY <3>1, <4>3, <4>4 DEF TipInv
    <3> QED BY <3>2, <3>3
  <2> QED BY <1>2, <2>1, <2>2
<1> QED BY <1>7, <1>8, <1>9, <1>10, <1>11, <1>12 DEF RecordingInv

LEMMA PrefixJoinedFile ==
    ASSUME NEW p, NEW d, NEW n, NEW L, NEW M, Prefix(L, M), JoinedFile(p, d, M, n)
    PROVE  JoinedFile(p, d, L, n)
<1> SUFFICES ASSUME Len(L) > 1, L[1].op = "header", GoesOn(L[2])
             PROVE  OnDisk(p, d, n - 1, L[2].of)
  BY DEF JoinedFile
<1>1. Len(L) \in Nat /\ Len(M) \in Nat /\ Len(L) <= Len(M) /\ \A i \in 1 .. Len(L) : M[i] = L[i]
  BY DEF Prefix
<1>2. 1 \in 1 .. Len(L) /\ 2 \in 1 .. Len(L) /\ Len(M) > 1
  BY ONLY <1>1, Len(L) > 1
<1> QED BY <1>1, <1>2 DEF JoinedFile

(* A command is refused with those after it. *)
LEMMA EnqueueRefused ==
    ASSUME RecordingInv, Enqueue, rec' = Refused, todo' = <<>>, queue' = queue
    PROVE  RecordingInv'
<1>0. /\ ReplayTypes /\ FilesInv /\ Recording /\ RecorderInv /\ Batch /\ todo # <<>>
  BY DEF RecordingInv, Enqueue
<1>1. UNCHANGED <<host, past, writer, disk, play, queue>>
  BY DEF Enqueue
<1>2. rec \in Recorder /\ Head(todo) = todo[1] /\ (todo[1].op = "G" => ~rec.open)
  <2>1. todo \in Seq(Item)
    BY <1>0 DEF ReplayTypes
  <2>2. Head(todo) = todo[1]
    BY ONLY <1>0, <2>1, HeadAndTail
  <2> QED BY <1>0, <2>2 DEF ReplayTypes, Batch
<1>3. /\ rec' \in Recorder /\ ~rec'.open /\ rec'.segment = rec.segment /\ rec'.skipBegin = rec.skipBegin
      /\ rec'.epoch = rec.epoch /\ rec'.saveSeq = rec.saveSeq
      /\ \/ rec'.gap = rec.gap /\ rec'.gapMarker = rec.gapMarker
         \/ rec'.gap
      /\ ~writer.error /\ rec'.recording /\ ~rec'.gapMarker =>
            ~rec.gapMarker /\ ~rec.open /\ rec.recording
  <2>1. CASE Head(todo).op = "G"
    BY <1>2, <2>1 DEF Refused
  <2>2. CASE Head(todo).op # "G" /\ writer.error
    <3>1. rec' = [rec EXCEPT !.recording = FALSE, !.open = FALSE, !.pendingEnd = FALSE]
      BY <2>2 DEF Refused
    <3> QED BY ONLY <1>2, <2>2, <3>1 DEF Recorder
  <2>3. CASE Head(todo).op # "G" /\ ~writer.error
    <3>1. rec' = [rec EXCEPT !.gap = TRUE, !.gapMarker = rec.gapMarker \/ rec.open,
                             !.open = FALSE, !.pendingEnd = FALSE]
      BY <1>2, <2>3 DEF Refused, Recorder
    <3>2. (rec.gapMarker \/ rec.open) \in BOOLEAN
      OBVIOUS
    <3> QED BY ONLY <1>2, <2>3, <3>1, <3>2 DEF Recorder
  <2> QED BY <2>1, <2>2, <2>3
<1>4. Recording' /\ NextInput' = NextInput
  BY <1>0, <1>1, <1>3 DEF Recording, NextInput
<1>5. ReplayTypes'
  <2>1. PastType' /\ DiskType'
    BY <1>0, <1>1, <1>4 DEF ReplayTypes, PastType, DiskType
  <2>2. play.phase = "no"
    BY <1>0 DEF ReplayTypes
  <2> QED BY <1>0, <1>1, <1>3, <1>4, <2>1, <2>2 DEF ReplayTypes
<1>6. FilesInv' /\ PlayInv'
  BY <1>0, <1>1, <1>4 DEF FilesInv, PlayInv, ReplayTypes
<1>7. RecorderInv' /\ Batch'
  BY <1>0, <1>1, <1>3 DEF RecorderInv, Batch
<1> SUFFICES ASSUME ~writer.error
             PROVE  StreamInv' /\ NumbersInv' /\ TipInv'
  BY <1>1, <1>4, <1>5, <1>6, <1>7 DEF RecordingInv
<1>8. StreamInv /\ NumbersInv
  BY <1>0 DEF RecordingInv
<1>9. NumbersInv' /\ TipInv'
  BY <1>1, <1>3, <1>8 DEF NumbersInv, TipInv
<1>10. File' = File /\ Stream' = (File \o queue) \o <<>>
  BY <1>1 DEF File, Stream
<1>11. Prefix(Stream', Stream)
  <2> DEFINE L == (File \o queue) \o <<>>
             M == Stream
  <2>1. todo \in Seq(Item) /\ L = (File \o queue) \o <<>> /\ M = (File \o queue) \o todo
    BY <1>0 DEF ReplayTypes, Stream
  <2> HIDE DEF L, M
  <2>2. Prefix(L, M)
    BY ONLY <1>0, <2>1, Appended
  <2> QED BY <1>10, <2>2 DEF L, M
<1>12. StreamInv'
  <2>1. Grammar(past, Stream')
    BY <1>8, <1>11, PrefixFollows DEF StreamInv
  <2>2. Joins(past, disk, Stream') /\ Ascends(disk, writer.open, Stream')
    BY <1>8, <1>11, PrefixJoins DEF StreamInv
  <2>3. JoinedFile(past, disk, Stream', writer.open)
    BY <1>8, <1>11, PrefixJoinedFile DEF StreamInv
  <2>4. Before(past, Stream', NextInput)
    <3>1. \A i \in 1 .. Len(Stream') : i \in 1 .. Len(Stream) /\ Stream[i] = Stream'[i]
      BY <1>11 DEF Prefix
    <3> QED BY <1>0, <1>8, <3>1 DEF StreamInv, Before
  <2> QED BY <1>1, <1>4, <1>8, <1>10, <2>1, <2>2, <2>3, <2>4 DEF StreamInv
<1> QED BY <1>9, <1>12

LEMMA EnqueueKept ==
    ASSUME RecordingInv, Enqueue
    PROVE  RecordingInv'
<1>1. CASE ~writer.error /\ Cost(Head(todo)) <= Free
  <2>1. /\ queue' = Append(queue, Head(todo)) /\ rec' = Accepted(Head(todo)) /\ todo' = Tail(todo)
        /\ ~writer.error
    BY <1>1 DEF Enqueue
  <2> QED BY <2>1, EnqueueAccepted
<1>2. CASE ~(~writer.error /\ Cost(Head(todo)) <= Free)
  <2>1. rec' = Refused /\ todo' = <<>> /\ queue' = queue
    BY <1>2 DEF Enqueue
  <2> QED BY <2>1, EnqueueRefused
<1> QED BY <1>1, <1>2

-----------------------------------------------------------------------------
(* A boundary begins.                                                        *)

Works ==
    /\ rec.recording /\ ~rec.skipBegin /\ ~(rec.gap /\ Free < Capacity \div 2)
    /\ ~writer.error
Marks == Works /\ rec.gap /\ rec.gapMarker
Apart == rec.open /\ host.epoch # rec.epoch
Held(kind) == [op |-> "snapshot", kind |-> kind, of |-> host.at]
Given == [op |-> "I", frame |-> host.at.frame, input |-> host.input + 1]

(* What the boundary gives the worker, with a new segment or without. *)
GivenBatch(t, new) ==
    /\ t \in Seq(Item) /\ Len(t) >= 1 /\ t[Len(t)] = Given
    /\ IF new
       THEN /\ Len(t) >= 3 /\ t[Len(t) - 1] = Held(Kind(Apart))
            /\ t[Len(t) - 2] = [op |-> "begin", seg |-> rec.segment + 1]
            /\ \A k \in 1 .. Len(t) - 3 :
                  \/ t[k].op = "remove"
                  \/ k = 1 /\ Marks /\ t[k].op = "G"
                  \/ k = 1 /\ rec.open /\ t[k].op = "end"
            /\ Marks \/ rec.open => Len(t) >= 4 /\ Starts(t[1])
       ELSE /\ rec.open /\ ~Marks
            /\ IF Apart THEN Len(t) = 2 /\ t[1] = Held("R") ELSE Len(t) = 1

LEMMA TwoParts ==
    ASSUME NEW S, NEW s \in Seq(S), NEW t \in Seq(S), NEW L, L = s \o t
    PROVE  /\ L \in Seq(S) /\ Len(L) = Len(s) + Len(t) /\ Len(s) \in Nat /\ Len(t) \in Nat
           /\ \A i \in 1 .. Len(s) : L[i] = s[i]
           /\ \A i \in Len(s) + 1 .. Len(L) : L[i] = t[i - Len(s)]
OBVIOUS

LEMMA OneMore ==
    ASSUME NEW S, NEW s \in Seq(S), NEW x \in S, NEW L, L = s \o <<x>>
    PROVE  /\ L \in Seq(S) /\ Len(L) = Len(s) + 1 /\ Len(s) \in Nat
           /\ \A i \in 1 .. Len(s) : L[i] = s[i]
           /\ L[Len(s) + 1] = x
OBVIOUS

LEMMA EvictionsAre ==
    ASSUME ReplayTypes
    PROVE  /\ Evictions(rec.segment + 1) \in Seq(Item)
           /\ \A i \in 1 .. Len(Evictions(rec.segment + 1)) :
                 Evictions(rec.segment + 1)[i].op = "remove"
<1> DEFINE m == (rec.segment + 1) - Segments + 1 - rec.oldest
           n == IF m < 0 THEN 0 ELSE m
           E == [i \in 1 .. n |-> [op |-> "remove", seg |-> rec.oldest + i - 1]]
<1>1. rec.segment \in Nat /\ rec.oldest \in Nat /\ Segments \in Nat
  <2>1. rec \in Recorder
    BY DEF ReplayTypes
  <2> QED BY <2>1, QueueAssumption DEF Recorder
<1>2. n \in Nat /\ 1 .. n = 1 .. m
  BY ONLY <1>1
<1>3. Evictions(rec.segment + 1) = E
  BY <1>2 DEF Evictions
<1> HIDE DEF n
<1>4. \A i \in 1 .. n : [op |-> "remove", seg |-> rec.oldest + i - 1] \in Item
  <2>1. \A i \in 1 .. n : rec.oldest + i - 1 \in Int
    BY <1>1, <1>2
  <2> QED BY <2>1 DEF Item
<1>5. E \in Seq(Item) /\ Len(E) = n /\ \A i \in 1 .. n : E[i].op = "remove"
  BY <1>2, <1>4
<1> QED BY <1>3, <1>5

LEMMA NewBatchIs ==
    ASSUME RecordingInv, Recording, NEW t,
           t = (IF Marks THEN <<[op |-> "G"]>> ELSE <<>>)
               \o (StartSegment \o Checkpoint(Kind(Apart))) \o <<Given>>
    PROVE  GivenBatch(t, TRUE)
<1> DEFINE A == IF Marks THEN <<[op |-> "G"]>> ELSE <<>>
           B == IF rec.open THEN <<[op |-> "end"]>> ELSE <<>>
           E == Evictions(rec.segment + 1)
           b == [op |-> "begin", seg |-> rec.segment + 1]
           c == Held(Kind(Apart))
           g == Given
           L1 == B \o E
           L2 == L1 \o <<b>>
           L3 == L2 \o <<c>>
           L4 == A \o L3
<1>0. ReplayTypes /\ host.at \in Machine /\ host.at.frame \in Int /\ host.input \in Nat
        /\ rec.segment \in Nat
  <2>1. ReplayTypes /\ host \in Host /\ rec \in Recorder
    BY DEF RecordingInv, ReplayTypes
  <2>2. host.at \in Machine /\ host.input \in Nat /\ rec.segment \in Nat
    BY <2>1 DEF Host, Recorder
  <2> QED BY <2>1, <2>2 DEF Machine
<1>1. b \in Item /\ c \in Item /\ g \in Item
  <2>1. rec.segment + 1 \in Nat \ {0} /\ host.input + 1 \in Int
    BY <1>0
  <2>2. b \in Item /\ c \in Item
    BY <1>0, <2>1 DEF Item, Held, Kind
  <2>3. g \in Item
    BY <1>0, <2>1 DEF Item, Given
  <2> QED BY <2>2, <2>3
<1>2. /\ A \in Seq(Item) /\ Len(A) \in Nat /\ Len(A) <= 1 /\ (Len(A) >= 1 <=> Marks)
           /\ (Len(A) >= 1 => A[1].op = "G")
  <2>1. [op |-> "G"] \in Item
    BY DEF Item
  <2> QED BY <2>1
<1>3. /\ B \in Seq(Item) /\ Len(B) \in Nat /\ Len(B) <= 1 /\ (Len(B) >= 1 <=> rec.open)
           /\ (Len(B) >= 1 => B[1].op = "end")
  <2>1. [op |-> "end"] \in Item
    BY DEF Item
  <2> QED BY <2>1
<1>4. E \in Seq(Item) /\ \A i \in 1 .. Len(E) : E[i].op = "remove"
  BY <1>0, EvictionsAre
<1>5. Len(A) < 1 \/ Len(B) < 1
  <2>1. Marks => ~rec.open
    BY DEF Marks, RecordingInv, RecorderInv
  <2> QED BY <1>2, <1>3, <2>1
<1>s. Len(A) \in Nat /\ Len(A) <= 1 /\ Len(B) \in Nat /\ Len(B) <= 1
  BY <1>2, <1>3
<1>6. /\ L1 = B \o E /\ L2 = L1 \o <<b>> /\ L3 = L2 \o <<c>> /\ L4 = A \o L3 /\ t = L4 \o <<g>>
      /\ b = [op |-> "begin", seg |-> rec.segment + 1] /\ c = Held(Kind(Apart)) /\ g = Given
  BY DEF StartSegment, Checkpoint, Held
<1> HIDE DEF A, B, E, b, c, g, L1, L2, L3, L4
<1>7. /\ L1 \in Seq(Item) /\ Len(L1) = Len(B) + Len(E) /\ Len(B) \in Nat /\ Len(E) \in Nat
      /\ \A i \in 1 .. Len(B) : L1[i] = B[i]
      /\ \A i \in Len(B) + 1 .. Len(L1) : L1[i] = E[i - Len(B)]
  <2>1. B \in Seq(Item) /\ E \in Seq(Item) /\ L1 = B \o E
    BY <1>3, <1>4, <1>6
  <2> QED BY ONLY <2>1, TwoParts
<1>8. /\ L2 \in Seq(Item) /\ Len(L2) = Len(L1) + 1 /\ L2[Len(L1) + 1] = b
      /\ \A i \in 1 .. Len(L1) : L2[i] = L1[i]
  BY ONLY <1>1, <1>6, <1>7, OneMore
<1>9. /\ L3 \in Seq(Item) /\ Len(L3) = Len(L2) + 1 /\ L3[Len(L2) + 1] = c
      /\ \A i \in 1 .. Len(L2) : L3[i] = L2[i]
  BY ONLY <1>1, <1>6, <1>8, OneMore
<1>10. /\ L4 \in Seq(Item) /\ Len(L4) = Len(A) + Len(L3) /\ Len(A) \in Nat
       /\ \A i \in 1 .. Len(A) : L4[i] = A[i]
       /\ \A i \in Len(A) + 1 .. Len(L4) : L4[i] = L3[i - Len(A)]
  <2>1. A \in Seq(Item) /\ L3 \in Seq(Item) /\ L4 = A \o L3
    BY <1>2, <1>6, <1>9
  <2> QED BY ONLY <2>1, TwoParts
<1>11. /\ t \in Seq(Item) /\ Len(t) = Len(L4) + 1 /\ t[Len(L4) + 1] = g
       /\ \A i \in 1 .. Len(L4) : t[i] = L4[i]
  BY ONLY <1>1, <1>6, <1>10, OneMore
<1> DEFINE n == Len(t)
<1>12. n = Len(A) + Len(B) + Len(E) + 3 /\ n \in Nat /\ n = Len(t)
  BY ONLY <1>7, <1>8, <1>9, <1>10, <1>11
<1> HIDE DEF n
<1>13. t[n] = g
  BY ONLY <1>7, <1>8, <1>9, <1>10, <1>11, <1>12
<1>14. t[n - 1] = c
  <2>1. n - 1 \in 1 .. Len(L4) /\ n - 1 \in Len(A) + 1 .. Len(L4) /\ (n - 1) - Len(A) = Len(L2) + 1
    BY ONLY <1>7, <1>8, <1>9, <1>10, <1>11, <1>12
  <2> QED BY ONLY <1>9, <1>10, <1>11, <2>1
<1>15. t[n - 2] = b
  <2>1. /\ n - 2 \in 1 .. Len(L4) /\ n - 2 \in Len(A) + 1 .. Len(L4) /\ (n - 2) - Len(A) = Len(L1) + 1
        /\ Len(L1) + 1 \in 1 .. Len(L2)
    BY ONLY <1>7, <1>8, <1>9, <1>10, <1>11, <1>12
  <2> QED BY ONLY <1>8, <1>9, <1>10, <1>11, <2>1
<1>16. ASSUME NEW k \in 1 .. n - 3
       PROVE  \/ t[k].op = "remove"
              \/ k = 1 /\ Marks /\ t[k].op = "G"
              \/ k = 1 /\ rec.open /\ t[k].op = "end"
  <2>1. k \in 1 .. Len(L4) /\ t[k] = L4[k]
    <3>1. k \in 1 .. Len(L4)
      BY ONLY <1>7, <1>8, <1>9, <1>10, <1>11, <1>12, <1>16
    <3> QED BY ONLY <1>11, <3>1
  <2>2. CASE k <= Len(A)
    <3>1. k \in 1 .. Len(A) /\ k = 1 /\ Len(A) >= 1
      <4>1. k >= 1 /\ k \in Int
        BY ONLY <1>12, <1>16
      <4>2. Len(A) \in Int /\ Len(A) <= 1
        BY ONLY <1>s
      <4> QED BY ONLY <2>2, <4>1, <4>2
    <3> QED BY <1>2, <1>10, <2>1, <3>1
  <2>3. CASE k > Len(A)
    <3> DEFINE j == k - Len(A)
    <3>1. /\ k \in Len(A) + 1 .. Len(L4) /\ j \in 1 .. Len(L1) /\ j \in 1 .. Len(L2) /\ j = k - Len(A)
      BY ONLY <1>7, <1>8, <1>9, <1>10, <1>12, <1>16, <2>1, <2>3
    <3> HIDE DEF j
    <3>2. t[k] = L1[j]
      BY ONLY <1>8, <1>9, <1>10, <2>1, <3>1
    <3>3. CASE j <= Len(B)
      <4>1. j \in 1 .. Len(B) /\ j = 1 /\ k = 1 /\ Len(B) >= 1
        <5>1. k >= 1 /\ k \in Int /\ j >= 1 /\ j \in Int /\ j = k - Len(A)
          BY ONLY <1>12, <1>16, <3>1
        <5>2. /\ Len(B) \in Int /\ Len(B) <= 1 /\ Len(B) >= 0
              /\ Len(A) \in Int /\ Len(A) <= 1 /\ Len(A) >= 0
          BY ONLY <1>s
        <5> QED BY ONLY <1>5, <3>3, <5>1, <5>2
      <4> QED BY <1>3, <1>7, <3>2, <4>1
    <3>4. CASE j > Len(B)
      <4>1. j \in Len(B) + 1 .. Len(L1) /\ j - Len(B) \in 1 .. Len(E)
        BY ONLY <1>7, <3>1, <3>4
      <4> QED BY <1>4, <1>7, <3>2, <4>1
    <3>5. j \in Nat /\ Len(B) \in Nat
      BY ONLY <1>7, <3>1
    <3> QED BY ONLY <3>3, <3>4, <3>5
  <2>4. k \in Nat /\ Len(A) \in Nat
    BY ONLY <1>10, <1>16
  <2> QED BY ONLY <2>2, <2>3, <2>4
<1>17. Marks \/ rec.open => n >= 4 /\ Starts(t[1])
  <2> SUFFICES ASSUME Marks \/ rec.open
               PROVE  n >= 4 /\ Starts(t[1])
    OBVIOUS
  <2>1. Len(A) >= 1 \/ (Len(A) < 1 /\ Len(B) >= 1)
    BY <1>2, <1>3
  <2>2. n >= 4 /\ 1 \in 1 .. Len(L4) /\ 1 \in 1 .. Len(L3) /\ 1 \in 1 .. Len(L2)
    BY ONLY <1>7, <1>8, <1>9, <1>10, <1>12, <2>1
  <2>3. CASE Len(A) >= 1
    <3>1. 1 \in 1 .. Len(A) /\ t[1].op = "G"
      BY <1>2, <1>10, <1>11, <2>2, <2>3
    <3> QED BY <2>2, <3>1 DEF Starts
  <2>4. CASE Len(A) < 1 /\ Len(B) >= 1
    <3>1. 1 \in Len(A) + 1 .. Len(L4) /\ 1 - Len(A) = 1 /\ 1 \in 1 .. Len(B) /\ 1 \in 1 .. Len(L1)
      BY ONLY <1>7, <2>2, <2>4
    <3>2. t[1] = B[1]
      BY ONLY <1>7, <1>8, <1>9, <1>10, <1>11, <2>2, <3>1
    <3> QED BY <1>3, <2>2, <2>4, <3>2 DEF Starts
  <2> QED BY ONLY <2>1, <2>3, <2>4
<1>18. n >= 3
  BY ONLY <1>2, <1>7, <1>12
<1>19. /\ Len(t) >= 3 /\ Len(t) >= 1 /\ t[Len(t)] = Given /\ t[Len(t) - 1] = Held(Kind(Apart))
       /\ t[Len(t) - 2] = [op |-> "begin", seg |-> rec.segment + 1]
  <2>1. b = [op |-> "begin", seg |-> rec.segment + 1] /\ c = Held(Kind(Apart)) /\ g = Given
    BY <1>6
  <2>2. n >= 3 /\ n >= 1 /\ n = Len(t)
    BY ONLY <1>12, <1>18
  <2>3. t[Len(t)] = g /\ t[Len(t) - 1] = c /\ t[Len(t) - 2] = b
    BY ONLY <1>13, <1>14, <1>15, <2>2
  <2> QED BY <2>1, <2>2, <2>3
<1>20. \A k \in 1 .. Len(t) - 3 : \/ t[k].op = "remove"
                                  \/ k = 1 /\ Marks /\ t[k].op = "G"
                                  \/ k = 1 /\ rec.open /\ t[k].op = "end"
  BY <1>12, <1>16
<1>21. Marks \/ rec.open => Len(t) >= 4 /\ Starts(t[1])
  BY <1>12, <1>17
<1> QED BY ONLY <1>11, <1>19, <1>20, <1>21 DEF GivenBatch

LEMMA FrameBeginIs ==
    ASSUME RecordingInv, FrameBegin
    PROVE  /\ ReplayTypes /\ FilesInv /\ Recording /\ RecorderInv /\ todo = <<>> /\ host.pc = "poll"
           /\ UNCHANGED <<past, queue, writer, disk, play>>
           /\ host \in Host /\ host' \in Host /\ Recording' /\ host'.pc = "run" /\ host'.at = host.at
           /\ host'.epoch = host.epoch /\ host'.seq = host.seq
           /\ host'.input = (IF rec.skipBegin THEN host.input ELSE host.input + 1)
           /\ rec \in Recorder /\ rec' \in Recorder /\ ~rec'.skipBegin
           /\ rec'.boundary = (IF rec.skipBegin \/ ~rec.recording THEN rec.boundary ELSE host.at.frame)
           /\ rec'.gap = (rec.gap /\ (~Works \/ Marks)) /\ rec'.gapMarker = rec.gapMarker
           /\ rec'.segment = (IF Works /\ ~Marks /\ ~rec.open THEN rec.segment + 1 ELSE rec.segment)
           /\ rec'.recording = (rec.recording /\ (rec.skipBegin \/ ~writer.error))
           /\ rec'.open = (rec.open /\ (rec.skipBegin \/ ~writer.error))
           /\ rec'.pendingEnd = rec.pendingEnd /\ rec'.epoch = rec.epoch /\ rec'.saveSeq = rec.saveSeq
           /\ rec'.fullSave = rec.fullSave
           /\ ~Works => todo' = <<>>
           /\ Works => \E new \in BOOLEAN : GivenBatch(todo', new)
<1>0. /\ ReplayTypes /\ FilesInv /\ Recording /\ RecorderInv /\ todo = <<>> /\ host.pc = "poll"
      /\ UNCHANGED <<past, queue, writer, disk, play>>
      /\ host' = [host EXCEPT !.pc = "run", !.input = IF rec.skipBegin THEN @ ELSE @ + 1]
  BY DEF RecordingInv, FrameBegin, Between
<1>1. /\ host \in Host /\ rec \in Recorder /\ host.at \in Machine /\ host.at.frame \in Int
      /\ host.input \in Nat /\ rec.segment \in Nat
  <2>1. host \in Host /\ rec \in Recorder
    BY <1>0 DEF ReplayTypes
  <2>2. host.at \in Machine /\ host.input \in Nat /\ rec.segment \in Nat
    BY <2>1 DEF Host, Recorder
  <2> QED BY <2>1, <2>2 DEF Machine
<1>2. /\ host' \in Host /\ Recording' /\ host'.pc = "run" /\ host'.at = host.at
      /\ host'.epoch = host.epoch /\ host'.seq = host.seq
      /\ host'.input = (IF rec.skipBegin THEN host.input ELSE host.input + 1)
  <2>1. host' = [host EXCEPT !.pc = "run",
                             !.input = IF rec.skipBegin THEN host.input ELSE host.input + 1]
    BY <1>0, <1>1 DEF Host
  <2>2. (IF rec.skipBegin THEN host.input ELSE host.input + 1) \in Nat
    BY <1>1
  <2>3. host' \in Host /\ host'.left = host.left
    BY ONLY <1>1, <2>1, <2>2 DEF Host
  <2> QED BY <1>0, <1>1, <2>1, <2>3 DEF Host, Recording
<1>3. PICK early \in BOOLEAN :
        LET skip == rec.skipBegin
            waits == rec.gap /\ Free < Capacity \div 2
            works == rec.recording /\ ~skip /\ ~waits /\ ~writer.error
            discontinuity == rec.open /\ host.epoch # rec.epoch
            new == ~rec.open \/ rec.rows >= SegmentFrames \/ (discontinuity /\ early)
            marks == works /\ rec.gap /\ rec.gapMarker
            input == <<[op |-> "I", frame |-> host.at.frame, input |-> host.input + 1]>>
        IN /\ rec' = [rec EXCEPT
                !.skipBegin = FALSE,
                !.boundary = IF skip \/ ~rec.recording THEN @ ELSE host.at.frame,
                !.gap = @ /\ (~works \/ marks),
                !.segment = IF works /\ ~marks /\ ~rec.open THEN @ + 1 ELSE @,
                !.recording = @ /\ (skip \/ ~writer.error),
                !.open = @ /\ (skip \/ ~writer.error)]
           /\ todo' = IF ~works THEN <<>>
                      ELSE (IF marks THEN <<[op |-> "G"]>> ELSE <<>>)
                           \o (CASE new -> StartSegment \o Checkpoint(Kind(discontinuity))
                                 [] ~new /\ discontinuity -> Checkpoint("R")
                                 [] OTHER -> <<>>)
                           \o input
  BY DEF FrameBegin
<1> DEFINE New == ~rec.open \/ rec.rows >= SegmentFrames \/ (Apart /\ early)
           A == IF Marks THEN <<[op |-> "G"]>> ELSE <<>>
<1>4. rec' = [rec EXCEPT
                !.skipBegin = FALSE,
                !.boundary = IF rec.skipBegin \/ ~rec.recording THEN rec.boundary ELSE host.at.frame,
                !.gap = rec.gap /\ (~Works \/ Marks),
                !.segment = IF Works /\ ~Marks /\ ~rec.open THEN rec.segment + 1 ELSE rec.segment,
                !.recording = rec.recording /\ (rec.skipBegin \/ ~writer.error),
                !.open = rec.open /\ (rec.skipBegin \/ ~writer.error)]
  BY <1>1, <1>3 DEF Works, Marks, Recorder
<1>5. /\ rec' \in Recorder /\ ~rec'.skipBegin
      /\ rec'.boundary = (IF rec.skipBegin \/ ~rec.recording THEN rec.boundary ELSE host.at.frame)
      /\ rec'.gap = (rec.gap /\ (~Works \/ Marks)) /\ rec'.gapMarker = rec.gapMarker
      /\ rec'.segment = (IF Works /\ ~Marks /\ ~rec.open THEN rec.segment + 1 ELSE rec.segment)
      /\ rec'.recording = (rec.recording /\ (rec.skipBegin \/ ~writer.error))
      /\ rec'.open = (rec.open /\ (rec.skipBegin \/ ~writer.error))
      /\ rec'.pendingEnd = rec.pendingEnd /\ rec'.epoch = rec.epoch /\ rec'.saveSeq = rec.saveSeq
      /\ rec'.fullSave = rec.fullSave
  <2>1. (IF Works /\ ~Marks /\ ~rec.open THEN rec.segment + 1 ELSE rec.segment) \in Nat
    BY <1>1
  <2>2. (IF rec.skipBegin \/ ~rec.recording THEN rec.boundary ELSE host.at.frame) \in Int
    BY <1>1 DEF Recorder
  <2>3. /\ FALSE \in BOOLEAN /\ (rec.gap /\ (~Works \/ Marks)) \in BOOLEAN
        /\ (rec.recording /\ (rec.skipBegin \/ ~writer.error)) \in BOOLEAN
        /\ (rec.open /\ (rec.skipBegin \/ ~writer.error)) \in BOOLEAN
    OBVIOUS
  <2> DEFINE bound == IF rec.skipBegin \/ ~rec.recording THEN rec.boundary ELSE host.at.frame
             number == IF Works /\ ~Marks /\ ~rec.open THEN rec.segment + 1 ELSE rec.segment
             gap == rec.gap /\ (~Works \/ Marks)
             goes == rec.recording /\ (rec.skipBegin \/ ~writer.error)
             opens == rec.open /\ (rec.skipBegin \/ ~writer.error)
  <2>4. /\ number \in Nat /\ bound \in Int /\ FALSE \in BOOLEAN /\ gap \in BOOLEAN
        /\ goes \in BOOLEAN /\ opens \in BOOLEAN
    BY ONLY <2>1, <2>2, <2>3
  <2>5. rec' = [rec EXCEPT !.skipBegin = FALSE, !.boundary = bound, !.gap = gap,
                           !.segment = number, !.recording = goes, !.open = opens]
    BY <1>4
  <2> HIDE DEF bound, number, gap, goes, opens
  <2>6. /\ rec' \in Recorder /\ ~rec'.skipBegin /\ rec'.boundary = bound /\ rec'.gap = gap
        /\ rec'.gapMarker = rec.gapMarker /\ rec'.segment = number /\ rec'.recording = goes
        /\ rec'.open = opens /\ rec'.pendingEnd = rec.pendingEnd /\ rec'.epoch = rec.epoch
        /\ rec'.saveSeq = rec.saveSeq /\ rec'.fullSave = rec.fullSave
    <3>1. rec \in Recorder
      BY ONLY <1>1
    <3>2. rec' \in Recorder
      <4> DEFINE half == [rec EXCEPT !.skipBegin = FALSE, !.boundary = bound, !.gap = gap]
      <4>1. half \in Recorder
        BY ONLY <2>4, <3>1 DEF Recorder
      <4>2. rec' = [half EXCEPT !.segment = number, !.recording = goes, !.open = opens]
        BY ONLY <2>5, <3>1 DEF Recorder
      <4> HIDE DEF half
      <4> QED BY ONLY <2>4, <4>1, <4>2 DEF Recorder
    <3>3. /\ ~rec'.skipBegin /\ rec'.boundary = bound /\ rec'.gap = gap
          /\ rec'.segment = number /\ rec'.recording = goes /\ rec'.open = opens
      BY ONLY <2>5, <3>1 DEF Recorder
    <3>4. /\ rec'.gapMarker = rec.gapMarker /\ rec'.pendingEnd = rec.pendingEnd
          /\ rec'.epoch = rec.epoch /\ rec'.saveSeq = rec.saveSeq
          /\ rec'.fullSave = rec.fullSave
      BY ONLY <2>5, <3>1 DEF Recorder
    <3> QED BY ONLY <3>2, <3>3, <3>4
  <2> QED BY <2>6 DEF bound, number, gap, goes, opens
<1>6. ~Works => todo' = <<>>
  BY <1>3 DEF Works
<1>7. ASSUME Works
      PROVE  \E new \in BOOLEAN : GivenBatch(todo', new)
  <2>1. CASE New
    <3>1. todo' = A \o (StartSegment \o Checkpoint(Kind(Apart))) \o <<Given>>
      BY <1>3, <1>7, <2>1 DEF Works, Marks, Apart, Given
    <3>2. GivenBatch(todo', TRUE)
      BY <1>0, <3>1, NewBatchIs
    <3> QED BY <3>2
  <2>2. CASE ~New
    <3>1. rec.open /\ ~Marks
      BY <1>0, <2>2 DEF Marks, RecorderInv
    <3>2. Given \in Item /\ Held("R") \in Item
      <4>1. host.input + 1 \in Int
        BY <1>1
      <4> QED BY <1>1, <4>1 DEF Item, Given, Held
    <3> DEFINE g == Given
               h == Held("R")
    <3>3. g = Given /\ h = Held("R") /\ g \in Item /\ h \in Item
      BY <3>2
    <3>4. GivenBatch(todo', FALSE)
      <4>1. CASE Apart
        <5>1. todo' = <<>> \o <<h>> \o <<g>>
          BY <1>3, <1>7, <2>2, <3>1, <4>1 DEF Works, Marks, Apart, Given, Checkpoint, Held
        <5> HIDE DEF g, h
        <5> DEFINE s == <<>> \o <<h>>
        <5>2. s \in Seq(Item) /\ Len(s) <= 1 /\ Len(s) >= 1 /\ s[1] = h
          BY <3>3
        <5>3. todo' = s \o <<g>> /\ g \in Item
          BY <3>3, <5>1
        <5> HIDE DEF s
        <5>4. todo' \in Seq(Item) /\ Len(todo') = 2 /\ todo'[2] = g /\ todo'[1] = h
          <6>1. /\ todo' \in Seq(Item) /\ Len(todo') = Len(s) + 1 /\ todo'[Len(s) + 1] = g
                /\ Len(s) \in Nat /\ \A i \in 1 .. Len(s) : todo'[i] = s[i]
            BY ONLY <5>2, <5>3, OneMore
          <6>2. 1 \in 1 .. Len(s) /\ Len(s) + 1 = 2
            BY ONLY <5>2, <6>1
          <6> QED BY ONLY <5>2, <6>1, <6>2
        <5> QED BY <3>1, <3>3, <4>1, <5>4 DEF GivenBatch
      <4>2. CASE ~Apart
        <5>1. todo' = <<>> \o <<>> \o <<g>>
          BY <1>3, <1>7, <2>2, <3>1, <4>2 DEF Works, Marks, Apart, Given
        <5> HIDE DEF g, h
        <5>2. todo' \in Seq(Item) /\ Len(todo') = 1 /\ todo'[1] = g
          BY <3>3, <5>1
        <5> QED BY <3>1, <3>3, <4>2, <5>2 DEF GivenBatch
      <4> QED BY <4>1, <4>2
    <3> QED BY <3>4
  <2> QED BY <2>1, <2>2
<1> QED BY <1>0, <1>1, <1>2, <1>5, <1>6, <1>7

LEMMA FrameBeginTypes ==
    ASSUME RecordingInv, FrameBegin
    PROVE  ReplayTypes' /\ FilesInv' /\ PlayInv' /\ NextInput' = NextInput
<1>0. /\ ReplayTypes /\ FilesInv /\ Recording /\ todo = <<>> /\ host.pc = "poll"
      /\ UNCHANGED <<past, queue, writer, disk, play>>
      /\ host \in Host /\ host' \in Host /\ Recording' /\ host'.pc = "run"
      /\ host'.input = (IF rec.skipBegin THEN host.input ELSE host.input + 1)
      /\ rec' \in Recorder /\ ~rec'.skipBegin
      /\ ~Works => todo' = <<>>
      /\ Works => \E new \in BOOLEAN : GivenBatch(todo', new)
  BY FrameBeginIs
<1>1. NextInput' = NextInput
  BY <1>0 DEF NextInput
<1>2. todo' \in Seq(Item) /\ \A i \in 1 .. Len(todo') : todo'[i].op \in Commands
  <2>1. CASE ~Works
    BY <1>0, <2>1
  <2>2. CASE Works
    <3>1. PICK new \in BOOLEAN : GivenBatch(todo', new)
      BY <1>0, <2>2
    <3>2. todo' \in Seq(Item) /\ Len(todo') \in Nat
      BY <3>1 DEF GivenBatch
    <3>3. ASSUME NEW i \in 1 .. Len(todo')
          PROVE  todo'[i].op \in Commands
      <4> DEFINE n == Len(todo')
      <4>1. n = Len(todo') /\ n \in Nat /\ i \in 1 .. n
        BY <3>2
      <4> HIDE DEF n
      <4>2. CASE i = n
        BY <3>1, <4>1, <4>2 DEF GivenBatch, Given, Commands
      <4>3. CASE new /\ i # n
        <5>1. i = n - 1 \/ i = n - 2 \/ i \in 1 .. n - 3
          BY ONLY <4>1, <4>3
        <5>2. /\ todo'[n - 1].op = "snapshot" /\ todo'[n - 2].op = "begin"
              /\ \A k \in 1 .. n - 3 : todo'[k].op \in {"remove", "G", "end"}
          BY <3>1, <4>1, <4>3 DEF GivenBatch, Held
        <5> QED BY ONLY <5>1, <5>2 DEF Commands
      <4>4. CASE ~new /\ i # n
        <5>1. n <= 2 /\ todo'[1].op \in {"snapshot", "I"}
          BY <3>1, <4>1, <4>4 DEF GivenBatch, Held, Given
        <5>2. i = 1
          BY ONLY <4>1, <4>4, <5>1
        <5> QED BY <5>1, <5>2 DEF Commands
      <4> QED BY <4>2, <4>3, <4>4
    <3> QED BY <3>2, <3>3
  <2> QED BY <2>1, <2>2
<1>3. PastType'
  <2>1. \A k \in DOMAIN past : past[k].input <= host'.input
    <3>1. \A k \in DOMAIN past : past[k].input \in Int /\ past[k].input <= host.input
      BY <1>0, PastIs DEF ReplayTypes, PastType
    <3>2. host.input \in Nat
      BY <1>0 DEF Host
    <3> QED BY <1>0, <3>1, <3>2
  <2> QED BY <1>0, <2>1 DEF ReplayTypes, PastType
<1>4. DiskType' /\ play.phase = "no"
  BY <1>0 DEF ReplayTypes, DiskType
<1> QED BY <1>0, <1>1, <1>2, <1>3, <1>4 DEF ReplayTypes, FilesInv, PlayInv

(* Nothing is given: the recorder is not told, waits for the queue, or has
   stopped. *)
LEMMA FrameBeginIdle ==
    ASSUME RecordingInv, FrameBegin, ~Works
    PROVE  RecordingInv'
<1>0. /\ ReplayTypes /\ FilesInv /\ Recording /\ RecorderInv /\ todo = <<>> /\ host.pc = "poll"
      /\ UNCHANGED <<past, queue, writer, disk, play>>
      /\ host \in Host /\ host' \in Host /\ Recording' /\ host'.pc = "run" /\ host'.at = host.at
      /\ host'.epoch = host.epoch /\ host'.seq = host.seq
      /\ host'.input = (IF rec.skipBegin THEN host.input ELSE host.input + 1)
      /\ rec \in Recorder /\ rec' \in Recorder /\ ~rec'.skipBegin
      /\ rec'.boundary = (IF rec.skipBegin \/ ~rec.recording THEN rec.boundary ELSE host.at.frame)
      /\ rec'.gap = rec.gap /\ rec'.gapMarker = rec.gapMarker
      /\ rec'.segment = rec.segment
      /\ rec'.recording = (rec.recording /\ (rec.skipBegin \/ ~writer.error))
      /\ rec'.open = (rec.open /\ (rec.skipBegin \/ ~writer.error))
      /\ rec'.pendingEnd = rec.pendingEnd /\ rec'.epoch = rec.epoch /\ rec'.saveSeq = rec.saveSeq
      /\ rec'.fullSave = rec.fullSave /\ todo' = <<>>
  <2>1. rec.gap \in BOOLEAN
    BY DEF RecordingInv, ReplayTypes, Recorder
  <2> QED BY <2>1, FrameBeginIs
<1>1. ReplayTypes' /\ FilesInv' /\ PlayInv' /\ NextInput' = NextInput
  BY FrameBeginTypes
<1>2. RecorderInv' /\ Batch'
  <2>1. Batch'
    BY <1>0 DEF Batch
  <2> QED BY <1>0, <2>1 DEF RecorderInv
<1> SUFFICES ASSUME ~writer.error
             PROVE  StreamInv' /\ NumbersInv' /\ TipInv'
  BY <1>0, <1>1, <1>2 DEF RecordingInv
<1>3. StreamInv /\ NumbersInv /\ TipInv
  BY <1>0 DEF RecordingInv
<1>4. Stream' = Stream /\ File' = File
  BY <1>0 DEF Stream, File
<1>5. StreamInv' /\ NumbersInv'
  BY <1>0, <1>1, <1>3, <1>4 DEF StreamInv, NumbersInv
<1>6. TipInv'
  <2> SUFFICES ASSUME rec.open
               PROVE  rec'.pendingEnd /\ AwaitsEnd'
    BY <1>0 DEF TipInv
  <2>1. rec.skipBegin
    BY <1>0 DEF Works, RecorderInv
  <2>2. rec.pendingEnd /\ AwaitsEnd
    BY <1>0, <1>3, <2>1 DEF TipInv, HalfWay
  <2>3. rec.epoch = host.epoch => AwaitsFrame
    BY <1>0, <2>2 DEF AwaitsEnd, FrameRan
  <2>4. rec'.epoch = host'.epoch => AwaitsFrame'
    BY <1>0, <1>4, <2>1, <2>3 DEF AwaitsFrame
  <2> QED BY <1>0, <1>4, <2>2, <2>4 DEF AwaitsEnd
<1> QED BY <1>5, <1>6

(* What is given goes on from the end of the stream. *)
LEMMA FrameBeginWorks ==
    ASSUME RecordingInv, FrameBegin, Works
    PROVE  RecordingInv'
<1> DEFINE L == Stream
           M == Stream'
           t == todo'
           n == Len(t)
           last == Tip(L)
<1>0. /\ ReplayTypes /\ FilesInv /\ Recording /\ RecorderInv /\ todo = <<>> /\ host.pc = "poll"
      /\ UNCHANGED <<past, queue, writer, disk, play>>
      /\ host \in Host /\ Recording' /\ host'.pc = "run" /\ host'.at = host.at
      /\ host'.epoch = host.epoch /\ host'.seq = host.seq
      /\ host'.input = host.input + 1 /\ host.input \in Nat
      /\ rec \in Recorder /\ ~rec'.skipBegin /\ rec'.boundary = host.at.frame
      /\ rec'.gap = (rec.gap /\ Marks) /\ rec'.gapMarker = rec.gapMarker
      /\ rec'.segment = (IF ~Marks /\ ~rec.open THEN rec.segment + 1 ELSE rec.segment)
      /\ rec'.recording /\ rec'.open = rec.open
      /\ rec'.pendingEnd = rec.pendingEnd /\ rec'.epoch = rec.epoch /\ rec'.saveSeq = rec.saveSeq
      /\ rec'.fullSave = rec.fullSave /\ rec.segment \in Nat /\ rec.recording /\ ~rec.skipBegin
      /\ ~writer.error /\ (rec.gap \in BOOLEAN) /\ (rec.open \in BOOLEAN)
  <2>1. rec.recording /\ ~rec.skipBegin /\ ~writer.error
    BY DEF Works
  <2>2. rec.gap \in BOOLEAN /\ rec.open \in BOOLEAN /\ rec.segment \in Nat /\ host.input \in Nat
    BY DEF RecordingInv, ReplayTypes, Recorder, Host
  <2> QED BY <2>1, <2>2, FrameBeginIs
<1> PICK new \in BOOLEAN : GivenBatch(t, new)
  BY FrameBeginIs
<1>1. StreamInv /\ NumbersInv /\ TipInv
  BY <1>0 DEF RecordingInv
<1>2. ReplayTypes' /\ FilesInv' /\ PlayInv' /\ NextInput' = NextInput /\ NextInput = host.input + 1
  BY <1>0, FrameBeginTypes DEF NextInput
<1>3. Marks => rec.gap /\ rec.gapMarker /\ ~rec.open
  BY <1>0 DEF Marks, RecorderInv
<1>4. rec.open => ~rec.pendingEnd /\ HalfWay
  BY <1>0, <1>1 DEF TipInv, AwaitsEnd
<1>5. rec.open => last.op = "X" \/ IsPrint(last)
  BY <1>4 DEF HalfWay
<1>6. rec.open /\ ~Apart => IsPrint(last) /\ MachineOf(past, last) = host.at
  BY <1>4 DEF HalfWay, Apart
<1>7. /\ t \in Seq(Item) /\ n \in Nat /\ n >= 1 /\ t[n] = Given
      /\ new => /\ n >= 3 /\ t[n - 1] = Held(Kind(Apart))
                /\ t[n - 2].op = "begin" /\ t[n - 2].seg = rec.segment + 1
                /\ Marks \/ rec.open => n >= 4 /\ Starts(t[1])
                /\ \A k \in 1 .. n - 3 : \/ t[k].op = "remove"
                                         \/ k = 1 /\ Marks /\ t[k].op = "G"
                                         \/ k = 1 /\ rec.open /\ t[k].op = "end"
      /\ ~new => /\ rec.open /\ ~Marks
                 /\ IF Apart THEN n = 2 /\ t[1] = Held("R") ELSE n = 1
  BY DEF GivenBatch
<1>8. File' = File /\ L = (File \o queue) \o <<>> /\ M = (File \o queue) \o t
  BY <1>0 DEF File, Stream
<1>9. /\ Prefix(L, M) /\ Len(L) \in Nat /\ Len(M) = Len(L) + n
      /\ \A i \in Len(L) + 1 .. Len(M) : M[i] = t[i - Len(L)] /\ i - Len(L) \in 1 .. n
      /\ \A k \in 1 .. n : M[Len(L) + k] = t[k]
  <2>1. ReplayTypes /\ t \in Seq(Item) /\ L = (File \o queue) \o <<>> /\ M = (File \o queue) \o t
    BY <1>0, <1>7, <1>8
  <2> HIDE DEF L, M, t
  <2>2. Prefix(L, M) /\ Len(L) \in Nat
    BY ONLY <2>1, Appended
  <2>3. Len(M) = Len(L) + Len(t) /\ Len(t) \in Nat
    BY ONLY <2>1, Appended
  <2>4. \A i \in Len(L) + 1 .. Len(M) : M[i] = t[i - Len(L)]
    BY ONLY <2>1, Appended
  <2>5. \A k \in 1 .. Len(t) : M[Len(L) + k] = t[k]
    BY ONLY <2>1, Appended
  <2>6. \A i \in Len(L) + 1 .. Len(M) : i - Len(L) \in 1 .. Len(t)
    BY ONLY <2>2, <2>3
  <2> QED BY ONLY <2>2, <2>3, <2>4, <2>5, <2>6
<1>10. \A i \in 1 .. Len(L) : /\ L[i].op = "begin" => L[i].seg <= rec.segment /\ L[i].seg \in Nat \ {0}
                             /\ M[i] = L[i]
  <2> SUFFICES ASSUME NEW i \in 1 .. Len(L)
               PROVE  (L[i].op = "begin" => L[i].seg <= rec.segment
                        /\ L[i].seg \in Nat \ {0}) /\ M[i] = L[i]
    OBVIOUS
  <2>1. M[i] = L[i]
    BY <1>9 DEF Prefix
  <2>2. ASSUME L[i].op = "begin"
        PROVE  L[i].seg <= rec.segment /\ L[i].seg \in Nat \ {0}
    <3>1. L[i].seg \in Nat \ {0}
      BY <1>0, <2>2, StreamParts
    <3>2. ~(i <= Len(File))
      <4>1. Len(File) \in Nat
        BY <1>0, StreamIs
      <4>2. i <= Len(File) => i \in 1 .. Len(File)
        BY <1>9, <4>1
      <4>3. \A j \in 1 .. Len(File) : Stream[j].op # "begin"
        BY <1>0, StreamParts DEF Records
      <4> QED BY <2>2, <4>2, <4>3
    <3>3. /\ Len(File) \in Nat /\ Len(queue) \in Nat /\ Len(todo) = 0
          /\ Len(L) = Len(File) + Len(queue) + Len(todo)
          /\ \A j \in Len(File) + 1 .. Len(File) + Len(queue) : L[j] = queue[j - Len(File)]
      BY <1>0, StreamIs
    <3>4. i \in Len(File) + 1 .. Len(File) + Len(queue) /\ i - Len(File) \in 1 .. Len(queue)
      BY ONLY <1>9, <3>2, <3>3, i \in 1 .. Len(L)
    <3> QED BY <1>1, <2>2, <3>1, <3>3, <3>4 DEF NumbersInv
  <2> QED BY <2>1, <2>2
<1>11. ASSUME NEW k \in 1 .. n
       PROVE  /\ t[k].op \in {"remove", "G", "end", "begin", "snapshot", "I"}
              /\ t[k].op = "begin" => new /\ k = n - 2 /\ t[k].seg = rec.segment + 1
              /\ t[k].op = "snapshot" => k = n - 1
              /\ t[k].op = "I" => k = n
              /\ t[k].op = "G" => Marks
              /\ t[k].op = "end" => rec.open
              /\ Starts(t[k]) => new /\ k = 1
              /\ new /\ k < n - 2 => t[k].op = "remove" \/ Starts(t[k])
  <2> HIDE DEF n, t
  <2>1. CASE k = n
    <3>1. t[k].op = "I" /\ ~(k < n - 2)
      BY <1>7, <2>1 DEF Given
    <3> QED BY <2>1, <3>1 DEF Starts
  <2>2. CASE new /\ k = n - 1
    <3>1. t[k].op = "snapshot" /\ ~(k < n - 2)
      BY <1>7, <2>2 DEF Held
    <3> QED BY <2>2, <3>1 DEF Starts
  <2>3. CASE new /\ k = n - 2
    <3>1. t[k].op = "begin" /\ t[k].seg = rec.segment + 1 /\ ~(k < n - 2)
      BY <1>7, <2>3
    <3> QED BY <2>3, <3>1 DEF Starts
  <2>4. CASE new /\ k \in 1 .. n - 3
    BY <1>7, <2>4 DEF Starts
  <2>5. CASE ~new /\ k # n
    <3>1. t[1] = Held("R") /\ n = 2
      <4>1. ~Apart => n = 1
        BY <1>7, <2>5
      <4>2. n # 1
        BY ONLY <1>7, <2>5, <1>11
      <4> QED BY <1>7, <2>5, <4>1, <4>2
    <3>2. k = 1
      BY ONLY <1>11, <2>5, <3>1
    <3>3. t[k].op = "snapshot" /\ k = n - 1
      BY <3>1, <3>2 DEF Held
    <3> QED BY <2>5, <3>3 DEF Starts
  <2>6. k = n \/ k = n - 1 \/ k = n - 2 \/ k \in 1 .. n - 3
    <3>1. n \in Nat
      BY <1>7
    <3> QED BY ONLY <1>11, <3>1
  <2> QED BY ONLY <2>1, <2>2, <2>3, <2>4, <2>5, <2>6
<1>12. t # <<>> /\ Tip(t) = Given /\ 1 \in 1 .. n /\ n \in 1 .. n
  <2>1. 1 \in 1 .. n /\ n \in 1 .. n
    BY <1>7
  <2> QED BY <1>7, <2>1 DEF Tip, At
<1>13. Starts(t[1]) <=> (Marks \/ (rec.open /\ new))
  <2>1. Starts(t[1]) => t[1].op \in {"G", "end"}
    BY DEF Starts
  <2> QED BY <1>3, <1>7, <1>11, <1>12, <2>1
<1>14. rec'.segment = IF Starts(t[1]) \/ ~new THEN rec.segment ELSE rec.segment + 1
  BY <1>0, <1>7, <1>13
<1>15. RecorderInv'
  BY <1>0 DEF RecorderInv, Marks
<1>16. Batch'
  <2>1. \A k \in 1 .. n : t[k].op \notin {"X", "frame", "E"}
    BY <1>11
  <2>2. Tip(t).op = "I"
    BY <1>12 DEF Given
  <2>3. rec.gap /\ Marks => t[1].op = "G"
    <3>1. Starts(t[1]) => t[1].op \in {"G", "end"}
      BY DEF Starts
    <3>2. t[1].op = "end" => rec.open
      BY <1>11, <1>12
    <3>3. Marks => Starts(t[1]) /\ ~rec.open
      BY <1>3, <1>13
    <3> QED BY ONLY <3>1, <3>2, <3>3
  <2>4. t[1].op = "G" => ~rec.open
    BY <1>3, <1>11, <1>12
  <2>5. t[1].op = "end" => rec.open
    BY <1>11, <1>12
  <2> QED BY <1>0, <1>11, <2>1, <2>2, <2>3, <2>4, <2>5 DEF Batch
<1> SUFFICES StreamInv' /\ NumbersInv' /\ TipInv'
  BY <1>0, <1>2, <1>15, <1>16 DEF RecordingInv
<1>17. NumbersInv'
  <2>1. rec.segment <= rec'.segment /\ rec'.segment \in Nat /\ rec.segment \in Nat
    BY <1>0
  <2>2. /\ \A s \in DOMAIN disk \cup {writer.open} : s <= rec.segment /\ s \in Nat
        /\ \A i \in 1 .. Len(queue) : queue[i].op = "begin" => queue[i].seg <= rec.segment
                                                           /\ queue[i].seg \in Nat
    <3>1. \A i \in 1 .. Len(queue) : queue[i].op = "begin" => queue[i].seg \in Nat
      <4>1. queue \in Seq(Item)
        BY <1>0 DEF ReplayTypes
      <4>2. \A i \in 1 .. Len(queue) : queue[i] \in Item
        BY <4>1
      <4> QED BY <4>2, ItemIs
    <3> QED BY <1>0, <1>1, <3>1, StreamIs DEF NumbersInv
  <2>3. /\ \A s \in DOMAIN disk \cup {writer.open} : s <= rec'.segment
        /\ \A i \in 1 .. Len(queue) : queue[i].op = "begin" => queue[i].seg <= rec'.segment
    BY ONLY <2>1, <2>2
  <2>4. \A i \in 1 .. n : t[i].op = "begin" =>
           t[i].seg = IF Starts(t[1]) THEN rec'.segment + 1 ELSE rec'.segment
    BY <1>11, <1>14
  <2>5. ~rec.open /\ ~rec.gapMarker => Skipped(disk, queue, rec'.segment)
    <3> SUFFICES ASSUME ~rec.open, ~rec.gapMarker
                 PROVE  Skipped(disk, queue, rec'.segment)
      OBVIOUS
    <3>1. rec'.segment = rec.segment + 1
      BY <1>0, <1>3
    <3> QED BY <1>0, <2>2, <3>1 DEF Skipped
  <2> QED BY <1>0, <2>3, <2>4, <2>5 DEF NumbersInv
<1>18. At(M, Len(L)) = last /\ \A k \in 2 .. n : At(M, (Len(L) + k) - 1) = t[k - 1]
  <2>1. At(M, Len(L)) = last
    BY <1>9, LastOf
  <2>2. ASSUME NEW k \in 2 .. n
        PROVE  At(M, (Len(L) + k) - 1) = t[k - 1]
    <3>1. (Len(L) + k) - 1 \in 1 .. Len(M) /\ k - 1 \in 1 .. n /\ (Len(L) + k) - 1 = Len(L) + (k - 1)
      <4> HIDE DEF L, M, n
      <4> QED BY ONLY <1>7, <1>9, <2>2
    <3>2. M[Len(L) + (k - 1)] = t[k - 1]
      BY ONLY <1>9, <3>1
    <3> QED BY ONLY <3>1, <3>2 DEF At
  <2> QED BY <2>1, <2>2
<1>19. TipInv'
  <2>1. BeforeTip(M) = IF n >= 2 THEN t[n - 1] ELSE last
    <3>1. CASE n >= 2
      <4>1. n \in 2 .. n /\ Len(M) - 1 = (Len(L) + n) - 1
        BY <1>7, <1>9, <3>1
      <4> QED BY <1>18, <3>1, <4>1 DEF BeforeTip
    <3>2. CASE ~(n >= 2)
      <4>1. Len(M) - 1 = Len(L)
        BY <1>7, <1>9, <3>2
      <4> QED BY <1>18, <3>2, <4>1 DEF BeforeTip
    <3> QED BY <3>1, <3>2
  <2>2. IsMachine(BeforeTip(M)) /\ MachineOf(past, BeforeTip(M)) = host.at
        /\ (n <= 1 => IsPrint(BeforeTip(M)))
    <3>1. CASE n >= 2
      <4>1. \E kind : t[n - 1] = Held(kind)
        <5>1. ~new => n = 2 /\ t[1] = Held("R") /\ n - 1 = 1
          BY <1>7, <3>1
        <5> QED BY <1>7, <5>1
      <4>2. ~(n <= 1)
        BY <1>7, <3>1
      <4> QED BY <2>1, <3>1, <4>1, <4>2 DEF Held, IsMachine, MachineOf
    <3>2. CASE ~(n >= 2)
      <4>1. rec.open /\ ~Apart
        BY <1>7, <3>2
      <4> QED BY <1>6, <2>1, <3>2, <4>1 DEF IsMachine
    <3> QED BY <3>1, <3>2
  <2>3. \A k \in DOMAIN past : past[k].input < host.input + 1
    <3>1. \A k \in DOMAIN past : past[k].input \in Int /\ past[k].input <= host.input
      BY <1>0, PastIs DEF ReplayTypes, PastType
    <3> QED BY <1>0, <3>1
  <2>4. InputNext'
    <3>1. Tip(todo').input = host'.input /\ Tip(todo').frame = host'.at.frame
      BY <1>0, <1>12 DEF Given
    <3>2. Len(todo') = 1 => IsPrint(BeforeTip(Stream'))
      <4>1. n = 1 => n <= 1
        BY <1>7
      <4> QED BY <2>2, <4>1
    <3>3. MachineOf(past', BeforeTip(Stream')) = host'.at /\ IsMachine(BeforeTip(Stream'))
      BY <1>0, <2>2
    <3>4. \A k \in DOMAIN past' : past'[k].input < host'.input
      BY <1>0, <2>3
    <3>5. host'.pc = "run" /\ ~rec'.skipBegin /\ rec'.boundary = host'.at.frame
      BY <1>0
    <3> QED BY ONLY <3>1, <3>2, <3>3, <3>4, <3>5 DEF InputNext
  <2> QED BY <1>12, <2>4 DEF TipInv, Given
<1>20. Grammar(past, M)
  <2>1. ASSUME NEW i \in Len(L) + 1 .. Len(M)
        PROVE  Follows(past, At(M, i - 2), At(M, i - 1), M[i])
    <3> DEFINE k == i - Len(L)
               b == At(M, i - 1)
    <3>1. k \in 1 .. n /\ M[i] = t[k] /\ i = Len(L) + k /\ b = At(M, i - 1)
      BY <1>9, <2>1
    <3>2. /\ k = 1 => b = last
          /\ k # 1 => b = t[k - 1]
      <4>1. k = 1 => i - 1 = Len(L)
        BY <1>9, <3>1
      <4>2. k # 1 => k \in 2 .. n
        BY <1>7, <3>1
      <4> QED BY <1>18, <3>1, <4>1, <4>2
    <3> HIDE DEF k, b
    <3>3. CASE t[k].op \in {"remove", "G", "end", "begin"}
      BY <3>1, <3>3 DEF Follows, IsPrint
    <3>4. CASE t[k].op = "snapshot"
      <4>1. k = n - 1
        BY <1>11, <3>1, <3>4
      <4>2. CASE new
        <5>1. k # 1 /\ k - 1 = n - 2
          BY <1>7, <3>1, <4>1, <4>2
        <5>2. b.op = "begin"
          BY <1>7, <3>2, <4>2, <5>1
        <5> QED BY <3>1, <3>4, <5>2 DEF Follows, IsPrint, b
      <4>3. CASE ~new
        <5>1. n = 2 /\ k = 1 /\ t[1] = Held("R") /\ rec.open
          BY <1>7, <3>1, <4>1, <4>3
        <5>2. M[i] = Held("R") /\ b = last /\ (b.op = "X" \/ IsPrint(b))
          BY <1>5, <3>1, <3>2, <5>1
        <5> QED BY <3>1, <5>2 DEF Follows, IsPrint, b, Held
      <4> QED BY <4>2, <4>3
    <3>5. CASE t[k].op = "I"
      <4>1. k = n /\ M[i] = Given
        BY <1>7, <1>11, <3>1, <3>5
      <4>2. IsMachine(b) /\ MachineOf(past, b) = host.at
        <5>1. CASE k = 1
          <6>1. rec.open /\ ~Apart
            BY <1>7, <4>1, <5>1
          <6> QED BY <1>6, <3>2, <5>1, <6>1 DEF IsMachine
        <5>2. CASE k # 1
          <6>1. \E kind : t[n - 1] = Held(kind)
            <7>1. ~new => n = 2 /\ t[1] = Held("R") /\ n - 1 = 1
              BY <1>7, <4>1, <5>2
            <7> QED BY <1>7, <7>1
          <6>2. b = t[n - 1]
            BY <3>2, <4>1, <5>2
          <6> QED BY <6>1, <6>2 DEF Held, IsMachine, MachineOf
        <5> QED BY <5>1, <5>2
      <4> QED BY <3>1, <4>1, <4>2 DEF Follows, IsPrint, Given
    <3> QED BY <1>11, <3>1, <3>3, <3>4, <3>5
  <2> QED BY <1>1, <1>9, <2>1, ExtendedFollows DEF StreamInv
<1>21. ASSUME NEW i \in Len(L) + 1 .. Len(M)
       PROVE  Joined(past, disk, M, i)
  <2> SUFFICES ASSUME M[i].op = "begin", i < Len(M), GoesOn(M[i + 1])
               PROVE  \/ Skipped(disk, M, M[i].seg - 1)
                      \/ /\ \A j \in 1 .. i - 1 : OnlyRemoves(M, j, i) /\ M[j].op # "remove" =>
                               HandsOver(past, At(M, j - 1), M[j], M[i + 1].of)
                         /\ OnlyRemoves(M, 0, i) => OnDisk(past, disk, M[i].seg - 1, M[i + 1].of)
    BY DEF Joined
  <2>1. new /\ i = Len(L) + (n - 2) /\ n >= 3 /\ M[i].seg = rec.segment + 1
    <3>1. i - Len(L) \in 1 .. n /\ M[i] = t[i - Len(L)]
      BY <1>9, <1>21
    <3>2. new /\ i - Len(L) = n - 2 /\ M[i].seg = rec.segment + 1
      BY <1>11, <3>1
    <3>3. n >= 3
      BY <1>7, <3>2
    <3>4. i = Len(L) + (n - 2)
      <4> HIDE DEF L, M, n, t
      <4> QED BY ONLY <1>7, <1>9, <1>21, <3>2
    <3> QED BY ONLY <3>2, <3>3, <3>4
  <2>2. M[i + 1] = Held("C") /\ ~Apart
    <3>1. i + 1 = Len(L) + (n - 1) /\ n - 1 \in 1 .. n
      <4> HIDE DEF L, M, n, t
      <4> QED BY ONLY <1>7, <1>9, <2>1
    <3>2. M[i + 1] = Held(Kind(Apart))
      <4>1. t[n - 1] = Held(Kind(Apart))
        BY <1>7, <2>1
      <4>2. M[Len(L) + (n - 1)] = t[n - 1]
        BY <1>9, <3>1
      <4> HIDE DEF L, M, n, t
      <4> QED BY ONLY <3>1, <4>1, <4>2
    <3> QED BY <3>2 DEF Held, Kind, GoesOn
  <2>3. CASE ~Marks /\ ~rec.open
    <3>1. ~rec.gapMarker
      BY <1>0, <2>3 DEF Marks, RecorderInv
    <3>2. Skipped(disk, queue, rec.segment)
      BY <1>0, <1>1, <2>3, <3>1 DEF NumbersInv
    <3>3. ASSUME NEW k \in 1 .. Len(M), M[k].op = "begin"
          PROVE  M[k].seg # rec.segment
      <4>1. CASE k \in 1 .. Len(L)
        <5>1. L[k] = M[k]
          BY <1>10, <4>1
        <5>2. /\ Len(File) \in Nat /\ Len(queue) \in Nat /\ Len(todo) = 0
              /\ Len(L) = Len(File) + Len(queue) + Len(todo)
              /\ \A j \in Len(File) + 1 .. Len(File) + Len(queue) : L[j] = queue[j - Len(File)]
          BY <1>0, StreamIs
        <5>3. k \notin 1 .. Len(File)
          <6>1. \A j \in 1 .. Len(File) : Stream[j].op # "begin"
            BY <1>0, StreamParts DEF Records
          <6> QED BY <3>3, <5>1, <6>1
        <5>4. k \in Len(File) + 1 .. Len(File) + Len(queue) /\ k - Len(File) \in 1 .. Len(queue)
          BY ONLY <1>9, <4>1, <5>2, <5>3
        <5> QED BY <3>2, <3>3, <5>1, <5>2, <5>4 DEF Skipped
      <4>2. CASE k \in Len(L) + 1 .. Len(M)
        <5>1. k - Len(L) \in 1 .. n /\ M[k] = t[k - Len(L)]
          BY <1>9, <4>2
        <5>2. M[k].seg = rec.segment + 1
          BY <1>11, <3>3, <5>1
        <5> QED BY <1>0, <5>2
      <4> QED BY <1>9, <4>1, <4>2
    <3>4. M[i].seg - 1 = rec.segment
      BY <1>0, <2>1
    <3> QED BY <3>2, <3>3, <3>4 DEF Skipped
  <2>4. CASE Marks \/ rec.open
    <3>1. n >= 4 /\ Starts(t[1])
      BY <1>7, <2>1, <2>4
    <3> DEFINE e == Len(L) + 1
    <3>2. e \in 1 .. i - 1 /\ M[e] = t[1] /\ e - 1 = Len(L) /\ i \in Nat
      <4>1. M[Len(L) + 1] = t[1]
        BY <1>9, <1>12
      <4> HIDE DEF L, M, n, t
      <4>2. Len(L) + 1 \in 1 .. i - 1 /\ (Len(L) + 1) - 1 = Len(L) /\ i \in Nat
        BY ONLY <1>7, <1>9, <2>1, <3>1
      <4> QED BY <4>1, <4>2
    <3>3. M[e].op \in {"G", "end"}
      BY <3>1, <3>2 DEF Starts
    <3>4. ASSUME NEW j \in 0 .. i - 1, OnlyRemoves(M, j, i)
          PROVE  j >= e
      <4>1. ~(e \in j + 1 .. i - 1)
        BY <3>3, <3>4 DEF OnlyRemoves
      <4> HIDE DEF e, M, L
      <4> QED BY ONLY <3>2, <3>4, <4>1
    <3>5. ASSUME NEW j \in 1 .. i - 1, OnlyRemoves(M, j, i), M[j].op # "remove"
          PROVE  HandsOver(past, At(M, j - 1), M[j], M[i + 1].of)
      <4>1. j >= e
        <5>1. j \in 0 .. i - 1
          BY ONLY <3>2, <3>5
        <5> QED BY <3>4, <3>5, <5>1
      <4>2. /\ j \in Len(L) + 1 .. Len(M) /\ j - Len(L) \in 1 .. n /\ j - Len(L) < n - 2
            /\ j = Len(L) + (j - Len(L))
        <5>1. e = Len(L) + 1
          OBVIOUS
        <5> HIDE DEF L, M, n, t, e
        <5> QED BY ONLY <1>7, <1>9, <2>1, <3>1, <3>2, <3>5, <4>1, <5>1
      <4>3. M[j] = t[j - Len(L)]
        BY <1>9, <4>2
      <4>4. j - Len(L) = 1
        BY <1>11, <2>1, <3>5, <4>2, <4>3
      <4>5. j = e
        BY <4>2, <4>4
      <4>6. At(M, j - 1) = last
        BY <1>18, <3>2, <4>5
      <4>7. CASE M[j].op = "G"
        BY <4>7 DEF HandsOver
      <4>8. CASE M[j].op = "end"
        <5>1. rec.open
          BY <1>11, <4>2, <4>3, <4>8
        <5>2. IsPrint(last) /\ MachineOf(past, last) = host.at
          BY <1>6, <2>2, <5>1
        <5> QED BY <2>2, <4>6, <4>8, <5>2 DEF HandsOver, Held
      <4> QED BY <3>3, <4>5, <4>7, <4>8
    <3>6. ~OnlyRemoves(M, 0, i)
      <4>1. 0 \in 0 .. i - 1 /\ ~(0 >= e)
        BY ONLY <1>9, <3>2
      <4> QED BY <3>4, <4>1
    <3> QED BY <3>5, <3>6
  <2> QED BY <2>3, <2>4
<1>22. \A i \in 1 .. Len(M) : i \in 1 .. Len(L) \/ i \in Len(L) + 1 .. Len(M)
  <2> HIDE DEF L, M
  <2> QED BY ONLY <1>9
<1>23. \A i \in Len(L) + 1 .. Len(M) : /\ M[i].op \in {"remove", "G", "end", "begin", "snapshot", "I"}
                                      /\ M[i].op = "begin" =>
                                            i = Len(L) + (n - 2) /\ M[i].seg = rec.segment + 1
  <2> SUFFICES ASSUME NEW i \in Len(L) + 1 .. Len(M)
               PROVE  /\ M[i].op \in {"remove", "G", "end", "begin", "snapshot", "I"}
                      /\ M[i].op = "begin" => i = Len(L) + (n - 2) /\ M[i].seg = rec.segment + 1
    OBVIOUS
  <2>1. i - Len(L) \in 1 .. n /\ M[i] = t[i - Len(L)]
    BY <1>9
  <2>2. M[i].op = "begin" => i - Len(L) = n - 2 /\ M[i].seg = rec.segment + 1
    BY <1>11, <2>1
  <2>3. i - Len(L) = n - 2 => i = Len(L) + (n - 2)
    <3> HIDE DEF L, M, n, t
    <3> QED BY ONLY <1>7, <1>9, i \in Len(L) + 1 .. Len(M)
  <2> QED BY <1>11, <2>1, <2>2, <2>3
<1>a. \A i \in Len(L) + 1 .. Len(M) : M[i].op # "header" /\ ~IsPrint(M[i])
  <2> SUFFICES ASSUME NEW i \in Len(L) + 1 .. Len(M)
               PROVE  M[i].op # "header" /\ ~IsPrint(M[i])
    OBVIOUS
  <2>1. M[i].op \in {"remove", "G", "end", "begin", "snapshot", "I"}
    <3>1. i - Len(L) \in 1 .. n /\ M[i] = t[i - Len(L)]
      BY <1>9
    <3> QED BY <1>11, <3>1
  <2> HIDE DEF L, M
  <2> QED BY ONLY <2>1 DEF IsPrint
<1>24. ~(Len(L) < Len(M) /\ GoesOn(M[Len(L) + 1]))
  <2> SUFFICES ASSUME GoesOn(t[1])
               PROVE  FALSE
    BY <1>9, <1>12
  <2>1. t[1].op = "snapshot" /\ t[1].kind = "C" /\ 1 = n - 1
    BY <1>11, <1>12 DEF GoesOn
  <2>2. ~new /\ n = 2
    <3>1. n = 2
      BY ONLY <1>7, <2>1
    <3> QED BY <1>7, <3>1
  <2>3. t[1] = Held("R")
    <3>1. ~Apart => n = 1
      BY <1>7, <2>2
    <3>2. n # 1
      BY ONLY <2>2
    <3> QED BY <1>7, <2>2, <3>1, <3>2
  <2> QED BY <2>1, <2>3 DEF Held
<1>25. Joins(past, disk, M)
  <2>1. \A i \in Len(L) + 1 .. Len(M) : \A k \in 1 .. Len(L) :
           M[i].op = "begin" /\ L[k].op = "begin" => M[i].seg > L[k].seg
    BY <1>0, <1>10, <1>23
  <2>2. \A i \in 1 .. Len(M) : M[i].op = "begin" => M[i].seg \in Int
    BY <1>0, <1>10, <1>22, <1>23
  <2>3. Joins(past, disk, L) /\ Prefix(L, M)
    BY <1>1, <1>9 DEF StreamInv
  <2> HIDE DEF L, M
  <2> QED BY <1>21, <1>24, <2>1, <2>2, <2>3, ExtendedJoins
<1>26. Ascends(disk, writer.open, M)
  <2>1. Ascends(disk, writer.open, L)
    BY <1>1 DEF StreamInv
  <2>2. \A s \in DOMAIN disk \cup {writer.open} : s <= rec.segment /\ s \in Nat
    BY <1>0, <1>1, StreamIs DEF NumbersInv
  <2>3. ASSUME NEW i \in 1 .. Len(M), M[i].op = "begin"
        PROVE  M[i].seg > writer.open /\ \A s \in DOMAIN disk : s < M[i].seg
    <3>1. CASE i \in 1 .. Len(L)
      BY <1>10, <2>1, <2>3, <3>1 DEF Ascends
    <3>2. CASE i \in Len(L) + 1 .. Len(M)
      <4>1. M[i].seg = rec.segment + 1 /\ rec.segment \in Nat
        BY <1>0, <1>23, <2>3, <3>2
      <4> QED BY ONLY <2>2, <4>1, StreamIs, <1>0
    <3> QED BY <1>22, <3>1, <3>2
  <2>4. ASSUME NEW i \in 1 .. Len(M), NEW k \in 1 .. Len(M), i < k, M[i].op = "begin", M[k].op = "begin"
        PROVE  M[i].seg < M[k].seg
    <3>1. CASE k \in 1 .. Len(L)
      <4>1. i \in 1 .. Len(L)
        <5> HIDE DEF L, M
        <5> QED BY ONLY <1>9, <2>4, <3>1
      <4> QED BY <1>10, <2>1, <2>4, <3>1, <4>1 DEF Ascends
    <3>2. CASE k \in Len(L) + 1 .. Len(M)
      <4>1. k = Len(L) + (n - 2) /\ M[k].seg = rec.segment + 1
        BY <1>23, <2>4, <3>2
      <4>2. i \in 1 .. Len(L)
        <5>1. i \in Len(L) + 1 .. Len(M) => i = k
          BY <1>23, <2>4, <4>1
        <5> HIDE DEF L, M
        <5> QED BY ONLY <1>9, <1>22, <2>4, <5>1
      <4>3. M[i].seg <= rec.segment /\ M[i].seg \in Nat
        BY <1>10, <2>4, <4>2
      <4>4. rec.segment \in Nat
        BY <1>0
      <4> QED BY ONLY <4>1, <4>3, <4>4
    <3> QED BY <1>22, <3>1, <3>2
  <2>5. writer.open \in DOMAIN disk \/ \A i \in 1 .. Len(M) : M[i].op # "header"
    BY <1>10, <1>22, <1>a, <2>1 DEF Ascends
  <2>6. writer.open # 0 => \A s \in DOMAIN disk : s <= writer.open
    BY <2>1 DEF Ascends
  <2> HIDE DEF M
  <2> QED BY <2>3, <2>4, <2>5, <2>6 DEF Ascends
<1>27. JoinedFile(past, disk, M, writer.open)
  <2> SUFFICES ASSUME Len(M) > 1, M[1].op = "header", GoesOn(M[2])
               PROVE  OnDisk(past, disk, writer.open - 1, M[2].of)
    BY DEF JoinedFile
  <2>1. 1 \in 1 .. Len(M) /\ 2 \in 1 .. Len(M)
    BY <1>7, <1>9
  <2>2. 1 \in 1 .. Len(L)
    BY <1>22, <1>a, <2>1
  <2>3. 2 \in 1 .. Len(L)
    <3> SUFFICES ASSUME 2 \notin 1 .. Len(L)
                 PROVE  FALSE
      OBVIOUS
    <3>1. Len(L) + 1 = 2 /\ Len(L) < Len(M)
      <4> HIDE DEF L, M
      <4> QED BY ONLY <1>9, <2>1, <2>2, 2 \notin 1 .. Len(L)
    <3> QED BY <1>24, <3>1
  <2>4. JoinedFile(past, disk, L, writer.open) /\ Len(L) > 1 /\ M[1] = L[1] /\ M[2] = L[2]
    BY <1>1, <1>9, <1>10, <2>2, <2>3 DEF StreamInv
  <2> QED BY <2>4 DEF JoinedFile
<1>28. Before(past, M, NextInput)
  <2>1. Before(past, L, NextInput)
    BY <1>0, <1>1 DEF StreamInv
  <2> QED BY <1>10, <1>22, <1>a, <2>1 DEF Before
<1>29. StreamInv'
  BY <1>0, <1>1, <1>2, <1>8, <1>20, <1>25, <1>26, <1>27, <1>28 DEF StreamInv
<1> QED BY <1>17, <1>19, <1>29

LEMMA FrameBeginKept ==
    ASSUME RecordingInv, FrameBegin
    PROVE  RecordingInv'
BY FrameBeginIdle, FrameBeginWorks

-----------------------------------------------------------------------------
(* Playback: the files stay as they are.                                     *)

Segment == disk[play.seg]
LastRead == At(Segment, play.pos - 1)
ReadBefore == At(Segment, play.pos - 2)

LEMMA PlayingIs ==
    ASSUME RecordingInv, play.phase \in {"begin", "run", "end"}
    PROVE  /\ play \in Player /\ play.seg \in DOMAIN disk /\ play.pos \in Nat /\ play.pos >= 2
           /\ play.pos <= Len(Segment) + 1 /\ Segment \in Seq(Item) /\ Len(Segment) \in Nat
           /\ play.seg \in Nat /\ play.result # "diverged" /\ ~Recording
           /\ Segment[1].op = "header" /\ LastRead = Segment[play.pos - 1]
           /\ play.pos - 1 \in 1 .. Len(Segment)
           /\ LastRead \in Item /\ LastRead.op \in Records /\ Grammar(past, Segment)
           /\ play.phase = "begin" => Beginning(Segment, LastRead)
           /\ play.phase # "begin" =>
                /\ LastRead.op = "I" /\ ~play.first /\ play.kind = "none"
                /\ play.input = LastRead.input
                /\ play.phase = "run" => play.at = MachineOf(past, ReadBefore)
                /\ play.phase = "end" => play.at = Ran(MachineOf(past, ReadBefore), LastRead.input)
<1>1. ReplayTypes /\ FilesInv /\ PlayInv /\ play.phase # "no" /\ play.phase # "done"
  BY DEF RecordingInv
<1>2. play \in Player /\ play.seg \in Nat /\ play.pos \in Nat /\ ~Recording
  BY <1>1 DEF ReplayTypes, Player
<1>3. /\ play.result # "diverged" /\ play.seg \in DOMAIN disk /\ Segment[1].op = "header"
      /\ play.pos \in 2 .. Len(Segment) + 1
      /\ play.phase = "begin" => Beginning(Segment, LastRead)
      /\ play.phase # "begin" =>
           /\ LastRead.op = "I" /\ ~play.first /\ play.kind = "none"
           /\ play.input = LastRead.input
           /\ play.phase = "run" => play.at = MachineOf(past, ReadBefore)
           /\ play.phase = "end" => play.at = Ran(MachineOf(past, ReadBefore), LastRead.input)
  BY <1>1 DEF PlayInv, Segment, LastRead, ReadBefore
<1>4. Segment \in Seq(Item) /\ Len(Segment) \in Nat /\ Grammar(past, Segment)
      /\ \A i \in 1 .. Len(Segment) : Segment[i].op \in Records
  <2>1. Segment \in Seq(Item)
    BY <1>1, <1>3 DEF ReplayTypes, DiskType, Segment
  <2> QED BY <1>1, <1>3, <2>1 DEF FilesInv, Segment
<1> DEFINE R == Segment
           k == play.pos - 1
<1>5. /\ play.pos \in Nat /\ play.pos >= 2 /\ play.pos <= Len(R) + 1 /\ k \in 1 .. Len(R)
  <2> HIDE DEF R
  <2>1. Len(R) \in Nat /\ play.pos \in 2 .. Len(R) + 1
    BY <1>3, <1>4 DEF R
  <2> QED BY ONLY <1>2, <2>1
<1>6. LastRead = R[k]
  BY <1>5 DEF LastRead, At
<1>7. LastRead \in Item /\ LastRead.op \in Records
  <2> HIDE DEF k
  <2> QED BY <1>4, <1>5, <1>6
<1> QED BY <1>2, <1>3, <1>4, <1>5, <1>6, <1>7

LEMMA RecordIs ==
    ASSUME RecordingInv, play.phase \in {"begin", "run", "end"}, ~AtEof
    PROVE  /\ play.pos \in 1 .. Len(Segment) /\ Record = Segment[play.pos]
           /\ play.pos + 1 \in 2 .. Len(Segment) + 1 /\ play.pos + 1 \in Nat
           /\ Record \in Item /\ Record.op \in Records
           /\ Follows(past, ReadBefore, LastRead, Record)
           /\ At(Segment, (play.pos + 1) - 1) = Record /\ At(Segment, (play.pos + 1) - 2) = LastRead
<1>1. /\ play.pos \in Nat /\ play.pos >= 2 /\ Len(Segment) \in Nat /\ Segment \in Seq(Item)
      /\ Grammar(past, Segment) /\ play.seg \in DOMAIN disk
  BY PlayingIs
<1>2. /\ play.pos \in 1 .. Len(Segment) /\ play.pos + 1 \in 2 .. Len(Segment) + 1
           /\ play.pos + 1 \in Nat
      /\ (play.pos + 1) - 1 = play.pos /\ (play.pos + 1) - 2 = play.pos - 1
  BY <1>1 DEF AtEof, Segment
<1>3. Record = Segment[play.pos]
  BY DEF Record, Segment
<1>4. Record \in Item
  BY <1>1, <1>2, <1>3
<1>5. Record.op \in Records
  <2>1. FilesInv
    BY DEF RecordingInv
  <2> QED BY <1>1, <1>2, <1>3, <2>1 DEF FilesInv, Segment
<1>6. Follows(past, ReadBefore, LastRead, Record)
  BY <1>1, <1>2, <1>3 DEF Grammar, ReadBefore, LastRead
<1>7. At(Segment, play.pos) = Record
  BY <1>2, <1>3 DEF At
<1> QED BY <1>2, <1>3, <1>4, <1>5, <1>6, <1>7 DEF LastRead

LEMMA PlayKeeps ==
    ASSUME RecordingInv, play.phase \in {"begin", "run", "end"}, play' \in Player, PlayInv',
           UNCHANGED <<host, past, rec, todo, queue, writer, disk>>
    PROVE  RecordingInv'
<1>1. ReplayTypes /\ FilesInv /\ ~Recording /\ ~Recording' /\ play.phase # "no"
  BY PlayingIs DEF RecordingInv, Recording
<1>2. ReplayTypes'
  <2>1. PastType' /\ DiskType'
    BY <1>1 DEF ReplayTypes, PastType, DiskType
  <2> QED BY <1>1, <2>1 DEF ReplayTypes
<1>3. FilesInv'
  BY <1>1 DEF FilesInv
<1>4. ~writer'.error => StreamInv'
  <2>1. Stream' = Stream /\ File' = File
    BY DEF Stream, File
  <2> QED BY <1>1, <2>1 DEF RecordingInv, StreamInv
<1> QED BY <1>1, <1>2, <1>3, <1>4 DEF RecordingInv

LEMMA EndedKept ==
    ASSUME RecordingInv, play.phase \in {"begin", "run", "end"}, NEW result, Ends(result),
           result \in {"matched", "ended", "incomplete", "cut"},
           UNCHANGED <<host, past, rec, todo, queue, writer, disk>>
    PROVE  RecordingInv'
<1>1. play \in Player
  BY PlayingIs
<1>2. play' = [play EXCEPT !.phase = "done", !.result = result]
  BY DEF Ends
<1>3. play' \in Player /\ play'.phase = "done" /\ play'.result = result
  BY ONLY <1>1, <1>2, result \in {"matched", "ended", "incomplete", "cut"} DEF Player
<1>4. PlayInv'
  BY <1>3 DEF PlayInv
<1> QED BY <1>3, <1>4, PlayKeeps

(* A record is read. *)
LEMMA ReadKept ==
    ASSUME RecordingInv, play.phase \in {"begin", "run", "end"}, ~AtEof, play' \in Player,
           play'.phase = "begin", play'.seg = play.seg, play'.pos = play.pos + 1,
           play'.result = play.result, Record.op \in {"snapshot", "H", "G", "X"},
           Record.op = "snapshot" =>
              /\ play'.kind = Record.kind /\ play'.check = Record.of
              /\ Record.kind = "C" => play'.resync \/ play'.at = Record.of,
           Record.op = "H" =>
              play'.kind = "none" /\ ~play'.first /\ play'.at = past[Record.id].to,
           Record.op = "G" => play'.resync,
           UNCHANGED <<host, past, rec, todo, queue, writer, disk>>
    PROVE  RecordingInv'
<1>1. /\ play.seg \in DOMAIN disk /\ Segment[1].op = "header" /\ play.result # "diverged"
  BY PlayingIs
<1>2. play.pos + 1 \in 2 .. Len(Segment) + 1 /\ At(Segment, (play.pos + 1) - 1) = Record
  BY RecordIs
<1>3. Segment' = Segment /\ LastRead' = Record
  BY <1>2 DEF Segment, LastRead
<1>4. Beginning(Segment, LastRead)'
  <2>1. Record.op = "header" => FALSE
    OBVIOUS
  <2>2. IsPrint(Record) => Record.op = "H" /\ MachineOf(past, Record) = past[Record.id].to
    BY DEF IsPrint, MachineOf, PrintOf
  <2> QED BY <1>3, <2>1, <2>2 DEF Beginning, IsPrint, MachineOf, PrintOf
<1>5. PlayInv'
  <2>1. /\ play'.result # "diverged" /\ play'.seg \in DOMAIN disk' /\ Segment'[1].op = "header"
        /\ play'.pos \in 2 .. Len(Segment') + 1 /\ Beginning(Segment, LastRead)'
    BY <1>1, <1>2, <1>3, <1>4
  <2> QED BY <2>1 DEF PlayInv, Segment, LastRead
<1> QED BY <1>5, PlayKeeps

LEMMA StartPlaybackKept ==
    ASSUME RecordingInv, StartPlayback
    PROVE  RecordingInv'
<1>0. ReplayTypes /\ FilesInv /\ ~Recording /\ ~Recording' /\ todo = <<>>
  BY DEF RecordingInv, StartPlayback, Over, ReplayTypes, Recording
<1>1. UNCHANGED <<host, past, rec, todo, disk>> /\ queue' = <<>>
      /\ writer' = [open |-> 0, save |-> -1, error |-> FALSE]
  BY DEF StartPlayback
<1>2. PICK s \in DOMAIN disk :
        play' = [phase |-> IF disk[s] = <<>> THEN "done" ELSE "begin",
                 result |-> IF disk[s] = <<>> THEN "cut" ELSE "none",
                 seg |-> s, pos |-> 2, at |-> Lost, input |-> 0, first |-> TRUE,
                 resync |-> TRUE, kind |-> "none", check |-> Lost]
  BY DEF StartPlayback
<1>3. s \in Nat /\ disk[s] \in Seq(Item) /\ Lost \in Machine
  BY <1>0 DEF ReplayTypes, DiskType, Lost, Machine
<1>4. play' \in Player
  BY <1>2, <1>3 DEF Player
<1>5. ReplayTypes'
  <2>1. PastType' /\ DiskType'
    BY <1>0, <1>1 DEF ReplayTypes, PastType, DiskType
  <2>2. <<>> \in Seq(Item) /\ Len(<<>>) = 0
    OBVIOUS
  <2> QED BY <1>0, <1>1, <1>4, <2>1, <2>2 DEF ReplayTypes
<1>6. FilesInv'
  BY <1>0, <1>1 DEF FilesInv
<1>7. PlayInv'
  <2>1. CASE disk[s] = <<>>
    BY <1>2, <2>1 DEF PlayInv
  <2>2. CASE disk[s] # <<>>
    <3>1. /\ play'.result = "none" /\ play'.phase = "begin" /\ play'.seg = s /\ play'.pos = 2
          /\ play'.resync
      BY <1>2, <2>2
    <3>2. disk[s][1].op = "header" /\ Len(disk[s]) \in Nat /\ Len(disk[s]) >= 1
      BY <1>0, <1>3, <2>2 DEF FilesInv
    <3>3. Segment' = disk[s] /\ LastRead' = disk[s][1] /\ 2 \in 2 .. Len(disk[s]) + 1
      <4>1. 1 \in 1 .. Len(disk[s]) /\ 2 - 1 = 1 /\ 2 \in 2 .. Len(disk[s]) + 1
        BY ONLY <3>2
      <4> QED BY <1>1, <3>1, <4>1 DEF Segment, LastRead, At
    <3>4. Beginning(Segment, LastRead)'
      BY <3>1, <3>2, <3>3 DEF Beginning, AtHead, IsPrint
    <3>5. /\ play'.result # "diverged" /\ play'.seg \in DOMAIN disk' /\ Segment'[1].op = "header"
          /\ play'.pos \in 2 .. Len(Segment') + 1 /\ play'.phase = "begin"
      BY <1>1, <3>1, <3>2, <3>3
    <3> QED BY <3>4, <3>5 DEF PlayInv, Segment, LastRead
  <2> QED BY <2>1, <2>2
<1>8. StreamInv'
  <2>1. 0 \notin DOMAIN disk' /\ writer'.open = 0
    BY <1>0, <1>1 DEF ReplayTypes, DiskType
  <2>2. File' = <<>> /\ Stream' = <<>> /\ Len(<<>>) = 0
    <3>1. File' = <<>>
      BY <2>1 DEF File
    <3> QED BY <1>0, <1>1, <3>1 DEF Stream
  <2>3. At(<<>>, 0).op = "none"
    BY NoneIs DEF At
  <2>4. Tip(<<>>).op = "none"
    BY <2>2, <2>3 DEF Tip
  <2> QED BY <1>0, <2>1, <2>2, <2>4 DEF StreamInv, Grammar, Joins, JoinedFile, Ascends, HoldsSave
<1> QED BY <1>0, <1>5, <1>6, <1>7, <1>8 DEF RecordingInv

(* The next segment begins with the machine that playback holds, or with one
   that it loads. *)
LEMMA PlayNextSegmentKept ==
    ASSUME RecordingInv, PlayNextSegment
    PROVE  RecordingInv'
<1> DEFINE n == play.seg + 1
           R == disk[n]
<1>0. /\ play.phase = "begin" /\ AtEof /\ UNCHANGED <<host, past, rec, todo, queue, writer, disk>>
      /\ \/ n \notin DOMAIN disk /\ Ends("matched")
         \/ n \in DOMAIN disk /\ R = <<>> /\ Ends("cut")
         \/ n \in DOMAIN disk /\ R # <<>> /\ play' = [play EXCEPT !.seg = n, !.pos = 2]
  <2>1. /\ play.phase = "begin" /\ AtEof /\ UNCHANGED <<host, past, rec, todo, queue, writer, disk>>
        /\ CASE n \notin DOMAIN disk -> Ends("matched")
             [] n \in DOMAIN disk /\ R = <<>> -> Ends("cut")
             [] OTHER -> play' = [play EXCEPT !.seg = @ + 1, !.pos = 2]
    BY DEF PlayNextSegment, Playing
  <2>2. play \in Player
    BY <2>1, PlayingIs
  <2>3. play' = [play EXCEPT !.seg = @ + 1, !.pos = 2] => play' = [play EXCEPT !.seg = n, !.pos = 2]
    BY <2>2 DEF Player
  <2> HIDE DEF n
  <2> QED BY <2>1, <2>3
<1>1. CASE n \notin DOMAIN disk
  BY <1>0, <1>1, EndedKept
<1>2. CASE n \in DOMAIN disk /\ R = <<>>
  BY <1>0, <1>2, EndedKept
<1>3. CASE n \in DOMAIN disk /\ R # <<>>
  <2>0. FilesInv /\ ReplayTypes
    BY DEF RecordingInv
  <2>1. /\ play \in Player /\ play.seg \in DOMAIN disk /\ play.pos \in Nat /\ play.seg \in Nat
        /\ play.pos <= Len(Segment) + 1 /\ Len(Segment) \in Nat /\ Beginning(Segment, LastRead)
        /\ LastRead = Segment[play.pos - 1] /\ play.result # "diverged" /\ n - 1 = play.seg
    BY <1>0, PlayingIs
  <2>2. LastRead = Segment[Len(Segment)]
    <3>1. play.pos - 1 = Len(Segment)
      BY <1>0, <2>1 DEF AtEof, Segment
    <3> QED BY <2>1, <3>1
  <2>3. /\ R \in Seq(Item) /\ Len(R) \in Nat /\ Len(R) >= 1 /\ R[1].op = "header"
        /\ JoinedFile(past, disk, R, n)
    <3>1. R \in Seq(Item)
      BY <1>3, <2>0 DEF ReplayTypes, DiskType
    <3> QED BY <1>3, <2>0, <3>1 DEF FilesInv
  <2>4. /\ play' \in Player /\ play'.seg = n /\ play'.pos = 2 /\ play'.phase = "begin"
        /\ play'.result = play.result /\ play'.resync = play.resync /\ play'.at = play.at
    <3>1. n \in Nat /\ 2 \in Nat /\ play' = [play EXCEPT !.seg = n, !.pos = 2]
      BY <1>0, <1>3, <2>1
    <3> HIDE DEF n
    <3> QED BY ONLY <1>0, <2>1, <3>1 DEF Player
  <2>5. Len(R) > 1 /\ GoesOn(R[2]) => play.resync \/ play.at = R[2].of
    <3> SUFFICES ASSUME Len(R) > 1, GoesOn(R[2]), ~play.resync
                 PROVE  play.at = R[2].of
      OBVIOUS
    <3>1. Hands(past, Segment, R[2].of)
      BY <2>1, <2>3 DEF JoinedFile, OnDisk, Segment
    <3>2. LastRead.op # "G"
      BY <2>1 DEF Beginning
    <3>3. IsPrint(LastRead) /\ MachineOf(past, LastRead) = R[2].of
      BY <2>2, <3>1, <3>2 DEF Hands
    <3> QED BY <2>1, <3>3 DEF Beginning
  <2>6. Segment' = R /\ LastRead' = R[1] /\ 2 \in 2 .. Len(R) + 1
    <3>1. 1 \in 1 .. Len(R) /\ 2 - 1 = 1 /\ 2 \in 2 .. Len(R) + 1
      BY ONLY <2>3
    <3> QED BY <1>0, <2>4, <3>1 DEF Segment, LastRead, At
  <2>7. Beginning(Segment, LastRead)'
    BY <2>3, <2>4, <2>5, <2>6 DEF Beginning, AtHead, IsPrint
  <2>8. /\ play'.result # "diverged" /\ play'.seg \in DOMAIN disk' /\ Segment'[1].op = "header"
        /\ play'.pos \in 2 .. Len(Segment') + 1 /\ play'.phase = "begin"
    BY <1>0, <1>3, <2>1, <2>3, <2>4, <2>6
  <2>9. PlayInv'
    BY <2>7, <2>8 DEF PlayInv, Segment, LastRead
  <2> QED BY <1>0, <2>4, <2>9, PlayKeeps
<1> QED BY <1>1, <1>2, <1>3

LEMMA PlayResyncsKept ==
    ASSUME RecordingInv, PlayGap \/ PlayEndGap
    PROVE  RecordingInv'
<1>1. /\ play.phase \in {"begin", "end"} /\ ~AtEof /\ Record.op = "G"
      /\ UNCHANGED <<host, past, rec, todo, queue, writer, disk>>
      /\ play' = [play EXCEPT !.phase = "begin", !.pos = @ + 1, !.resync = TRUE]
  BY DEF PlayGap, PlayEndGap, Playing, Read, Resyncs
<1>2. play \in Player /\ play.pos + 1 \in Nat
  BY <1>1, PlayingIs
<1>3. play' = [play EXCEPT !.phase = "begin", !.pos = play.pos + 1, !.resync = TRUE]
  BY <1>1, <1>2 DEF Player
<1>4. /\ play' \in Player /\ play'.phase = "begin" /\ play'.seg = play.seg /\ play'.pos = play.pos + 1
      /\ play'.result = play.result /\ play'.resync
  BY ONLY <1>2, <1>3 DEF Player
<1> QED BY <1>1, <1>4, ReadKept

LEMMA PlayExitKept ==
    ASSUME RecordingInv, PlayExit \/ PlayEndExit
    PROVE  RecordingInv'
<1>1. /\ play.phase \in {"begin", "end"} /\ Ends("ended")
      /\ UNCHANGED <<host, past, rec, todo, queue, writer, disk>>
  BY DEF PlayExit, PlayEndExit, Playing
<1> QED BY <1>1, EndedKept

(* A checkpoint of a session that went on is the first record of its file. *)
LEMMA PlayCheckpointKept ==
    ASSUME RecordingInv, PlayCheckpoint
    PROVE  RecordingInv'
<1>1. /\ play.phase = "begin" /\ ~AtEof /\ Record.op = "snapshot"
      /\ UNCHANGED <<host, past, rec, todo, queue, writer, disk>>
      /\ play' = [play EXCEPT !.kind = Record.kind, !.check = Record.of, !.pos = @ + 1]
  BY DEF PlayCheckpoint, Playing, Read
<1>2. play \in Player /\ play.pos + 1 \in Nat /\ play.pos \in Nat /\ play.pos >= 2
      /\ Beginning(Segment, LastRead) /\ LastRead.op \in Records /\ Grammar(past, Segment)
      /\ LastRead = Segment[play.pos - 1] /\ play.pos - 1 \in 1 .. Len(Segment)
      /\ Len(Segment) \in Nat
  BY <1>1, PlayingIs
<1>3. /\ Record \in Item /\ Follows(past, ReadBefore, LastRead, Record) /\ Record = Segment[play.pos]
      /\ play.pos \in 1 .. Len(Segment)
  BY <1>1, RecordIs
<1>4. Record.kind \in {"C", "R"} /\ Record.of \in Machine
  BY <1>1, <1>3, ItemIs
<1> DEFINE kind == Record.kind
           of == Record.of
<1>5. play' = [play EXCEPT !.kind = kind, !.check = of, !.pos = play.pos + 1]
      /\ kind \in {"none", "C", "R"} /\ of \in Machine
  BY <1>1, <1>2, <1>4 DEF Player
<1> HIDE DEF kind, of
<1>6. /\ play' \in Player /\ play'.phase = play.phase /\ play'.seg = play.seg
      /\ play'.pos = play.pos + 1 /\ play'.result = play.result /\ play'.kind = kind
      /\ play'.check = of /\ play'.resync = play.resync /\ play'.at = play.at
  BY ONLY <1>2, <1>5 DEF Player
<1>7. Record.kind = "C" => play.resync \/ play.at = Record.of
  <2> SUFFICES ASSUME Record.kind = "C"
               PROVE  play.resync \/ play.at = Record.of
    OBVIOUS
  <2>1. LastRead.op = "header"
    BY <1>1, <1>2, <1>3 DEF Follows, Records
  <2>2. play.pos = 2
    <3>1. Follows(past, At(Segment, (play.pos - 1) - 2), At(Segment, (play.pos - 1) - 1), LastRead)
      BY <1>2 DEF Grammar
    <3>2. At(Segment, (play.pos - 1) - 1).op = "none"
      BY <2>1, <3>1 DEF Follows
    <3>3. (play.pos - 1) - 1 \notin 1 .. Len(Segment)
      <4>1. \A i \in 1 .. Len(Segment) : Segment[i].op \in Records
        <5>1. FilesInv /\ play.seg \in DOMAIN disk
          BY <1>1, PlayingIs DEF RecordingInv
        <5> QED BY <5>1 DEF FilesInv, Segment
      <4> QED BY <3>2, <4>1 DEF At, Records
    <3> QED BY ONLY <1>2, <1>3, <3>3
  <2>3. Len(Segment) > 1 /\ GoesOn(Segment[2])
    <3>1. Len(Segment) > 1
      BY ONLY <1>2, <1>3, <2>2
    <3> QED BY <1>1, <1>3, <2>2, <3>1 DEF GoesOn
  <2> QED BY <1>2, <1>3, <2>1, <2>2, <2>3 DEF Beginning, AtHead
<1> QED BY <1>1, <1>6, <1>7, ReadKept DEF kind, of

(* The machine that is given an input is the one the session gave it to. *)
LEMMA PlayInputKept ==
    ASSUME RecordingInv, PlayInput
    PROVE  RecordingInv'
<1> DEFINE m == IF Loads THEN play.check ELSE play.at
           x == Record
<1>1. /\ play.phase = "begin" /\ ~AtEof /\ Record.op = "I"
      /\ UNCHANGED <<host, past, rec, todo, queue, writer, disk>>
      /\ IF (play.kind = "none" /\ play.first) \/ m.frame # Record.frame
         THEN Ends("diverged")
         ELSE play' = [play EXCEPT !.at = m, !.kind = "none", !.first = FALSE,
                                   !.resync = @ /\ play.kind = "none",
                                   !.input = Record.input, !.phase = "run", !.pos = @ + 1]
  BY DEF PlayInput, Playing, Read
<1>2. /\ play \in Player /\ Beginning(Segment, LastRead) /\ LastRead \in Item
           /\ play.seg \in DOMAIN disk
      /\ Segment[1].op = "header" /\ play.result # "diverged" /\ play.at \in Machine
           /\ play.check \in Machine
      /\ play.resync \in BOOLEAN
  <2>1. play \in Player
    BY <1>1, PlayingIs
  <2>2. play.at \in Machine /\ play.check \in Machine /\ play.resync \in BOOLEAN
    BY <2>1 DEF Player
  <2> QED BY <1>1, <2>2, PlayingIs
<1>3. /\ Record \in Item /\ Follows(past, ReadBefore, LastRead, Record) /\ Record.input \in Int
      /\ play.pos + 1 \in 2 .. Len(Segment) + 1 /\ play.pos + 1 \in Nat
      /\ At(Segment, (play.pos + 1) - 1) = Record /\ At(Segment, (play.pos + 1) - 2) = LastRead
  BY <1>1, RecordIs, ItemIs
<1>4. IsMachine(LastRead) /\ Record.frame = MachineOf(past, LastRead).frame
  BY <1>1, <1>3 DEF Follows
<1>5. m = MachineOf(past, LastRead) /\ ~(play.kind = "none" /\ play.first)
  <2>1. CASE IsPrint(LastRead)
    <3>1. play.kind = "none" /\ ~play.first /\ play.at = MachineOf(past, LastRead)
      BY <1>2, <2>1 DEF Beginning
    <3> QED BY <3>1 DEF Loads
  <2>2. CASE LastRead.op = "snapshot"
    <3>1. /\ play.kind = LastRead.kind /\ play.check = LastRead.of /\ LastRead.kind \in {"C", "R"}
          /\ LastRead.kind = "C" => play.resync \/ play.at = LastRead.of
      BY <1>2, <2>2, ItemIs DEF Beginning
    <3> QED BY <2>2, <3>1 DEF Loads, MachineOf
  <2> QED BY <1>4, <2>1, <2>2 DEF IsMachine
<1> HIDE DEF m
<1>6. m \in Machine
  BY <1>2 DEF m
<1> DEFINE input == Record.input
           resync == play.resync /\ play.kind = "none"
<1>7. play' = [play EXCEPT !.at = m, !.kind = "none", !.first = FALSE, !.resync = resync,
                           !.input = input, !.phase = "run", !.pos = play.pos + 1]
      /\ resync \in BOOLEAN /\ input \in Int
  <2>1. m.frame = Record.frame
    BY <1>4, <1>5
  <2> QED BY <1>1, <1>2, <1>3, <1>5, <2>1 DEF Player
<1> HIDE DEF input, resync
<1>8. /\ play' \in Player /\ play'.phase = "run" /\ play'.seg = play.seg
      /\ play'.pos = play.pos + 1 /\ play'.result = play.result /\ play'.kind = "none"
      /\ ~play'.first /\ play'.at = m /\ play'.input = input
  <2>1. play.pos + 1 \in Nat /\ FALSE \in BOOLEAN
    BY <1>3
  <2> QED BY ONLY <1>2, <1>6, <1>7, <2>1 DEF Player
<1>9. Segment' = Segment /\ LastRead' = Record /\ ReadBefore' = LastRead
  <2>1. Segment' = Segment
    BY <1>1, <1>8 DEF Segment
  <2> QED BY <1>3, <1>8, <2>1 DEF LastRead, ReadBefore
<1>10. PlayInv'
  <2>1. /\ play'.result # "diverged" /\ play'.seg \in DOMAIN disk' /\ Segment'[1].op = "header"
        /\ play'.pos \in 2 .. Len(Segment') + 1 /\ play'.phase = "run"
    BY <1>1, <1>2, <1>3, <1>8, <1>9
  <2>2. /\ LastRead'.op = "I" /\ ~play'.first /\ play'.kind = "none"
        /\ play'.input = LastRead'.input
        /\ play'.at = MachineOf(past', ReadBefore')
    BY <1>1, <1>5, <1>8, <1>9 DEF input
  <2> QED BY <2>1, <2>2 DEF PlayInv, Segment, LastRead, ReadBefore
<1> QED BY <1>1, <1>8, <1>10, PlayKeeps

(* A fingerprint or a crossed-out frame stands only after an input. *)
LEMMA NothingUnexpected ==
    ASSUME RecordingInv, PlayUnexpected \/ PlayEndUnexpected
    PROVE  FALSE
<1>1. /\ play.phase \in {"begin", "end"} /\ ~AtEof
      /\ play.phase = "begin" => Record.op \in {"X", "H"}
      /\ play.phase = "end" => Record.op \in {"I", "snapshot"}
  BY DEF PlayUnexpected, PlayEndUnexpected, Playing, Read
<1>2. Follows(past, ReadBefore, LastRead, Record)
  BY <1>1, RecordIs
<1>3. CASE play.phase = "begin"
  <2>1. LastRead.op = "I"
    BY <1>1, <1>2, <1>3 DEF Follows, IsPrint, Printed
  <2>2. Beginning(Segment, LastRead)
    BY <1>3, PlayingIs
  <2> QED BY <1>1, <2>1, <2>2 DEF Beginning
<1>4. CASE play.phase = "end"
  <2>1. LastRead.op = "I"
    BY <1>4, PlayingIs
  <2> QED BY <1>1, <1>2, <1>4, <2>1 DEF Follows, IsMachine, IsPrint
<1> QED BY <1>1, <1>3, <1>4

LEMMA RanIs ==
    ASSUME ReplayTypes, NEW m, NEW input
    PROVE  /\ \A k \in DOMAIN past : past[k].from = m.id /\ past[k].input = input /\ Once(past, k) =>
                 Ran(m, input) = past[k].to
           /\ Ran(m, input) \in Machine
<1> DEFINE made == {k \in DOMAIN past : past[k].from = m.id /\ past[k].input = input}
<1>1. Ran(m, input) = IF made = {} THEN Lost ELSE past[CHOOSE k \in made : TRUE].to
  BY DEF Ran
<1>2. ASSUME NEW k \in DOMAIN past, past[k].from = m.id, past[k].input = input, Once(past, k)
      PROVE  Ran(m, input) = past[k].to
  <2>1. made = {k}
    BY <1>2 DEF Once
  <2>2. (CHOOSE j \in made : TRUE) = k
    BY <2>1
  <2> QED BY <1>1, <2>1, <2>2
<1>3. Ran(m, input) \in Machine
  <2>1. CASE made = {}
    BY <1>1, <2>1 DEF Lost, Machine
  <2>2. CASE made # {}
    <3>1. (CHOOSE j \in made : TRUE) \in made
      BY <2>2
    <3>2. (CHOOSE j \in made : TRUE) \in DOMAIN past
      BY <3>1
    <3> HIDE DEF made
    <3> QED BY <1>1, <2>2, <3>2, PastIs
  <2> QED BY <2>1, <2>2
<1> QED BY <1>2, <1>3

LEMMA PlayRunKept ==
    ASSUME RecordingInv, PlayRun
    PROVE  RecordingInv'
<1> DEFINE m == Ran(play.at, play.input)
<1>1. /\ play.phase = "run" /\ UNCHANGED <<host, past, rec, todo, queue, writer, disk>>
      /\ play' = [play EXCEPT !.at = m, !.phase = "end"]
  BY DEF PlayRun, Playing
<1>2. /\ play \in Player /\ play.seg \in DOMAIN disk /\ play.pos \in 2 .. Len(Segment) + 1
      /\ Segment[1].op = "header" /\ play.result # "diverged" /\ LastRead.op = "I" /\ ~play.first
      /\ play.kind = "none" /\ play.input = LastRead.input /\ play.at = MachineOf(past, ReadBefore)
  BY <1>1, PlayingIs
<1>3. m \in Machine
  BY RanIs DEF RecordingInv
<1>4. m = Ran(MachineOf(past, ReadBefore), LastRead.input)
  BY <1>2
<1> HIDE DEF m
<1>5. /\ play' \in Player /\ play'.phase = "end" /\ play'.seg = play.seg
      /\ play'.pos = play.pos /\ play'.result = play.result /\ play'.kind = play.kind
      /\ play'.first = play.first /\ play'.at = m /\ play'.input = play.input
  BY ONLY <1>1, <1>2, <1>3 DEF Player
<1>6. Segment' = Segment /\ LastRead' = LastRead /\ ReadBefore' = ReadBefore
  BY <1>1, <1>5 DEF Segment, LastRead, ReadBefore
<1>7. play'.at = Ran(MachineOf(past, ReadBefore), LastRead.input)'
  BY <1>1, <1>4, <1>5, <1>6 DEF Ran, MachineOf
<1>8. PlayInv'
  <2>1. /\ play'.result # "diverged" /\ play'.seg \in DOMAIN disk' /\ Segment'[1].op = "header"
        /\ play'.pos \in 2 .. Len(Segment') + 1 /\ play'.phase = "end"
        /\ LastRead'.op = "I" /\ ~play'.first /\ play'.kind = "none"
        /\ play'.input = LastRead'.input
    BY <1>1, <1>2, <1>5, <1>6
  <2> QED BY <1>7, <2>1 DEF PlayInv, Segment, LastRead, ReadBefore
<1> QED BY <1>1, <1>5, <1>8, PlayKeeps

(* One machine came of that machine and input: the one fingerprinted. *)
LEMMA PlayMatchKept ==
    ASSUME RecordingInv, PlayMatch
    PROVE  RecordingInv'
<1>1. /\ play.phase = "end" /\ ~AtEof /\ Record.op = "H"
      /\ UNCHANGED <<host, past, rec, todo, queue, writer, disk>>
      /\ IF play.at.id = Record.id /\ play.at.save = Record.save
         THEN play' = [play EXCEPT !.phase = "begin", !.pos = @ + 1]
         ELSE Ends("diverged")
  BY DEF PlayMatch, Playing, Read
<1>2. /\ play \in Player /\ LastRead.op = "I" /\ ~play.first /\ play.kind = "none"
      /\ play.at = Ran(MachineOf(past, ReadBefore), LastRead.input)
  BY <1>1, PlayingIs
<1>3. Follows(past, ReadBefore, LastRead, Record) /\ play.pos + 1 \in Nat
  BY <1>1, RecordIs
<1> DEFINE k == Record.id
<1>4. /\ k \in DOMAIN past /\ Once(past, k) /\ past[k].from = MachineOf(past, ReadBefore).id
      /\ past[k].input = LastRead.input /\ past[k].to.save = Record.save
  BY <1>1, <1>3 DEF Follows, IsPrint, Printed, PrintOf, PrintedSave
<1>5. ReplayTypes
  BY DEF RecordingInv
<1>6. play.at = past[k].to /\ past[k].to.id = k
  <2> HIDE DEF k
  <2>1. Ran(MachineOf(past, ReadBefore), LastRead.input) = past[k].to
    BY <1>4, <1>5, RanIs
  <2> QED BY <1>2, <1>4, <1>5, <2>1, PastIs
<1>7. play' = [play EXCEPT !.phase = "begin", !.pos = play.pos + 1]
  <2>1. play.at.id = Record.id /\ play.at.save = Record.save
    BY <1>4, <1>6
  <2> QED BY <1>1, <1>2, <2>1 DEF Player
<1>8. /\ play' \in Player /\ play'.phase = "begin" /\ play'.seg = play.seg
      /\ play'.pos = play.pos + 1 /\ play'.result = play.result /\ play'.kind = play.kind
      /\ play'.first = play.first /\ play'.at = play.at
  BY ONLY <1>2, <1>3, <1>7 DEF Player
<1>9. play'.kind = "none" /\ ~play'.first /\ play'.at = past[Record.id].to
  BY <1>2, <1>6, <1>8
<1> QED BY <1>1, <1>8, <1>9, ReadKept

LEMMA PlayCrossedOutKept ==
    ASSUME RecordingInv, PlayCrossedOut
    PROVE  RecordingInv'
<1>1. /\ play.phase = "end" /\ ~AtEof /\ Record.op = "X"
      /\ UNCHANGED <<host, past, rec, todo, queue, writer, disk>>
      /\ play' = [play EXCEPT !.phase = "begin", !.pos = @ + 1]
  BY DEF PlayCrossedOut, Playing, Read
<1>2. play \in Player /\ play.pos + 1 \in Nat
  BY <1>1, PlayingIs
<1>3. play' = [play EXCEPT !.phase = "begin", !.pos = play.pos + 1]
  BY <1>1, <1>2 DEF Player
<1>4. /\ play' \in Player /\ play'.phase = "begin" /\ play'.seg = play.seg
      /\ play'.pos = play.pos + 1 /\ play'.result = play.result
  BY ONLY <1>2, <1>3 DEF Player
<1> QED BY <1>1, <1>4, ReadKept

(* A file that ends with an input: playback goes on with the next one. *)
LEMMA PlayCutShortKept ==
    ASSUME RecordingInv, PlayCutShort
    PROVE  RecordingInv'
<1>1. /\ play.phase = "end" /\ AtEof
      /\ UNCHANGED <<host, past, rec, todo, queue, writer, disk>>
      /\ \/ play' = [play EXCEPT !.phase = "begin", !.resync = TRUE]
         \/ Ends("incomplete")
  BY DEF PlayCutShort, Playing
<1>2. CASE Ends("incomplete")
  BY <1>1, <1>2, EndedKept
<1>3. CASE play' = [play EXCEPT !.phase = "begin", !.resync = TRUE]
  <2>1. /\ play \in Player /\ play.seg \in DOMAIN disk /\ play.pos \in 2 .. Len(Segment) + 1
        /\ Segment[1].op = "header" /\ play.result # "diverged" /\ LastRead.op = "I"
    BY <1>1, PlayingIs
  <2>2. /\ play' \in Player /\ play'.phase = "begin" /\ play'.seg = play.seg
        /\ play'.pos = play.pos /\ play'.result = play.result /\ play'.resync
    BY ONLY <1>3, <2>1 DEF Player
  <2>3. Segment' = Segment /\ LastRead' = LastRead
    BY <1>1, <2>2 DEF Segment, LastRead
  <2>4. AtEof'
    BY <1>1, <2>2 DEF AtEof
  <2>5. Beginning(Segment, LastRead)'
    BY <2>1, <2>2, <2>3, <2>4 DEF Beginning, IsPrint
  <2>6. /\ play'.result # "diverged" /\ play'.seg \in DOMAIN disk' /\ Segment'[1].op = "header"
        /\ play'.pos \in 2 .. Len(Segment') + 1
    BY <1>1, <2>1, <2>2, <2>3
  <2>7. PlayInv'
    BY <2>2, <2>5, <2>6 DEF PlayInv, Segment, LastRead
  <2> QED BY <1>1, <2>2, <2>7, PlayKeeps
<1> QED BY <1>1, <1>2, <1>3

LEMMA PlaybackKept ==
    ASSUME RecordingInv, Playback
    PROVE  RecordingInv'
BY StartPlaybackKept, PlayNextSegmentKept, PlayResyncsKept, PlayExitKept, PlayCheckpointKept,
   PlayInputKept, NothingUnexpected, PlayRunKept, PlayMatchKept, PlayCrossedOutKept,
   PlayCutShortKept DEF Playback

-----------------------------------------------------------------------------
(* The session as a whole.                                                   *)

LEMMA InitRecording ==
    ASSUME ReplayInit
    PROVE  RecordingInv
<1>1. /\ host = NewHost /\ past = <<>> /\ rec = NewRecorder /\ todo = <<>> /\ queue = <<>>
      /\ writer = [open |-> 0, save |-> -1, error |-> FALSE] /\ disk = <<>>
      /\ play = [phase |-> "no"]
  BY DEF ReplayInit
<1>2. Len(<<>>) = 0 /\ DOMAIN <<>> = {} /\ <<>> \in Seq(Item)
      /\ <<>> \in Seq([from : Int, input : Int, to : Machine])
  OBVIOUS
<1>3. host \in Host /\ rec \in Recorder
  BY <1>1, NewIs
<1>4. ReplayTypes
  <2>1. PastType
    BY <1>1, <1>2 DEF PastType
  <2>2. DiskType
    <3>1. disk \in [DOMAIN disk -> Seq(Item)]
      BY <1>1, <1>2
    <3> QED BY <1>1, <1>2, <3>1 DEF DiskType
  <2> QED BY <1>1, <1>2, <1>3, <2>1, <2>2 DEF ReplayTypes
<1>5. FilesInv /\ PlayInv
  BY <1>1, <1>2 DEF FilesInv, PlayInv
<1>6. File = <<>> /\ Stream = <<>>
  BY <1>1, <1>2 DEF File, Stream
<1>7. StreamInv
  <2>1. Tip(<<>>).op = "none"
    BY <1>2, NoneIs DEF Tip, At
  <2> QED BY <1>1, <1>2, <1>6, <2>1
    DEF StreamInv, Grammar, Joins, JoinedFile, Ascends, HoldsSave, Before
<1>8. RecorderInv /\ Batch /\ NumbersInv /\ TipInv
  <2>1. RecorderInv
    BY <1>1 DEF RecorderInv, NewRecorder, NewHost
  <2>2. Batch
    BY <1>1, <1>2 DEF Batch
  <2>3. NumbersInv
    BY <1>1, <1>2 DEF NumbersInv, NewRecorder, Skipped
  <2>4. TipInv
    BY <1>1 DEF TipInv, NewRecorder
  <2> QED BY <2>1, <2>2, <2>3, <2>4
<1> QED BY <1>4, <1>5, <1>7, <1>8 DEF RecordingInv

LEMMA NothingMoves ==
    ASSUME RecordingInv, UNCHANGED replayVars
    PROVE  RecordingInv'
<1>1. UNCHANGED <<host, past, rec, todo, queue, writer, disk, play>>
  BY DEF replayVars
<1>2. /\ Recording' = Recording /\ Stream' = Stream /\ File' = File /\ NextInput' = NextInput
  BY <1>1 DEF Recording, Stream, File, NextInput
<1>3. ReplayTypes => ReplayTypes'
  BY <1>1, <1>2 DEF ReplayTypes, PastType, DiskType
<1>4. FilesInv => FilesInv'
  BY <1>1, <1>2 DEF FilesInv
<1>5. PlayInv => PlayInv'
  BY <1>1 DEF PlayInv, Beginning, AtHead, AtEof, Ran
<1>6. StreamInv => StreamInv'
  BY <1>1, <1>2 DEF StreamInv
<1>7. (RecorderInv => RecorderInv') /\ (Batch => Batch') /\ (NumbersInv => NumbersInv')
  BY <1>1 DEF RecorderInv, Batch, NumbersInv
<1>8. TipInv => TipInv'
  BY <1>1, <1>2 DEF TipInv, InputNext, PrintNext, AwaitsEnd, AwaitsFrame, FrameRan, HalfWay
<1> QED BY <1>1, <1>2, <1>3, <1>4, <1>5, <1>6, <1>7, <1>8 DEF RecordingInv

(* The invariant of the recording holds at all times: whatever the queue
   refuses, a restore interrupts, the disk fails or a kill cuts off, the
   stream of the recorder keeps its grammar and its segments join. *)
THEOREM RecordingHolds == ReplaySpec => []RecordingInv
<1>1. ReplayInit => RecordingInv
  BY InitRecording
<1>2. RecordingInv /\ [ReplayNext]_replayVars => RecordingInv'
  <2> SUFFICES ASSUME RecordingInv, [ReplayNext]_replayVars
               PROVE  RecordingInv'
    OBVIOUS
  <2>1. CASE RunFrame
    BY <2>1, RunFrameKept
  <2>2. CASE Restore \/ NoticeRestore
    BY <2>2, RestoreKept
  <2>3. CASE FrameEnd
    BY <2>3, FrameEndKept
  <2>4. CASE FrameBegin
    BY <2>4, FrameBeginKept
  <2>5. CASE Enqueue
    BY <2>5, EnqueueKept
  <2>6. CASE QuitSession
    BY <2>6, QuitSessionKept
  <2>7. CASE KillSession
    BY <2>7, KillSessionKept
  <2>8. CASE Work
    BY <2>8, WorkKept
  <2>9. CASE WorkFails
    BY <2>9, WorkFailsKept
  <2>10. CASE Playback
    BY <2>10, PlaybackKept
  <2>11. CASE UNCHANGED replayVars
    BY <2>11, NothingMoves
  <2> QED BY <2>1, <2>2, <2>3, <2>4, <2>5, <2>6, <2>7, <2>8, <2>9, <2>10, <2>11 DEF ReplayNext
<1> QED BY <1>1, <1>2, PTL DEF ReplaySpec

(* What was recorded reruns: playback from any segment that was kept never
   meets a record it cannot follow (playback_begin and playback_end never
   stop with a divergence). *)
THEOREM RecordingRerunsHolds == ReplaySpec => []RecordingReruns
<1>1. RecordingInv => RecordingReruns
  BY DEF RecordingInv, PlayInv, RecordingReruns, Played
<1> QED BY <1>1, RecordingHolds, PTL
=============================================================================
