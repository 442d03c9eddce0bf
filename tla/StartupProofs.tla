---------------------------- MODULE StartupProofs ----------------------------
(***************************************************************************)
(* For any number of seats and whatever they run, with seats that leave or *)
(* give up at any moment: nobody runs a frame unless every seat has the    *)
(* saves and clocks of all of them.                                        *)
(***************************************************************************)
EXTENDS NetplayStartup, TLAPS

Stages == {"ReceiveUploads", "Upload", "SendAssembly", "ReceiveAssembly",
           "SendReady", "ReceiveReady", "Done", "Failed"}
Packets == [owner : Players, identity : Identities \cup {"cold"}]

StartupTypeOK ==
    /\ identity \in [Players -> Identities]
    /\ stage \in [Players -> Stages]
    /\ uploading \in [Players -> BOOLEAN]
    /\ uploads \subseteq Players /\ collected \subseteq Players
    /\ assembly \in BOOLEAN /\ applied \subseteq Others
    /\ asks \in BOOLEAN /\ replies \in [Others -> {"none", "yes", "no"}]
    /\ saves \in [Players -> [Players -> Packets]]
    /\ absent \subseteq Players

(* What seat zero has collected it has applied, and it made sure that it fits. *)
CollectedIsApplied ==
    \A p \in collected : saves[First][p] = Packet(p) /\ identity[p] = identity[First]

(* A guest has applied the packets of everybody. *)
AppliedIsComplete ==
    \A g \in applied : \A p \in Players :
        saves[g][p] = Packet(p) /\ identity[p] = identity[g]

(* The assembly goes out when all packets are in, the probe when all guests
   have applied them, and nobody is done before the probe. *)
InOrder ==
    /\ assembly \/ stage[First] \in {"SendAssembly", "SendReady", "Done"} => collected = Players
    /\ stage[First] \in {"SendReady", "Done"} => applied = Others
    /\ asks => collected = Players /\ applied = Others
    /\ \A g \in Others : stage[g] = "Done" => asks

StartupInv == StartupTypeOK /\ CollectedIsApplied /\ AppliedIsComplete /\ InOrder

-----------------------------------------------------------------------------
LEMMA FirstIsNoOther == First \in Players /\ First \notin Others /\ \A g \in Others : g \in Players /\ g # First
BY OthersAssumption DEF Players

LEMMA PacketIsPacket ==
    ASSUME StartupTypeOK, NEW p \in Players
    PROVE  Packet(p) \in Packets
BY DEF StartupTypeOK, Packet, Packets

(* Every step keeps the invariant: one lemma per action, and one step per part
   of the invariant that the action can disturb. *)

LEMMA BeginUploadKeeps ==
    ASSUME StartupInv, NEW g \in Others, BeginUpload(g)
    PROVE  StartupInv'
<1> USE FirstIsNoOther DEF BeginUpload, Working, Turn
<1>0. StartupTypeOK /\ CollectedIsApplied /\ AppliedIsComplete /\ InOrder
  BY DEF StartupInv
<1>1. StartupTypeOK'
  BY <1>0, PacketIsPacket DEF StartupTypeOK, Stages
<1>2. CollectedIsApplied'
  BY <1>0 DEF CollectedIsApplied, StartupTypeOK, Packet
<1>3. AppliedIsComplete'
  BY <1>0 DEF AppliedIsComplete, StartupTypeOK, Packet
<1>4. InOrder'
  BY <1>0 DEF InOrder, StartupTypeOK
<1> QED BY <1>1, <1>2, <1>3, <1>4 DEF StartupInv

LEMMA TakeUploadKeeps ==
    ASSUME StartupInv, NEW g \in Others, TakeUpload(g)
    PROVE  StartupInv'
<1> USE FirstIsNoOther DEF TakeUpload, Applies, Working, Turn
<1>0. StartupTypeOK /\ CollectedIsApplied /\ AppliedIsComplete /\ InOrder
  BY DEF StartupInv
<1>1. StartupTypeOK'
  <2>1. \/ saves' = saves
        \/ saves' = [saves EXCEPT ![First] = [saves[First] EXCEPT ![g] = Packet(g)]]
    BY <1>0 DEF StartupTypeOK
  <2>2. saves' \in [Players -> [Players -> Packets]]
    <3>1. saves[First] \in [Players -> Packets] /\ Packet(g) \in Packets
      BY <1>0, PacketIsPacket DEF StartupTypeOK
    <3> DEFINE row == [saves[First] EXCEPT ![g] = Packet(g)]
    <3>2. row \in [Players -> Packets]
      BY <3>1
    <3> HIDE DEF row
    <3>3. saves' = saves \/ saves' = [saves EXCEPT ![First] = row]
      BY <2>1 DEF row
    <3> QED BY <1>0, <3>2, <3>3 DEF StartupTypeOK
  <2>3. stage' \in [Players -> Stages]
    <3>1. \/ stage' = stage
          \/ stage' = [stage EXCEPT ![First] = "SendAssembly"]
          \/ stage' = [stage EXCEPT ![First] = "Failed"]
      OBVIOUS
    <3>2. stage \in [Players -> Stages] /\ "SendAssembly" \in Stages /\ "Failed" \in Stages
      BY <1>0 DEF StartupTypeOK, Stages
    <3> QED
      BY <3>1, <3>2
  <2>4. collected' \subseteq Players
    BY <1>0 DEF StartupTypeOK
  <2>5. UNCHANGED <<identity, uploading, uploads, assembly, applied, asks, replies, absent>>
    OBVIOUS
  <2> HIDE DEF TakeUpload
  <2> QED BY <1>0, <2>2, <2>3, <2>4, <2>5 DEF StartupTypeOK
<1>2. CollectedIsApplied'
  BY <1>0 DEF CollectedIsApplied, StartupTypeOK, Packet
<1>3. AppliedIsComplete'
  BY <1>0 DEF AppliedIsComplete, StartupTypeOK, Packet
<1>4. InOrder'
  BY <1>0 DEF InOrder, StartupTypeOK
<1> QED BY <1>1, <1>2, <1>3, <1>4 DEF StartupInv

LEMMA UploadAckedKeeps ==
    ASSUME StartupInv, NEW g \in Others, UploadAcked(g)
    PROVE  StartupInv'
<1> USE FirstIsNoOther DEF UploadAcked, Working, Turn
<1>0. StartupTypeOK /\ CollectedIsApplied /\ AppliedIsComplete /\ InOrder
  BY DEF StartupInv
<1>1. StartupTypeOK'
  BY <1>0, PacketIsPacket DEF StartupTypeOK, Stages
<1>2. CollectedIsApplied'
  BY <1>0 DEF CollectedIsApplied, StartupTypeOK, Packet
<1>3. AppliedIsComplete'
  BY <1>0 DEF AppliedIsComplete, StartupTypeOK, Packet
<1>4. InOrder'
  BY <1>0 DEF InOrder, StartupTypeOK
<1> QED BY <1>1, <1>2, <1>3, <1>4 DEF StartupInv

LEMMA BeginAssemblyKeeps ==
    ASSUME StartupInv, BeginAssembly
    PROVE  StartupInv'
<1> USE FirstIsNoOther DEF BeginAssembly, Working, Turn
<1>0. StartupTypeOK /\ CollectedIsApplied /\ AppliedIsComplete /\ InOrder
  BY DEF StartupInv
<1>1. StartupTypeOK'
  BY <1>0, PacketIsPacket DEF StartupTypeOK, Stages
<1>2. CollectedIsApplied'
  BY <1>0 DEF CollectedIsApplied, StartupTypeOK, Packet
<1>3. AppliedIsComplete'
  BY <1>0 DEF AppliedIsComplete, StartupTypeOK, Packet
<1>4. InOrder'
  BY <1>0 DEF InOrder, StartupTypeOK
<1> QED BY <1>1, <1>2, <1>3, <1>4 DEF StartupInv

LEMMA TakeAssemblyKeeps ==
    ASSUME StartupInv, NEW g \in Others, TakeAssembly(g)
    PROVE  StartupInv'
<1> USE FirstIsNoOther DEF TakeAssembly, AwaitsAssembly, Applies, Working, Turn
<1>0. StartupTypeOK /\ CollectedIsApplied /\ AppliedIsComplete /\ InOrder
  BY DEF StartupInv
<1>1. StartupTypeOK'
  <2>1. \/ saves' = saves
        \/ \E row \in [Players -> Packets] : saves' = [saves EXCEPT ![g] = row]
    BY <1>0, PacketIsPacket
  <2>2. saves' \in [Players -> [Players -> Packets]]
    BY <1>0, <2>1 DEF StartupTypeOK
  <2>3. stage' \in [Players -> Stages]
    BY <1>0 DEF StartupTypeOK, Stages
  <2>4. applied' \subseteq Others
    BY <1>0 DEF StartupTypeOK
  <2> QED BY <1>0, <2>2, <2>3, <2>4 DEF StartupTypeOK
<1>2. CollectedIsApplied'
  BY <1>0 DEF CollectedIsApplied, StartupTypeOK, Packet
<1>3. AppliedIsComplete'
  BY <1>0 DEF AppliedIsComplete, StartupTypeOK, Packet
<1>4. InOrder'
  <2>1. stage'[First] = stage[First] /\ \A o \in Others : stage'[o] = "Done" => stage[o] = "Done"
    BY <1>0 DEF StartupTypeOK
  <2>2. applied = Others => applied' = Others
    BY <1>0
  <2> QED BY <1>0, <2>1, <2>2 DEF InOrder
<1> QED BY <1>1, <1>2, <1>3, <1>4 DEF StartupInv

LEMMA AssemblyAckedKeeps ==
    ASSUME StartupInv, AssemblyAcked
    PROVE  StartupInv'
<1> USE FirstIsNoOther DEF AssemblyAcked, Delivered, Working, Turn
<1>0. StartupTypeOK /\ CollectedIsApplied /\ AppliedIsComplete /\ InOrder
  BY DEF StartupInv
<1>1. StartupTypeOK'
  BY <1>0, PacketIsPacket DEF StartupTypeOK, Stages
<1>2. CollectedIsApplied'
  BY <1>0 DEF CollectedIsApplied, StartupTypeOK, Packet
<1>3. AppliedIsComplete'
  BY <1>0 DEF AppliedIsComplete, StartupTypeOK, Packet
<1>4. InOrder'
  BY <1>0 DEF InOrder, StartupTypeOK
<1> QED BY <1>1, <1>2, <1>3, <1>4 DEF StartupInv

LEMMA ProbeStartKeeps ==
    ASSUME StartupInv, ProbeStart
    PROVE  StartupInv'
<1> USE FirstIsNoOther DEF ProbeStart, Working, Turn
<1>0. StartupTypeOK /\ CollectedIsApplied /\ AppliedIsComplete /\ InOrder
  BY DEF StartupInv
<1>1. StartupTypeOK'
  BY <1>0, PacketIsPacket DEF StartupTypeOK, Stages
<1>2. CollectedIsApplied'
  BY <1>0 DEF CollectedIsApplied, StartupTypeOK, Packet
<1>3. AppliedIsComplete'
  BY <1>0 DEF AppliedIsComplete, StartupTypeOK, Packet
<1>4. InOrder'
  BY <1>0 DEF InOrder, StartupTypeOK
<1> QED BY <1>1, <1>2, <1>3, <1>4 DEF StartupInv

LEMMA AnswerStartKeeps ==
    ASSUME StartupInv, NEW g \in Others, AnswerStart(g)
    PROVE  StartupInv'
<1> USE FirstIsNoOther DEF AnswerStart, Working, Turn
<1>0. StartupTypeOK /\ CollectedIsApplied /\ AppliedIsComplete /\ InOrder
  BY DEF StartupInv
<1>1. StartupTypeOK'
  BY <1>0, PacketIsPacket DEF StartupTypeOK, Stages
<1>2. CollectedIsApplied'
  BY <1>0 DEF CollectedIsApplied, StartupTypeOK, Packet
<1>3. AppliedIsComplete'
  BY <1>0 DEF AppliedIsComplete, StartupTypeOK, Packet
<1>4. InOrder'
  BY <1>0 DEF InOrder, StartupTypeOK
<1> QED BY <1>1, <1>2, <1>3, <1>4 DEF StartupInv

LEMMA TakeRepliesKeeps ==
    ASSUME StartupInv, TakeReplies
    PROVE  StartupInv'
<1> USE FirstIsNoOther DEF TakeReplies, Working, Turn
<1>0. StartupTypeOK /\ CollectedIsApplied /\ AppliedIsComplete /\ InOrder
  BY DEF StartupInv
<1>1. StartupTypeOK'
  BY <1>0, PacketIsPacket DEF StartupTypeOK, Stages
<1>2. CollectedIsApplied'
  BY <1>0 DEF CollectedIsApplied, StartupTypeOK, Packet
<1>3. AppliedIsComplete'
  BY <1>0 DEF AppliedIsComplete, StartupTypeOK, Packet
<1>4. InOrder'
  BY <1>0 DEF InOrder, StartupTypeOK
<1> QED BY <1>1, <1>2, <1>3, <1>4 DEF StartupInv

LEMMA GivesUpKeeps ==
    ASSUME StartupInv, NEW s \in Players, GivesUp(s)
    PROVE  StartupInv'
<1> USE FirstIsNoOther DEF GivesUp, Working, Turn
<1>0. StartupTypeOK /\ CollectedIsApplied /\ AppliedIsComplete /\ InOrder
  BY DEF StartupInv
<1>1. StartupTypeOK'
  BY <1>0, PacketIsPacket DEF StartupTypeOK, Stages
<1>2. CollectedIsApplied'
  BY <1>0 DEF CollectedIsApplied, StartupTypeOK, Packet
<1>3. AppliedIsComplete'
  BY <1>0 DEF AppliedIsComplete, StartupTypeOK, Packet
<1>4. InOrder'
  BY <1>0 DEF InOrder, StartupTypeOK
<1> QED BY <1>1, <1>2, <1>3, <1>4 DEF StartupInv

LEMMA DepartsKeeps ==
    ASSUME StartupInv, NEW s \in Players, Departs(s)
    PROVE  StartupInv'
BY DEF StartupInv, StartupTypeOK, CollectedIsApplied, AppliedIsComplete, InOrder, Packet, Departs

LEMMA StartupStutterKeeps ==
    ASSUME StartupInv, UNCHANGED startupVars
    PROVE  StartupInv'
BY DEF StartupInv, StartupTypeOK, CollectedIsApplied, AppliedIsComplete, InOrder, Packet, startupVars

LEMMA StartupBegins ==
    ASSUME StartupInit
    PROVE  StartupInv
<1> USE FirstIsNoOther DEF StartupInit
<1>1. StartupTypeOK
  BY DEF StartupTypeOK, Stages, Packets, Packet, Cold
<1>2. CollectedIsApplied /\ AppliedIsComplete /\ InOrder
  BY DEF CollectedIsApplied, AppliedIsComplete, InOrder
<1> QED BY <1>1, <1>2 DEF StartupInv

-----------------------------------------------------------------------------
(* What has been collected and applied, and in which order, for any seats. *)
THEOREM StartupInvariant == StartupSpec => []StartupInv
<1>1. ASSUME StartupInv, StartupNext
      PROVE  StartupInv'
  <2>1. CASE FirstPoll
    BY <1>1, <2>1, BeginAssemblyKeeps, AssemblyAckedKeeps, ProbeStartKeeps,
       TakeRepliesKeeps, TakeUploadKeeps DEF FirstPoll
  <2>2. ASSUME NEW g \in Others, OtherPoll(g) \/ UploadAcked(g)
        PROVE  StartupInv'
    BY <1>1, <2>2, BeginUploadKeeps, TakeAssemblyKeeps, AnswerStartKeeps,
       UploadAckedKeeps DEF OtherPoll
  <2>3. ASSUME NEW s \in Players, GivesUp(s) \/ Departs(s)
        PROVE  StartupInv'
    BY <1>1, <2>3, GivesUpKeeps, DepartsKeeps
  <2> QED BY <1>1, <2>1, <2>2, <2>3 DEF StartupNext
<1> QED BY <1>1, StartupBegins, StartupStutterKeeps, PTL DEF StartupSpec

(* The first frame of any seat finds the same saves and clocks everywhere. *)
THEOREM StartupIsShared == StartupSpec => []StartsTheSame
<1>1. ASSUME StartupInv
      PROVE  StartsTheSame
  <2>1. SUFFICES ASSUME NEW s \in Players, stage[s] = "Done", NEW t \in Players, NEW p \in Players
                 PROVE  saves[t][p] = Packet(p) /\ identity[t] = identity[s]
    BY DEF StartsTheSame
  <2>2. collected = Players /\ applied = Others
    BY <1>1, <2>1 DEF StartupInv, InOrder, Players
  <2>3. \A q \in Players : identity[q] = identity[First] /\ saves[First][q] = Packet(q)
    BY <1>1, <2>2 DEF StartupInv, CollectedIsApplied
  <2>4. t # First => saves[t][p] = Packet(p)
    BY <1>1, <2>2 DEF StartupInv, AppliedIsComplete, Players
  <2> QED BY <2>3, <2>4
<1> QED BY <1>1, StartupInvariant, PTL
=============================================================================
