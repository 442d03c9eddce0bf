---------------------------- MODULE WirelessProofs ----------------------------
(***************************************************************************)
(* The associations of the wireless adapters are whole and acyclic for any *)
(* number of adapters, whatever the programs command and whoever is taken  *)
(* off or reset; whoever is dropped is told, and no payload is lost while  *)
(* its association lasts.                                                  *)
(***************************************************************************)
EXTENDS WirelessRadio, TLAPS

(* Who accepts children has no parent of its own: 0x19 refuses a child, and
   0x1f ends accepting.  It makes NoCycle inductive: a new child's host is at
   the top of its tree. *)
AcceptingIsRoot == \A i \in Adapters : port[i].accepting => ~IsChild(i)

RadioInv == RadioTypeOK /\ AssociationsAgree /\ NoCycle /\ AcceptingIsRoot

(* What a step does to the associations: nothing, cut the links of i in the
   slots of mask, or link i to a host that has no parent. *)
SameLinks(p, q) == p.parent = q.parent /\ p.slot = q.slot /\ p.children = q.children

Kept ==
    \A a \in Adapters :
        /\ SameLinks(port'[a], port[a])
        /\ port'[a].accepting => port[a].accepting \/ ~IsChild(a)

Cut(i, mask) ==
    \A a \in Adapters :
        /\ SameLinks(port'[a], Disconnected(i, mask)[a])
        /\ port'[a].accepting => port[a].accepting

Linked(i, host, slot) ==
    /\ ~IsChild(i) /\ host # i /\ ~IsChild(host)
    /\ port[host].children[slot] = Nobody
    /\ ~port'[i].accepting
    /\ \A a \in Adapters : SameLinks(port'[a], Joined(i, host, slot)[a])
    /\ \A a \in Adapters : port'[a].accepting => port[a].accepting

LEMMA NobodyIsNoAdapter == Nobody \notin Adapters /\ NoSlot \notin Slots
BY DEF Nobody, Adapters, NoSlot, Slots

-----------------------------------------------------------------------------
(* The operators on one port keep its type and, but for Orphaned, its links. *)

LEMMA NoticedPort ==
    ASSUME NEW p \in Port, NEW what \in Notices
    PROVE  /\ Noticed(p, what) \in Port
           /\ SameLinks(Noticed(p, what), p)
           /\ Noticed(p, what).accepting = p.accepting
BY DEF Noticed, Port, SameLinks

LEMMA OrphanedPort ==
    ASSUME NEW p \in Port
    PROVE  /\ Orphaned(p) \in Port
           /\ Orphaned(p).parent = Nobody /\ Orphaned(p).slot = NoSlot
           /\ Orphaned(p).children = p.children
           /\ Orphaned(p).accepting = p.accepting
BY DEF Orphaned, Port

LEMMA StoppedPort ==
    ASSUME NEW p \in Port
    PROVE  Stopped(p) \in Port /\ SameLinks(Stopped(p), p) /\ ~Stopped(p).accepting
BY DEF Stopped, Port, SameLinks

LEMMA WaitingPort ==
    ASSUME NEW p \in Port
    PROVE  /\ Waiting(p) \in Port
           /\ SameLinks(Waiting(p), p)
           /\ Waiting(p).accepting = p.accepting
BY DEF Waiting, Port, SameLinks, Waits

LEMMA SentPort ==
    ASSUME NEW p \in Port, NEW size \in 0 .. HostLimit
    PROVE  /\ Sent(p, size) \in Port
           /\ SameLinks(Sent(p, size), p)
           /\ Sent(p, size).accepting = p.accepting
<1> DEFINE radio == p.radio \/ p.hosting
<1>1. radio \in BOOLEAN
  BY Zenon
<1>2. Sent(p, size) = [p EXCEPT !.txSize = size, !.txPending = TRUE, !.radio = radio]
  BY DEF Sent
<1> HIDE DEF radio
<1> QED BY <1>1, <1>2 DEF Port, SameLinks

LEMMA HeardPort ==
    ASSUME NEW p \in Port, NEW size \in 0 .. HostLimit
    PROVE  /\ Heard(p, size) \in Port
           /\ SameLinks(Heard(p, size), p)
           /\ Heard(p, size).accepting = p.accepting
<1> DEFINE told == IF size > 0 THEN Noticed([p EXCEPT !.parentRx = size], "data") ELSE p
<1>1. /\ [p EXCEPT !.parentRx = size] \in Port
      /\ SameLinks([p EXCEPT !.parentRx = size], p)
      /\ [p EXCEPT !.parentRx = size].accepting = p.accepting
  BY DEF Port, SameLinks
<1>2. told \in Port /\ SameLinks(told, p) /\ told.accepting = p.accepting
  BY <1>1, NoticedPort DEF Notices, SameLinks
<1> HIDE DEF told
<1>3. /\ [told EXCEPT !.txPending = FALSE] \in Port
      /\ SameLinks([told EXCEPT !.txPending = FALSE], told)
      /\ [told EXCEPT !.txPending = FALSE].accepting = told.accepting
  BY ZenonT(30), <1>2 DEF Port, SameLinks
<1> QED BY <1>2, <1>3 DEF Heard, SameLinks, told

LEMMA NewPortType == NewPort \in Port
BY DEF NewPort, Port, Waits, HostLimit

-----------------------------------------------------------------------------
(* The two operations on the table. *)

LEMMA PartedPort ==
    ASSUME RadioTypeOK, NEW i \in Adapters, NEW mask \in SUBSET Slots
    PROVE  /\ Parted(i, mask) \in Port
           /\ Parted(i, mask).parent = IF Leaves(i, mask) THEN Nobody ELSE port[i].parent
           /\ Parted(i, mask).slot = IF Leaves(i, mask) THEN NoSlot ELSE port[i].slot
           /\ Parted(i, mask).children = [s \in Slots |-> IF s \in mask THEN Nobody
                                                         ELSE port[i].children[s]]
           /\ Parted(i, mask).accepting = port[i].accepting
<1> DEFINE left == IF Leaves(i, mask) THEN Orphaned(port[i]) ELSE port[i]
           kids == [s \in Slots |-> IF s \in mask THEN Nobody ELSE left.children[s]]
           rx == [s \in Slots |-> IF s \in mask /\ left.children[s] # Nobody
                                  THEN 0 ELSE left.childRx[s]]
<1>1. port[i] \in Port
  BY DEF RadioTypeOK
<1>2. /\ left \in Port /\ left.children = port[i].children
      /\ left.parent = IF Leaves(i, mask) THEN Nobody ELSE port[i].parent
      /\ left.slot = IF Leaves(i, mask) THEN NoSlot ELSE port[i].slot
      /\ left.accepting = port[i].accepting
  BY <1>1, OrphanedPort
<1> HIDE DEF left
<1>3. kids \in [Slots -> Adapters \cup {Nobody}] /\ rx \in [Slots -> 0 .. HostLimit]
  BY <1>2 DEF Port, HostLimit
<1> HIDE DEF kids, rx
<1>4. /\ [left EXCEPT !.children = kids, !.childRx = rx] \in Port
      /\ [left EXCEPT !.children = kids, !.childRx = rx].parent = left.parent
      /\ [left EXCEPT !.children = kids, !.childRx = rx].slot = left.slot
      /\ [left EXCEPT !.children = kids, !.childRx = rx].children = kids
      /\ [left EXCEPT !.children = kids, !.childRx = rx].accepting = left.accepting
  BY <1>2, <1>3 DEF Port
<1>5. Parted(i, mask) = [left EXCEPT !.children = kids, !.childRx = rx]
  BY DEF Parted, left, kids, rx
<1>6. kids = [s \in Slots |-> IF s \in mask THEN Nobody ELSE port[i].children[s]]
  BY <1>2 DEF kids
<1> QED BY <1>2, <1>4, <1>5, <1>6

(* Who loses its parent when i cuts the links in the slots of mask. *)
Gone(a, i, mask) ==
    \/ a = i /\ Leaves(i, mask)
    \/ port[a].parent = i /\ port[a].slot \in mask

LEMMA NoSelfParent ==
    ASSUME NoCycle, NEW i \in Adapters
    PROVE  port[i].parent # i
<1>1. {i} \in SUBSET Adapters /\ {i} # {}
  OBVIOUS
<1>2. PICK j \in {i} : port[j].parent \notin {i}
  BY <1>1 DEF NoCycle
<1> QED BY <1>2

LEMMA NoTwoCycle ==
    ASSUME NoCycle, NEW i \in Adapters, NEW j \in Adapters, port[i].parent = j
    PROVE  port[j].parent # i
<1>1. {i, j} \in SUBSET Adapters /\ {i, j} # {}
  OBVIOUS
<1>2. PICK k \in {i, j} : port[k].parent \notin {i, j}
  BY <1>1 DEF NoCycle
<1> QED BY <1>2

LEMMA DroppedAreGone ==
    ASSUME RadioInv, NEW i \in Adapters, NEW mask \in SUBSET Slots, NEW a \in Adapters
    PROVE  a \in Dropped(i, mask) <=> a # i /\ port[a].parent = i /\ port[a].slot \in mask
<1>1. \A s \in mask : port[i].children[s] = a <=> port[a].parent = i /\ port[a].slot = s
  BY DEF RadioInv, AssociationsAgree
<1>2. a \in Dropped(i, mask) <=> a # i /\ \E s \in mask : port[i].children[s] = a
  BY DEF Dropped
<1> QED BY <1>1, <1>2

LEMMA DisconnectedType ==
    ASSUME RadioInv, NEW i \in Adapters, NEW mask \in SUBSET Slots
    PROVE  Disconnected(i, mask) \in [Adapters -> Port]
<1> SUFFICES ASSUME NEW a \in Adapters
             PROVE  Disconnected(i, mask)[a] \in Port
  BY DEF Disconnected
<1>0. RadioTypeOK /\ port[a] \in Port /\ port[i] \in Port
  BY DEF RadioInv, RadioTypeOK
<1>1. Parted(i, mask) \in Port
  BY <1>0, PartedPort
<1>2. Noticed(Orphaned(port[a]), "dropped") \in Port
  BY <1>0, OrphanedPort, NoticedPort DEF Notices
<1>3. [port[a] EXCEPT !.children[port[i].slot] = Nobody] \in Port
  BY <1>0 DEF Port
<1> QED BY <1>0, <1>1, <1>2, <1>3 DEF Disconnected

(* disconnect() cuts exactly the links that are gone, at both of their ends. *)
LEMMA DisconnectedLinks ==
    ASSUME RadioInv, NEW i \in Adapters, NEW mask \in SUBSET Slots, NEW a \in Adapters
    PROVE  LET d == Disconnected(i, mask)[a]
           IN  /\ d.parent = IF Gone(a, i, mask) THEN Nobody ELSE port[a].parent
               /\ d.slot = IF Gone(a, i, mask) THEN NoSlot ELSE port[a].slot
               /\ \A s \in Slots :
                    d.children[s] = IF \E c \in Adapters : port[a].children[s] = c /\ Gone(c, i, mask)
                                    THEN Nobody ELSE port[a].children[s]
               /\ d.accepting = port[a].accepting
<1> DEFINE d == Disconnected(i, mask)[a]
<1>0. /\ RadioTypeOK /\ port[a] \in Port /\ port[i] \in Port
      /\ port[i].parent \in Adapters \cup {Nobody}
      /\ \A s \in Slots : port[a].children[s] \in Adapters \cup {Nobody}
  BY DEF RadioInv, RadioTypeOK, Port
<1>1. \A b, c \in Adapters, s \in Slots :
          port[b].children[s] = c <=> port[c].parent = b /\ port[c].slot = s
  BY DEF RadioInv, AssociationsAgree
<1>2. port[i].parent # i
  BY NoSelfParent DEF RadioInv
<1>3. CASE a = i
  <2>1. d = Parted(i, mask)
    BY <1>3 DEF Disconnected
  <2>2. Gone(a, i, mask) <=> Leaves(i, mask)
    BY <1>2, <1>3 DEF Gone
  <2>3. ASSUME NEW s \in Slots
        PROVE  (\E c \in Adapters : port[a].children[s] = c /\ Gone(c, i, mask))
                  <=> s \in mask /\ port[i].children[s] # Nobody
    <3>1. port[i].children[s] = Nobody \/ port[i].children[s] \in Adapters
      BY <1>0, <1>3
    <3>2. ASSUME NEW c \in Adapters, port[i].children[s] = c
          PROVE  Gone(c, i, mask) <=> s \in mask
      BY <1>1, <1>2, <3>2 DEF Gone
    <3> QED BY <1>3, <3>1, <3>2, NobodyIsNoAdapter
  <2> HIDE DEF d
  <2>4. \A s \in Slots : d.children[s] = IF s \in mask THEN Nobody ELSE port[a].children[s]
    <3>1. d.children = [s \in Slots |-> IF s \in mask THEN Nobody ELSE port[i].children[s]]
      BY <1>0, <2>1, PartedPort
    <3> QED BY <1>3, <3>1
  <2>5. /\ d.parent = (IF Leaves(i, mask) THEN Nobody ELSE port[a].parent)
        /\ d.slot = (IF Leaves(i, mask) THEN NoSlot ELSE port[a].slot)
        /\ d.accepting = port[a].accepting
    BY <1>0, <1>3, <2>1, PartedPort
  <2>6. \A s \in Slots :
           d.children[s] = IF \E c \in Adapters : port[a].children[s] = c /\ Gone(c, i, mask)
                           THEN Nobody ELSE port[a].children[s]
    BY <1>3, <2>3, <2>4
  <2> QED BY <2>2, <2>5, <2>6 DEF d
<1>4. CASE a \in Dropped(i, mask)
  <2>1. a # i /\ d = Noticed(Orphaned(port[a]), "dropped")
    BY <1>4 DEF Disconnected, Dropped
  <2>2. Gone(a, i, mask) /\ port[a].parent = i
    BY <1>4, DroppedAreGone DEF Gone
  <2>3. port[i].parent # a
    BY <2>2, NoTwoCycle DEF RadioInv
  <2>4. ASSUME NEW s \in Slots, NEW c \in Adapters, port[a].children[s] = c
        PROVE  ~Gone(c, i, mask)
    BY <1>1, <2>1, <2>3, <2>4 DEF Gone
  <2>5. SameLinks(d, Orphaned(port[a])) /\ d.accepting = port[a].accepting
    BY <1>0, <2>1, OrphanedPort, NoticedPort DEF Notices
  <2> HIDE DEF d
  <2> QED BY <1>0, <2>2, <2>4, <2>5, OrphanedPort DEF SameLinks, d
<1>5. CASE a # i /\ a \notin Dropped(i, mask)
  <2>1. ~Gone(a, i, mask)
    BY <1>5, DroppedAreGone DEF Gone
  <2>2. CASE Leaves(i, mask) /\ a = port[i].parent
    <3>1. d = [port[a] EXCEPT !.children[port[i].slot] = Nobody]
      BY <1>5, <2>2 DEF Disconnected
    <3>2. Gone(i, i, mask) /\ port[i].slot \in mask
      BY <2>2 DEF Gone, Leaves
    <3>3. ASSUME NEW s \in Slots
          PROVE  (\E c \in Adapters : port[a].children[s] = c /\ Gone(c, i, mask))
                    <=> s = port[i].slot
      BY <1>1, <1>5, <2>2, <3>2, <3>3 DEF Gone
    <3>4. /\ d.parent = port[a].parent /\ d.slot = port[a].slot
          /\ d.accepting = port[a].accepting
          /\ \A s \in Slots : d.children[s] = IF s = port[i].slot THEN Nobody
                                              ELSE port[a].children[s]
      BY <1>0, <3>1 DEF Port
    <3> HIDE DEF d
    <3> QED BY <2>1, <3>3, <3>4 DEF d
  <2>3. CASE ~(Leaves(i, mask) /\ a = port[i].parent)
    <3>1. d = port[a]
      BY <1>5, <2>3 DEF Disconnected
    <3>2. ASSUME NEW s \in Slots, NEW c \in Adapters, port[a].children[s] = c
          PROVE  ~Gone(c, i, mask)
      BY <1>1, <1>5, <2>3, <3>2 DEF Gone
    <3> HIDE DEF d
    <3> QED BY <2>1, <3>1, <3>2 DEF d
  <2> QED BY <2>2, <2>3
<1> QED BY <1>3, <1>4, <1>5

-----------------------------------------------------------------------------
(* Each of the three kinds of step keeps the invariant. *)

LEMMA KeptPreserves ==
    ASSUME RadioInv, RadioTypeOK', Kept
    PROVE  RadioInv'
<1>1. \A a \in Adapters : /\ port'[a].parent = port[a].parent
                          /\ port'[a].slot = port[a].slot
                          /\ port'[a].children = port[a].children
                          /\ port'[a].accepting => port[a].accepting \/ ~IsChild(a)
  BY DEF Kept, SameLinks
<1>2. AssociationsAgree'
  BY <1>1 DEF RadioInv, AssociationsAgree, IsChild
<1>3. NoCycle'
  BY <1>1 DEF RadioInv, NoCycle
<1>4. AcceptingIsRoot'
  BY <1>1 DEF RadioInv, AcceptingIsRoot, IsChild
<1> QED BY <1>2, <1>3, <1>4 DEF RadioInv

LEMMA CutPreserves ==
    ASSUME RadioInv, RadioTypeOK', NEW i \in Adapters, NEW mask \in SUBSET Slots, Cut(i, mask)
    PROVE  RadioInv'
<1>1. ASSUME NEW a \in Adapters
      PROVE  /\ port'[a].parent = IF Gone(a, i, mask) THEN Nobody ELSE port[a].parent
             /\ port'[a].slot = IF Gone(a, i, mask) THEN NoSlot ELSE port[a].slot
             /\ \A s \in Slots :
                  port'[a].children[s] =
                      IF \E c \in Adapters : port[a].children[s] = c /\ Gone(c, i, mask)
                      THEN Nobody ELSE port[a].children[s]
             /\ port'[a].accepting => port[a].accepting
  <2>1. SameLinks(port'[a], Disconnected(i, mask)[a]) /\ (port'[a].accepting => port[a].accepting)
    BY DEF Cut
  <2> QED BY <2>1, DisconnectedLinks DEF SameLinks
<1>2. ASSUME NEW a \in Adapters, NEW c \in Adapters, NEW s \in Slots
      PROVE  port'[a].children[s] = c <=> (port'[c].parent = a /\ port'[c].slot = s)
  <2>1. port[a].children[s] = c <=> (port[c].parent = a /\ port[c].slot = s)
    BY DEF RadioInv, AssociationsAgree
  <2>2. CASE Gone(c, i, mask)
    <3>1. port'[c].parent = Nobody
      BY <1>1, <2>2
    <3>2. port'[a].children[s] # c
      BY <1>1, <2>2, NobodyIsNoAdapter
    <3> QED BY <3>1, <3>2, NobodyIsNoAdapter
  <2>3. CASE ~Gone(c, i, mask)
    <3>1. port'[c].parent = port[c].parent /\ port'[c].slot = port[c].slot
      BY <1>1, <2>3
    <3>2. port'[a].children[s] = c <=> port[a].children[s] = c
      BY <1>1, <2>3, NobodyIsNoAdapter
    <3> QED BY <2>1, <3>1, <3>2
  <2> QED BY <2>2, <2>3
<1>3. AssociationsAgree'
  <2>1. \A a \in Adapters : port[a].slot \in IF IsChild(a) THEN Slots ELSE {NoSlot}
    BY DEF RadioInv, AssociationsAgree
  <2>2. \A a \in Adapters : port'[a].slot \in (IF IsChild(a) THEN Slots ELSE {NoSlot})'
    BY <1>1, <2>1, NobodyIsNoAdapter DEF IsChild
  <2> QED BY <1>2, <2>2 DEF AssociationsAgree
<1>4. \A a \in Adapters : port'[a].parent \in {port[a].parent, Nobody}
  BY <1>1
<1>5. NoCycle'
  <2> SUFFICES ASSUME NEW group \in SUBSET Adapters, group # {}
               PROVE  \E a \in group : port'[a].parent \notin group
    BY DEF NoCycle
  <2>1. PICK a \in group : port[a].parent \notin group
    BY DEF RadioInv, NoCycle
  <2> QED BY <1>4, <2>1, NobodyIsNoAdapter
<1>6. AcceptingIsRoot'
  BY <1>1, <1>4 DEF RadioInv, AcceptingIsRoot, IsChild
<1> QED BY <1>3, <1>5, <1>6 DEF RadioInv

LEMMA LinkedPreserves ==
    ASSUME RadioInv, RadioTypeOK', NEW i \in Adapters, NEW host \in Adapters, NEW slot \in Slots,
           Linked(i, host, slot)
    PROVE  RadioInv'
<1>0. /\ ~IsChild(i) /\ host # i /\ ~IsChild(host)
      /\ port[host].children[slot] = Nobody /\ ~port'[i].accepting
      /\ \A a \in Adapters : port'[a].accepting => port[a].accepting
      /\ \A a \in Adapters : port[a] \in Port
  BY DEF Linked, RadioInv, RadioTypeOK
<1>1. ASSUME NEW a \in Adapters
      PROVE  /\ port'[a].parent = IF a = i THEN host ELSE port[a].parent
             /\ port'[a].slot = IF a = i THEN slot ELSE port[a].slot
             /\ \A s \in Slots : port'[a].children[s] =
                    IF a = host /\ s = slot THEN i ELSE port[a].children[s]
  <2>1. SameLinks(port'[a], Joined(i, host, slot)[a])
    BY DEF Linked
  <2>2. /\ Joined(i, host, slot)[a].parent = IF a = i THEN host ELSE port[a].parent
        /\ Joined(i, host, slot)[a].slot = IF a = i THEN slot ELSE port[a].slot
        /\ \A s \in Slots : Joined(i, host, slot)[a].children[s] =
                    IF a = host /\ s = slot THEN i ELSE port[a].children[s]
    <3>0. port \in [Adapters -> Port]
      BY DEF RadioInv, RadioTypeOK
    <3> DEFINE me == [port[i] EXCEPT !.parent = host, !.slot = slot, !.hosting = FALSE,
                                     !.accepting = FALSE, !.searching = FALSE]
               he == [port[host] EXCEPT !.children[slot] = i]
    <3>1. /\ me.parent = host /\ me.slot = slot /\ me.children = port[i].children
          /\ he.parent = port[host].parent /\ he.slot = port[host].slot
          /\ \A s \in Slots : he.children[s] = IF s = slot THEN i ELSE port[host].children[s]
      BY <1>0 DEF Port
    <3>2. Joined(i, host, slot)[a] = IF a = host THEN he ELSE IF a = i THEN me ELSE port[a]
      BY <1>0, <3>0 DEF Joined
    <3> HIDE DEF me, he
    <3> QED BY <1>0, <3>1, <3>2
  <2> QED BY <2>1, <2>2 DEF SameLinks
<1>2. ASSUME NEW a \in Adapters, NEW c \in Adapters, NEW s \in Slots
      PROVE  port'[a].children[s] = c <=> (port'[c].parent = a /\ port'[c].slot = s)
  <2>1. port[a].children[s] = c <=> (port[c].parent = a /\ port[c].slot = s)
    BY DEF RadioInv, AssociationsAgree
  <2>2. port[i].parent = Nobody
    BY <1>0 DEF IsChild
  <2>3. c # i => ~(port[c].parent = host /\ port[c].slot = slot)
    BY <1>0, NobodyIsNoAdapter DEF RadioInv, AssociationsAgree
  <2>4. port[a].children[s] # i
    BY <2>2, NobodyIsNoAdapter DEF RadioInv, AssociationsAgree
  <2> QED BY <1>1, <2>1, <2>3, <2>4
<1>3. AssociationsAgree'
  <2>1. \A a \in Adapters : port[a].slot \in IF IsChild(a) THEN Slots ELSE {NoSlot}
    BY DEF RadioInv, AssociationsAgree
  <2>2. \A a \in Adapters : port'[a].slot \in (IF IsChild(a) THEN Slots ELSE {NoSlot})'
    BY <1>1, <2>1, NobodyIsNoAdapter DEF IsChild
  <2> QED BY <1>2, <2>2 DEF AssociationsAgree
<1>4. NoCycle'
  <2> SUFFICES ASSUME NEW group \in SUBSET Adapters, group # {}
               PROVE  \E a \in group : port'[a].parent \notin group
    BY DEF NoCycle
  <2>1. PICK a \in group : port[a].parent \notin group
    BY DEF RadioInv, NoCycle
  <2>2. CASE host \in group
    BY <1>0, <1>1, <2>2, NobodyIsNoAdapter DEF IsChild
  <2>3. CASE host \notin group
    BY <1>1, <2>1, <2>3
  <2> QED BY <2>2, <2>3
<1>5. AcceptingIsRoot'
  BY <1>0, <1>1 DEF RadioInv, AcceptingIsRoot, IsChild
<1> QED BY <1>3, <1>4, <1>5 DEF RadioInv

-----------------------------------------------------------------------------
(* A step that rewrites the port of one adapter, or cuts and rewrites it. *)

LEMMA RewriteStep ==
    ASSUME RadioInv, NEW i \in Adapters, NEW q \in Port, SameLinks(q, port[i]),
           q.accepting => port[i].accepting \/ ~IsChild(i),
           Becomes([port EXCEPT ![i] = q])
    PROVE  RadioInv'
<1>1. port \in [Adapters -> Port] /\ present \subseteq Adapters
  BY DEF RadioInv, RadioTypeOK
<1>2. RadioTypeOK' /\ \A a \in Adapters : port'[a] = IF a = i THEN q ELSE port[a]
  BY <1>1 DEF Becomes, RadioTypeOK
<1>3. Kept
  BY <1>2 DEF Kept, SameLinks
<1> QED BY <1>2, <1>3, KeptPreserves

LEMMA CutStep ==
    ASSUME RadioInv, NEW i \in Adapters, NEW mask \in SUBSET Slots, NEW q \in Port,
           SameLinks(q, Disconnected(i, mask)[i]), q.accepting => port[i].accepting,
           port' = [Disconnected(i, mask) EXCEPT ![i] = q], present' \subseteq Adapters
    PROVE  RadioInv'
<1>1. Disconnected(i, mask) \in [Adapters -> Port]
  BY DisconnectedType
<1>2. RadioTypeOK' /\ \A a \in Adapters : port'[a] = IF a = i THEN q ELSE Disconnected(i, mask)[a]
  BY <1>1 DEF RadioTypeOK
<1>3. \A a \in Adapters : Disconnected(i, mask)[a].accepting = port[a].accepting
  BY DisconnectedLinks
<1>4. Cut(i, mask)
  BY <1>2, <1>3 DEF Cut, SameLinks
<1> QED BY <1>2, <1>4, CutPreserves

(* A reset port has no links, and neither has it after a full disconnect. *)
LEMMA ResetStep ==
    ASSUME RadioInv, NEW i \in Adapters, port' = WasReset(i), present' \subseteq Adapters
    PROVE  RadioInv'
<1> DEFINE d == Disconnected(i, Slots)[i]
<1>1. Gone(i, i, Slots) <=> IsChild(i)
  BY NoSelfParent DEF RadioInv, AssociationsAgree, Gone, Leaves
<1>2. d \in Port
  BY DisconnectedType
<1>3. port[i].slot = NoSlot \/ IsChild(i)
  BY DEF RadioInv, AssociationsAgree
<1>4. d.parent = Nobody /\ d.slot = NoSlot
  BY <1>1, <1>3, DisconnectedLinks DEF IsChild
<1>5. d = Parted(i, Slots) /\ RadioTypeOK
  BY DEF Disconnected, RadioInv
<1> HIDE DEF d
<1>6. d.children = [s \in Slots |-> IF s \in Slots THEN Nobody ELSE port[i].children[s]]
  BY <1>5, PartedPort
<1>7. d.children = [s \in Slots |-> Nobody]
  BY <1>6
<1>8. SameLinks(NewPort, d) /\ ~NewPort.accepting
  BY <1>4, <1>7 DEF SameLinks, NewPort
<1>9. port' = [Disconnected(i, Slots) EXCEPT ![i] = NewPort]
  BY DEF WasReset
<1> QED BY <1>8, <1>9, NewPortType, CutStep DEF d

-----------------------------------------------------------------------------
(* The actions, by what they do to the table. *)

LEMMA RoleCommands ==
    ASSUME RadioInv, NEW i \in Adapters,
           Broadcast(i) \/ Setup(i) \/ StartHost(i) \/ CloseHost(i) \/ StartSearch(i) \/ EndSearch(i)
    PROVE  RadioInv'
<1>0. port \in [Adapters -> Port] /\ port[i] \in Port
  BY DEF RadioInv, RadioTypeOK
<1>1. CASE Broadcast(i)
  <2> DEFINE q == [port[i] EXCEPT !.advertised = TRUE]
  <2>1. q \in Port /\ SameLinks(q, port[i]) /\ q.accepting = port[i].accepting
    BY <1>0 DEF Port, SameLinks
  <2>2. Becomes([port EXCEPT ![i] = q])
    BY <1>1 DEF Broadcast
  <2> QED BY <2>1, <2>2, RewriteStep
<1>2. CASE Setup(i)
  <2>1. PICK setup \in Setups :
          Becomes([port EXCEPT ![i].room = 4 - setup.closed, ![i].timed = setup.timed])
    BY <1>2 DEF Setup
  <2> DEFINE q == [port[i] EXCEPT !.room = 4 - setup.closed, !.timed = setup.timed]
  <2>2. 4 - setup.closed \in 1 .. 4 /\ setup.timed \in BOOLEAN
    BY ProgramsAssumption
  <2>3. q \in Port /\ SameLinks(q, port[i]) /\ q.accepting = port[i].accepting
    BY <1>0, <2>2 DEF Port, SameLinks
  <2>4. Becomes([port EXCEPT ![i] = q])
    BY <1>0, <2>1
  <2> QED BY <2>3, <2>4, RewriteStep
<1>3. CASE StartHost(i)
  <2>1. Opened(port[i]) \in Port /\ SameLinks(Opened(port[i]), port[i])
    BY <1>0 DEF Opened, Port, SameLinks
  <2>2. Becomes([port EXCEPT ![i] = Opened(port[i])]) /\ ~IsChild(i)
    BY <1>3 DEF StartHost
  <2> QED BY <2>1, <2>2, RewriteStep
<1>4. CASE CloseHost(i)
  <2> DEFINE q == [port[i] EXCEPT !.accepting = FALSE]
  <2>1. q \in Port /\ SameLinks(q, port[i]) /\ ~q.accepting
    BY <1>0 DEF Port, SameLinks
  <2>2. Becomes([port EXCEPT ![i] = q])
    BY <1>4 DEF CloseHost
  <2> QED BY <2>1, <2>2, RewriteStep
<1>5. CASE StartSearch(i)
  <2> DEFINE q == [port[i] EXCEPT !.searching = TRUE, !.accepting = FALSE]
  <2>1. q \in Port /\ SameLinks(q, port[i]) /\ ~q.accepting
    BY <1>0 DEF Port, SameLinks
  <2>2. Becomes([port EXCEPT ![i] = q])
    BY <1>0, <1>5 DEF StartSearch
  <2> QED BY <2>1, <2>2, RewriteStep
<1>6. CASE EndSearch(i)
  <2> DEFINE q == [port[i] EXCEPT !.searching = FALSE]
  <2>1. q \in Port /\ SameLinks(q, port[i]) /\ q.accepting = port[i].accepting
    BY <1>0 DEF Port, SameLinks
  <2>2. Becomes([port EXCEPT ![i] = q])
    BY <1>6 DEF EndSearch
  <2> QED BY <2>1, <2>2, RewriteStep
<1> QED BY <1>1, <1>2, <1>3, <1>4, <1>5, <1>6

LEMMA PayloadCommands ==
    ASSUME RadioInv, NEW i \in Adapters,
           Receive(i) \/ Wait(i) \/ Resend(i) \/ \E size \in Sizes : Send(i, size)
    PROVE  RadioInv'
<1>0. port \in [Adapters -> Port] /\ port[i] \in Port
  BY DEF RadioInv, RadioTypeOK
<1>1. CASE Receive(i)
  <2> DEFINE q == [port[i] EXCEPT !.parentRx = 0]
             r == [port[i] EXCEPT !.childRx = [s \in Slots |-> 0]]
  <2>1. /\ q \in Port /\ SameLinks(q, port[i]) /\ q.accepting = port[i].accepting
        /\ r \in Port /\ SameLinks(r, port[i]) /\ r.accepting = port[i].accepting
    BY <1>0 DEF Port, SameLinks, HostLimit
  <2>2. Becomes([port EXCEPT ![i] = q]) \/ Becomes([port EXCEPT ![i] = r])
    BY <1>1 DEF Receive
  <2> HIDE DEF q, r
  <2>3. CASE Becomes([port EXCEPT ![i] = q])
    BY <2>1, <2>3, RewriteStep
  <2>4. CASE Becomes([port EXCEPT ![i] = r])
    BY <2>1, <2>4, RewriteStep
  <2> QED BY <2>2, <2>3, <2>4
<1>2. CASE Wait(i)
  <2>1. Becomes([port EXCEPT ![i] = Waiting(port[i])])
    BY <1>2 DEF Wait
  <2> QED BY <1>0, <2>1, WaitingPort, RewriteStep
<1>3. CASE Resend(i)
  <2> DEFINE q == [port[i] EXCEPT !.radio = TRUE]
  <2>1. q \in Port /\ SameLinks(q, port[i]) /\ q.accepting = port[i].accepting
    BY <1>0 DEF Port, SameLinks
  <2>2. Becomes([port EXCEPT ![i] = Waiting(q)])
    BY <1>3 DEF Resend
  <2> HIDE DEF q
  <2>3. /\ Waiting(q) \in Port /\ SameLinks(Waiting(q), port[i])
        /\ Waiting(q).accepting = port[i].accepting
    BY <2>1, WaitingPort DEF SameLinks
  <2> QED BY <2>2, <2>3, RewriteStep
<1>4. ASSUME NEW size \in Sizes, Send(i, size)
      PROVE  RadioInv'
  <2> DEFINE q == Sent(port[i], size)
  <2>1. size \in 0 .. HostLimit
    BY <1>4, ProgramsAssumption DEF Send, ChildLimit, HostLimit
  <2>2. q \in Port /\ SameLinks(q, port[i]) /\ q.accepting = port[i].accepting
    BY <1>0, <2>1, SentPort
  <2>3. Becomes([port EXCEPT ![i] = q]) \/ Becomes([port EXCEPT ![i] = Waiting(q)])
    BY <1>4 DEF Send
  <2> HIDE DEF q
  <2>4. /\ Waiting(q) \in Port /\ SameLinks(Waiting(q), port[i])
        /\ Waiting(q).accepting = port[i].accepting
    BY <2>2, WaitingPort DEF SameLinks
  <2>5. CASE Becomes([port EXCEPT ![i] = q])
    BY <2>2, <2>5, RewriteStep
  <2>6. CASE Becomes([port EXCEPT ![i] = Waiting(q)])
    BY <2>4, <2>6, RewriteStep
  <2> QED BY <2>3, <2>5, <2>6
<1> QED BY <1>1, <1>2, <1>3, <1>4

LEMMA LeavingCommands ==
    ASSUME RadioInv, NEW i \in Adapters,
           StopHost(i) \/ Sleep(i) \/ \E mask \in SUBSET Slots : Disconnect(i, mask)
    PROVE  RadioInv'
<1>0. present \subseteq Adapters
  BY DEF RadioInv, RadioTypeOK
<1>1. \A mask \in SUBSET Slots :
          /\ Disconnected(i, mask) \in [Adapters -> Port]
          /\ Disconnected(i, mask)[i].accepting = port[i].accepting
  BY DisconnectedType, DisconnectedLinks
<1> DEFINE d == Disconnected(i, Slots)[i]
<1>2. d \in Port /\ Stopped(d) \in Port /\ SameLinks(Stopped(d), d) /\ ~Stopped(d).accepting
  BY <1>1, StoppedPort
<1> HIDE DEF d
<1>3. CASE StopHost(i)
  <2>1. port' = [Disconnected(i, Slots) EXCEPT ![i] = Stopped(d)] /\ present' = present
    BY <1>1, <1>3 DEF StopHost, Becomes, d
  <2> QED BY <1>0, <1>2, <2>1, CutStep DEF d
<1>4. CASE Sleep(i)
  <2> DEFINE q == [Stopped(d) EXCEPT !.asleep = TRUE, !.waits = "no", !.notice = "none",
                                  !.txPending = FALSE, !.radio = FALSE]
  <2>1. q \in Port /\ SameLinks(q, d) /\ ~q.accepting
    BY <1>2 DEF Port, SameLinks, Waits
  <2>2. port' = [Disconnected(i, Slots) EXCEPT ![i] = q] /\ present' = present
    BY <1>1, <1>4 DEF Sleep, Becomes, d
  <2> QED BY <1>0, <2>1, <2>2, CutStep DEF d
<1>5. ASSUME NEW mask \in SUBSET Slots, Disconnect(i, mask)
      PROVE  RadioInv'
  <2> DEFINE q == Disconnected(i, mask)[i]
  <2>1. q \in Port /\ SameLinks(q, q) /\ q.accepting = port[i].accepting
    BY <1>1 DEF SameLinks
  <2>2. port' = [Disconnected(i, mask) EXCEPT ![i] = q] /\ present' = present
    BY <1>1, <1>5 DEF Disconnect, Becomes
  <2> QED BY <1>0, <2>1, <2>2, CutStep
<1> QED BY <1>3, <1>4, <1>5

LEMMA ConnectCommand ==
    ASSUME RadioInv, NEW i \in Adapters, NEW host \in Adapters, Connect(i, host)
    PROVE  RadioInv'
<1>1. PICK slot \in FreeSlots(host) : Becomes(Joined(i, host, slot))
  BY DEF Connect
<1>2. /\ slot \in Slots /\ port[host].children[slot] = Nobody /\ port[host].accepting
      /\ ~IsChild(i) /\ host # i
  BY DEF FreeSlots, Connect, MayConnect
<1>3. ~IsChild(host)
  BY <1>2 DEF RadioInv, AcceptingIsRoot
<1>4. port \in [Adapters -> Port] /\ port[i] \in Port /\ port[host] \in Port
  BY DEF RadioInv, RadioTypeOK
<1> DEFINE me == [port[i] EXCEPT !.parent = host, !.slot = slot, !.hosting = FALSE,
                                 !.accepting = FALSE, !.searching = FALSE]
           he == [port[host] EXCEPT !.children[slot] = i]
<1>5. /\ me \in Port /\ ~me.accepting
      /\ he \in Port /\ he.accepting = port[host].accepting
  <2>1. me \in Port /\ ~me.accepting
    <3>1. \A p \in Port, h \in Adapters \cup {Nobody}, k \in Slots \cup {NoSlot} :
             LET q == [p EXCEPT !.parent = h, !.slot = k, !.hosting = FALSE,
                                !.accepting = FALSE, !.searching = FALSE]
             IN  q \in Port /\ ~q.accepting
      BY ZenonT(120) DEF Port
    <3> QED BY <1>2, <1>4, <3>1
  <2> DEFINE kids == [port[host].children EXCEPT ![slot] = i]
  <2>2. kids \in [Slots -> Adapters \cup {Nobody}]
    BY <1>2, <1>4 DEF Port
  <2>3. he = [port[host] EXCEPT !.children = kids]
    BY <1>4 DEF Port
  <2> HIDE DEF kids
  <2>4. he \in Port /\ he.accepting = port[host].accepting
    BY <1>4, <2>2, <2>3 DEF Port
  <2> QED BY <2>1, <2>4
<1>6. Joined(i, host, slot) = [port EXCEPT ![i] = me, ![host] = he]
  BY <1>2, <1>4 DEF Joined
<1> HIDE DEF me, he
<1>7. /\ RadioTypeOK' /\ port' = Joined(i, host, slot) /\ ~port'[i].accepting
      /\ \A a \in Adapters : port'[a].accepting => port[a].accepting
  <2>1. port' = [port EXCEPT ![i] = me, ![host] = he] /\ present' = present
    BY <1>1, <1>6 DEF Becomes
  <2>2. RadioTypeOK'
    BY <1>4, <1>5, <2>1 DEF RadioTypeOK, RadioInv
  <2>3. \A a \in Adapters : port'[a] = IF a = host THEN he ELSE IF a = i THEN me ELSE port[a]
    BY <1>4, <2>1
  <2> QED BY <1>2, <1>5, <1>6, <2>1, <2>2, <2>3
<1>8. Linked(i, host, slot)
  BY <1>2, <1>3, <1>7 DEF Linked, SameLinks
<1> QED BY <1>2, <1>7, <1>8, LinkedPreserves

LEMMA ServedType ==
    ASSUME RadioInv, NEW i \in Adapters
    PROVE  \A a \in Adapters :
              /\ Served(i)[a] \in Port
              /\ SameLinks(Served(i)[a], port[a])
              /\ Served(i)[a].accepting = port[a].accepting
<1>0. /\ port \in [Adapters -> Port]
      /\ \A a \in Adapters : port[a] \in Port /\ port[a].txSize \in 0 .. HostLimit
  BY DEF RadioInv, RadioTypeOK, Port
<1> DEFINE me == [port[i] EXCEPT !.txPending = FALSE, !.childRx = Collected(i)]
<1>1. Collected(i) \in [Slots -> 0 .. HostLimit]
  <2> SUFFICES ASSUME NEW s \in Slots
               PROVE  Collected(i)[s] \in 0 .. HostLimit
    BY DEF Collected
  <2>1. port[i].childRx[s] \in 0 .. HostLimit
    BY <1>0 DEF Port
  <2>2. port[i].children[s] \in Adapters \cup {Nobody}
    BY <1>0 DEF Port
  <2>3. s \in Taken(i) => port[i].children[s] \in Adapters
    BY <2>2 DEF Taken
  <2> QED BY <1>0, <2>1, <2>3 DEF Collected
<1>2. me \in Port /\ SameLinks(me, port[i]) /\ me.accepting = port[i].accepting
  BY ZenonT(120), <1>0, <1>1 DEF Port, SameLinks
<1> HIDE DEF me
<1>3. /\ Noticed(me, "data") \in Port /\ SameLinks(Noticed(me, "data"), port[i])
      /\ Noticed(me, "data").accepting = port[i].accepting
  BY <1>2, NoticedPort DEF Notices, SameLinks
<1>4. ASSUME NEW a \in Adapters
      PROVE  \/ Served(i)[a] = Heard(port[a], port[i].txSize)
             \/ Served(i)[a] = port[a]
             \/ a = i /\ Served(i)[a] = Noticed(me, "data")
  <2>1. a = i => Served(i)[a] = Noticed(me, "data")
    BY DEF Served, me
  <2>2. a # i => Served(i)[a] \in {Heard(port[a], port[i].txSize), port[a]}
    BY DEF Served
  <2> QED BY <2>1, <2>2
<1>5. ASSUME NEW a \in Adapters
      PROVE  /\ Heard(port[a], port[i].txSize) \in Port
             /\ SameLinks(Heard(port[a], port[i].txSize), port[a])
             /\ Heard(port[a], port[i].txSize).accepting = port[a].accepting
  BY <1>0, HeardPort
<1> QED BY <1>0, <1>3, <1>4, <1>5 DEF SameLinks

LEMMA RadioPreserves ==
    ASSUME RadioInv, NEW i \in Adapters, Radio(i)
    PROVE  RadioInv'
<1>0. port \in [Adapters -> Port] /\ present \subseteq Adapters
  BY DEF RadioInv, RadioTypeOK
<1> DEFINE t == IF port[i].hosting THEN Served(i) ELSE port
           q == [t[i] EXCEPT !.radio = FALSE]
<1>1. t \in [Adapters -> Port]
  BY <1>0, ServedType DEF Served
<1>2. \A a \in Adapters : SameLinks(t[a], port[a]) /\ t[a].accepting = port[a].accepting
  BY <1>0, ServedType DEF SameLinks
<1>3. port' = [t EXCEPT ![i] = [t[i] EXCEPT !.radio = FALSE]] /\ present' = present
  BY DEF Radio, Becomes
<1> HIDE DEF t
<1>4. q \in Port /\ SameLinks(q, t[i]) /\ q.accepting = t[i].accepting
  <2>1. \A p \in Port : /\ [p EXCEPT !.radio = FALSE] \in Port
                        /\ SameLinks([p EXCEPT !.radio = FALSE], p)
                        /\ [p EXCEPT !.radio = FALSE].accepting = p.accepting
    BY ZenonT(30) DEF Port, SameLinks
  <2>2. t[i] \in Port
    BY <1>1
  <2> QED BY <2>1, <2>2
<1> HIDE DEF q
<1>5. RadioTypeOK' /\ \A a \in Adapters : port'[a] = IF a = i THEN q ELSE t[a]
  BY <1>0, <1>1, <1>3, <1>4 DEF RadioTypeOK, q
<1>6. Kept
  BY <1>2, <1>4, <1>5 DEF Kept, SameLinks
<1> QED BY <1>5, <1>6, KeptPreserves

LEMMA NoticePreserves ==
    ASSUME RadioInv, NEW i \in Adapters, Timeout(i) \/ ReadNotice(i)
    PROVE  RadioInv'
<1>0. port \in [Adapters -> Port] /\ port[i] \in Port
  BY DEF RadioInv, RadioTypeOK
<1>1. CASE Timeout(i)
  <2>1. Becomes([port EXCEPT ![i] = Noticed(port[i], "timeout")])
    BY <1>1 DEF Timeout
  <2> QED BY <1>0, <2>1, NoticedPort, RewriteStep DEF Notices
<1>2. CASE ReadNotice(i)
  <2> DEFINE q == [port[i] EXCEPT !.waits = "no", !.notice = "none"]
  <2>1. q \in Port /\ SameLinks(q, port[i]) /\ q.accepting = port[i].accepting
    BY <1>0 DEF Port, SameLinks, Waits
  <2>2. Becomes([port EXCEPT ![i] = q])
    BY <1>0, <1>2 DEF ReadNotice
  <2> QED BY <2>1, <2>2, RewriteStep
<1> QED BY <1>1, <1>2

LEMMA PlugPreserves ==
    ASSUME RadioInv, NEW i \in Adapters, Reset(i) \/ PlugAdapter(i)
    PROVE  RadioInv'
<1>0. port \in [Adapters -> Port] /\ present \subseteq Adapters
  BY DEF RadioInv, RadioTypeOK
<1>1. CASE port' = WasReset(i) /\ present' \subseteq Adapters
  BY <1>1, ResetStep
<1>2. CASE UNCHANGED port /\ present' \subseteq Adapters
  <2>1. RadioTypeOK' /\ Kept
    BY <1>0, <1>2 DEF RadioTypeOK, Kept, SameLinks
  <2> QED BY <2>1, KeptPreserves
<1>3. \/ port' = WasReset(i) /\ present' \subseteq Adapters
      \/ UNCHANGED port /\ present' \subseteq Adapters
  BY <1>0 DEF Reset, PlugAdapter, Becomes
<1> QED BY <1>1, <1>2, <1>3

LEMMA RadioInvInit == RadioInit => RadioInv
<1> SUFFICES ASSUME RadioInit PROVE RadioInv
  OBVIOUS
<1>1. \A a \in Adapters : port[a] = NewPort
  BY DEF RadioInit
<1>2. \A a \in Adapters : /\ port[a].parent = Nobody /\ port[a].slot = NoSlot
                          /\ ~port[a].accepting
                          /\ \A s \in Slots : port[a].children[s] = Nobody
  BY <1>1 DEF NewPort
<1>3. RadioTypeOK
  BY NewPortType DEF RadioInit, RadioTypeOK
<1>4. AssociationsAgree
  BY <1>2, NobodyIsNoAdapter DEF AssociationsAgree, IsChild
<1>5. NoCycle
  BY <1>2, NobodyIsNoAdapter DEF NoCycle
<1>6. AcceptingIsRoot
  BY <1>2 DEF AcceptingIsRoot
<1> QED BY <1>3, <1>4, <1>5, <1>6 DEF RadioInv

LEMMA RadioInvNext == RadioInv /\ [RadioNext]_radioVars => RadioInv'
<1> SUFFICES ASSUME RadioInv, [RadioNext]_radioVars PROVE RadioInv'
  OBVIOUS
<1>1. CASE UNCHANGED radioVars
  <2>1. RadioTypeOK' /\ Kept
    BY <1>1 DEF radioVars, RadioInv, RadioTypeOK, Kept, SameLinks
  <2> QED BY <2>1, KeptPreserves
<1>2. ASSUME NEW i \in Adapters, Command(i)
      PROVE  RadioInv'
  <2>0. Masks \subseteq SUBSET Slots
    BY ProgramsAssumption
  <2>1. \/ Broadcast(i) \/ Setup(i) \/ StartHost(i) \/ CloseHost(i) \/ StartSearch(i) \/ EndSearch(i)
        \/ Receive(i) \/ Wait(i) \/ Resend(i) \/ (\E size \in Sizes : Send(i, size))
        \/ StopHost(i) \/ Sleep(i) \/ (\E mask \in SUBSET Slots : Disconnect(i, mask))
        \/ (\E host \in Adapters : Connect(i, host))
    BY <1>2, <2>0, Zenon DEF Command
  <2> QED BY <2>1, RoleCommands, PayloadCommands, LeavingCommands, ConnectCommand
<1>3. CASE RadioNext
  <2>1. PICK i \in Adapters :
            Command(i) \/ Radio(i) \/ Timeout(i) \/ ReadNotice(i) \/ Reset(i) \/ PlugAdapter(i)
    BY <1>3, Zenon DEF RadioNext
  <2> QED BY <1>2, <2>1, RadioPreserves, NoticePreserves, PlugPreserves
<1> QED BY <1>1, <1>3

-----------------------------------------------------------------------------
(* Every association is kept alike at both of its ends, in every reachable
   state: disconnect(), reset() and the commands never leave half of one. *)
THEOREM Associations == RadioSpec => []AssociationsAgree
<1>1. RadioInv => AssociationsAgree
  BY DEF RadioInv
<1> QED BY <1>1, RadioInvInit, RadioInvNext, PTL DEF RadioSpec

(* No adapter is, through any number of hosts, its own parent, though a host
   may join another without leaving its children. *)
THEOREM Acyclic == RadioSpec => []NoCycle
<1>1. RadioInv => NoCycle
  BY DEF RadioInv
<1> QED BY <1>1, RadioInvInit, RadioInvNext, PTL DEF RadioSpec

(* The table has its type. *)
THEOREM RadioTypes == RadioSpec => []RadioTypeOK
<1>1. RadioInv => RadioTypeOK
  BY DEF RadioInv
<1> QED BY <1>1, RadioInvInit, RadioInvNext, PTL DEF RadioSpec

-----------------------------------------------------------------------------
(* What a step takes from others.                                            *)

(* Who hosts has no parent: 0x19 refuses a child, and 0x1f ends hosting.  So a
   host that clears its own tx_pending loses no child's payload. *)
HostIsRoot == \A i \in Adapters : port[i].hosting => ~IsChild(i)

(* The two ways a child's payload may go. *)
Delivered(a) ==
    \/ port'[a].parent = Nobody
    \/ port'[port[a].parent].childRx[port[a].slot] = port[a].txSize

(* A step of adapter i: whoever else it parts from a parent has a notice, it
   makes no child a host, and what a child had to send is not lost. *)
Honest(i) ==
    \A a \in Adapters :
        /\ a # i /\ IsChild(a) /\ port'[a].parent = Nobody => port'[a].notice # "none"
        /\ port'[a].hosting => /\ port[a].hosting \/ ~IsChild(a)
                               /\ port'[a].parent \in {port[a].parent, Nobody}
        /\ IsChild(a) /\ port[a].txPending /\ ~port'[a].txPending => Delivered(a)

SameParents == \A a \in Adapters : port'[a].parent = port[a].parent

(* Only the port of i changes. *)
LEMMA HonestRewrite ==
    ASSUME RadioInv, NEW i \in Adapters, NEW q, port' = [port EXCEPT ![i] = q],
           q.parent = port[i].parent,
           q.hosting => port[i].hosting \/ ~IsChild(i),
           IsChild(i) /\ port[i].txPending => q.txPending
    PROVE  Honest(i) /\ SameParents
<1>1. \A a \in Adapters : port'[a] = IF a = i THEN q ELSE port[a]
  BY DEF RadioInv, RadioTypeOK
<1> QED BY <1>1 DEF Honest, SameParents, IsChild

(* The fields of one port these properties are about. *)
SameRole(p, q) ==
    p.parent = q.parent /\ p.hosting = q.hosting /\ p.txPending = q.txPending

LEMMA PortRoles ==
    ASSUME NEW p \in Port
    PROVE  /\ \A what \in Notices : /\ SameRole(Noticed(p, what), p)
                                    /\ Noticed(p, what).notice # "none"
                                    /\ Noticed(p, what).childRx = p.childRx
           /\ SameRole(Waiting(p), p)
           /\ \A size \in 0 .. HostLimit : /\ Sent(p, size).parent = p.parent
                                           /\ Sent(p, size).hosting = p.hosting
                                           /\ Sent(p, size).txPending
           /\ \A size \in 0 .. HostLimit : Heard(p, size).parent = p.parent
                                           /\ Heard(p, size).hosting = p.hosting
           /\ Stopped(p).parent = p.parent /\ ~Stopped(p).hosting /\ Stopped(p).txPending = p.txPending
           /\ Orphaned(p).hosting = p.hosting /\ Orphaned(p).parent = Nobody
<1>1. \A what \in Notices : /\ SameRole(Noticed(p, what), p)
                            /\ Noticed(p, what).notice # "none"
                            /\ Noticed(p, what).childRx = p.childRx
  BY DEF Noticed, Port, Notices, SameRole
<1>2. SameRole(Waiting(p), p)
  BY DEF Waiting, Port, SameRole
<1>3. \A size \in 0 .. HostLimit : /\ Sent(p, size).parent = p.parent
                                   /\ Sent(p, size).hosting = p.hosting
                                   /\ Sent(p, size).txPending
  BY DEF Sent, Port
<1>4. ASSUME NEW size \in 0 .. HostLimit
      PROVE  Heard(p, size).parent = p.parent /\ Heard(p, size).hosting = p.hosting
  <2> DEFINE told == IF size > 0 THEN Noticed([p EXCEPT !.parentRx = size], "data") ELSE p
  <2>1. /\ [p EXCEPT !.parentRx = size] \in Port
        /\ SameRole([p EXCEPT !.parentRx = size], p)
    BY DEF Port, SameRole
  <2>2. told \in Port
    BY <2>1, NoticedPort DEF Notices
  <2>3. told.parent = p.parent /\ told.hosting = p.hosting
    BY <2>1 DEF Noticed, Port, SameRole
  <2> HIDE DEF told
  <2>4. /\ [told EXCEPT !.txPending = FALSE].parent = told.parent
        /\ [told EXCEPT !.txPending = FALSE].hosting = told.hosting
    BY <2>2 DEF Port
  <2> QED BY <2>3, <2>4 DEF Heard, told
<1>5. Stopped(p).parent = p.parent /\ ~Stopped(p).hosting /\ Stopped(p).txPending = p.txPending
  BY DEF Stopped, Port
<1>6. Orphaned(p).hosting = p.hosting /\ Orphaned(p).parent = Nobody
  BY DEF Orphaned, Port
<1> QED BY <1>1, <1>2, <1>3, <1>4, <1>5, <1>6

LEMMA HonestSameRole ==
    ASSUME RadioInv, HostIsRoot, NEW i \in Adapters, NEW q,
           port' = [port EXCEPT ![i] = q], SameRole(q, port[i])
    PROVE  Honest(i) /\ SameParents
BY HonestRewrite DEF SameRole

LEMMA HonestRoles ==
    ASSUME RadioInv, HostIsRoot, NEW i \in Adapters,
           \/ Broadcast(i) \/ Setup(i) \/ StartHost(i) \/ CloseHost(i)
           \/ StartSearch(i) \/ EndSearch(i)
    PROVE  Honest(i)
<1>0. port \in [Adapters -> Port] /\ port[i] \in Port
  BY DEF RadioInv, RadioTypeOK
<1>1. CASE Broadcast(i)
  <2> DEFINE q == [port[i] EXCEPT !.advertised = TRUE]
  <2>1. port' = [port EXCEPT ![i] = q]
    BY <1>0, <1>1 DEF Broadcast, Becomes
  <2>2. SameRole(q, port[i])
    BY <1>0 DEF SameRole, Port
  <2> HIDE DEF q
  <2> QED BY <2>1, <2>2, HonestSameRole
<1>2. CASE CloseHost(i)
  <2> DEFINE q == [port[i] EXCEPT !.accepting = FALSE]
  <2>1. port' = [port EXCEPT ![i] = q]
    BY <1>0, <1>2 DEF CloseHost, Becomes
  <2>2. SameRole(q, port[i])
    BY <1>0 DEF SameRole, Port
  <2> HIDE DEF q
  <2> QED BY <2>1, <2>2, HonestSameRole
<1>3. CASE StartSearch(i)
  <2> DEFINE q == [port[i] EXCEPT !.searching = TRUE, !.accepting = FALSE]
  <2>1. port' = [port EXCEPT ![i] = q]
    BY <1>0, <1>3 DEF StartSearch, Becomes
  <2>2. SameRole(q, port[i])
    BY <1>0 DEF SameRole, Port
  <2> HIDE DEF q
  <2> QED BY <2>1, <2>2, HonestSameRole
<1>4. CASE EndSearch(i)
  <2> DEFINE q == [port[i] EXCEPT !.searching = FALSE]
  <2>1. port' = [port EXCEPT ![i] = q]
    BY <1>0, <1>4 DEF EndSearch, Becomes
  <2>2. SameRole(q, port[i])
    BY <1>0 DEF SameRole, Port
  <2> HIDE DEF q
  <2> QED BY <2>1, <2>2, HonestSameRole
<1>5. CASE Setup(i)
  <2>1. PICK setup \in Setups :
            Becomes([port EXCEPT ![i].room = 4 - setup.closed, ![i].timed = setup.timed])
    BY <1>5 DEF Setup
  <2> DEFINE q == [port[i] EXCEPT !.room = 4 - setup.closed, !.timed = setup.timed]
  <2>2. port' = [port EXCEPT ![i] = q]
    BY <1>0, <2>1 DEF Becomes
  <2>3. SameRole(q, port[i])
    BY <1>0 DEF SameRole, Port
  <2> HIDE DEF q
  <2> QED BY <2>2, <2>3, HonestSameRole
<1>6. CASE StartHost(i)
  <2> DEFINE q == Opened(port[i])
  <2>1. port' = [port EXCEPT ![i] = q] /\ ~IsChild(i)
    BY <1>0, <1>6 DEF StartHost, Becomes
  <2>2. q.parent = port[i].parent
    BY <1>0 DEF Opened, Port
  <2> HIDE DEF q
  <2> QED BY <2>1, <2>2, HonestRewrite
<1> QED BY <1>1, <1>2, <1>3, <1>4, <1>5, <1>6

LEMMA HonestPayloads ==
    ASSUME RadioInv, HostIsRoot, NEW i \in Adapters,
           Receive(i) \/ Wait(i) \/ Resend(i) \/ \E size \in Sizes : Send(i, size)
    PROVE  Honest(i)
<1>0. port \in [Adapters -> Port] /\ port[i] \in Port
  BY DEF RadioInv, RadioTypeOK
<1>1. CASE Receive(i)
  <2> DEFINE q == [port[i] EXCEPT !.parentRx = 0]
             r == [port[i] EXCEPT !.childRx = [s \in Slots |-> 0]]
  <2>1. port' = [port EXCEPT ![i] = q] \/ port' = [port EXCEPT ![i] = r]
    BY <1>0, <1>1 DEF Receive, Becomes
  <2>2. SameRole(q, port[i]) /\ SameRole(r, port[i])
    BY <1>0 DEF SameRole, Port
  <2> HIDE DEF q, r
  <2> QED BY <2>1, <2>2, HonestSameRole
<1>2. CASE Wait(i)
  <2>1. port' = [port EXCEPT ![i] = Waiting(port[i])]
    BY <1>0, <1>2 DEF Wait, Becomes
  <2>2. SameRole(Waiting(port[i]), port[i])
    BY <1>0, PortRoles
  <2> QED BY <2>1, <2>2, HonestSameRole
<1>3. CASE Resend(i)
  <2> DEFINE q == [port[i] EXCEPT !.radio = TRUE]
  <2>1. port' = [port EXCEPT ![i] = Waiting(q)]
    BY <1>0, <1>3 DEF Resend, Becomes
  <2>2. q \in Port /\ SameRole(q, port[i])
    BY <1>0 DEF Port, SameRole
  <2> HIDE DEF q
  <2>3. SameRole(Waiting(q), port[i])
    BY <2>2, PortRoles DEF SameRole
  <2> QED BY <2>1, <2>3, HonestSameRole
<1>4. ASSUME NEW size \in Sizes, Send(i, size)
      PROVE  Honest(i)
  <2> DEFINE q == Sent(port[i], size)
  <2>1. size \in 0 .. HostLimit
    BY <1>4, ProgramsAssumption DEF Send, ChildLimit, HostLimit
  <2>2. q \in Port /\ q.parent = port[i].parent /\ q.hosting = port[i].hosting /\ q.txPending
    BY <1>0, <2>1, SentPort, PortRoles
  <2>3. port' = [port EXCEPT ![i] = q] \/ port' = [port EXCEPT ![i] = Waiting(q)]
    BY <1>4 DEF Send, Becomes
  <2> HIDE DEF q
  <2>4. SameRole(Waiting(q), q)
    BY <2>2, PortRoles
  <2>5. CASE port' = [port EXCEPT ![i] = q]
    BY <2>2, <2>5, HonestRewrite
  <2>6. CASE port' = [port EXCEPT ![i] = Waiting(q)]
    BY <2>2, <2>4, <2>6, HonestRewrite DEF SameRole
  <2> QED BY <2>3, <2>5, <2>6
<1> QED BY <1>1, <1>2, <1>3, <1>4

LEMMA HonestNotices ==
    ASSUME RadioInv, HostIsRoot, NEW i \in Adapters, Timeout(i) \/ ReadNotice(i)
    PROVE  Honest(i) /\ SameParents
<1>0. port \in [Adapters -> Port] /\ port[i] \in Port
  BY DEF RadioInv, RadioTypeOK
<1>1. CASE Timeout(i)
  <2>1. port' = [port EXCEPT ![i] = Noticed(port[i], "timeout")]
    BY <1>0, <1>1 DEF Timeout, Becomes
  <2>2. SameRole(Noticed(port[i], "timeout"), port[i])
    BY <1>0, PortRoles DEF Notices
  <2> QED BY <2>1, <2>2, HonestRewrite DEF SameRole
<1>2. CASE ReadNotice(i)
  <2> DEFINE q == [port[i] EXCEPT !.waits = "no", !.notice = "none"]
  <2>1. port' = [port EXCEPT ![i] = q]
    BY <1>0, <1>2 DEF ReadNotice, Becomes
  <2>2. SameRole(q, port[i])
    BY <1>0 DEF SameRole, Port
  <2> HIDE DEF q
  <2> QED BY <2>1, <2>2, HonestRewrite DEF SameRole
<1> QED BY <1>1, <1>2

(* disconnect() tells everyone it drops, and takes nothing from the others. *)
LEMMA DisconnectedRoles ==
    ASSUME RadioInv, NEW i \in Adapters, NEW mask \in SUBSET Slots, NEW a \in Adapters
    PROVE  LET d == Disconnected(i, mask)[a]
           IN  /\ d.hosting = port[a].hosting
               /\ d.parent \in {port[a].parent, Nobody}
               /\ d.parent = Nobody \/ d.txPending = port[a].txPending
               /\ a # i /\ IsChild(a) /\ d.parent = Nobody => d.notice # "none"
<1> DEFINE d == Disconnected(i, mask)[a]
<1>0. RadioTypeOK /\ port[a] \in Port /\ port[i] \in Port
  BY DEF RadioInv, RadioTypeOK
<1>1. d.parent \in {port[a].parent, Nobody}
  BY DisconnectedLinks
<1>2. CASE a = i
  <2> DEFINE left == IF Leaves(i, mask) THEN Orphaned(port[i]) ELSE port[i]
             kids == [s \in Slots |-> IF s \in mask THEN Nobody ELSE left.children[s]]
             rx == [s \in Slots |-> IF s \in mask /\ left.children[s] # Nobody
                                    THEN 0 ELSE left.childRx[s]]
  <2>1. d = [left EXCEPT !.children = kids, !.childRx = rx]
    BY <1>2 DEF Disconnected, Parted
  <2>2. /\ left \in Port /\ left.hosting = port[i].hosting
        /\ left.parent = Nobody \/ left.txPending = port[i].txPending
    BY <1>0, OrphanedPort, PortRoles
  <2> HIDE DEF left, kids, rx, d
  <2>3. d.hosting = left.hosting /\ d.parent = left.parent /\ d.txPending = left.txPending
    BY <2>1, <2>2 DEF Port
  <2> QED BY <1>1, <1>2, <2>2, <2>3 DEF d
<1>3. CASE a \in Dropped(i, mask)
  <2>1. a # i /\ d = Noticed(Orphaned(port[a]), "dropped")
    BY <1>3 DEF Disconnected, Dropped
  <2>2. /\ Orphaned(port[a]) \in Port /\ Orphaned(port[a]).hosting = port[a].hosting
        /\ Orphaned(port[a]).parent = Nobody
    BY <1>0, OrphanedPort, PortRoles
  <2> HIDE DEF d
  <2>3. d.notice # "none" /\ SameRole(d, Orphaned(port[a]))
    BY <2>1, <2>2, PortRoles DEF Notices
  <2> QED BY <2>2, <2>3 DEF SameRole, d
<1>4. CASE a # i /\ a \notin Dropped(i, mask)
  <2>1. d = port[a] \/ d = [port[a] EXCEPT !.children[port[i].slot] = Nobody]
    BY <1>4 DEF Disconnected
  <2> HIDE DEF d
  <2>2. SameRole(d, port[a])
    BY <1>0, <2>1 DEF SameRole, Port
  <2> QED BY <1>4, <2>2 DEF SameRole, d, IsChild
<1> QED BY <1>2, <1>3, <1>4

LEMMA HonestCut ==
    ASSUME RadioInv, NEW i \in Adapters, NEW mask \in SUBSET Slots, NEW q,
           port' = [Disconnected(i, mask) EXCEPT ![i] = q],
           q.parent = Disconnected(i, mask)[i].parent,
           q.hosting => port[i].hosting,
           q.parent = Nobody \/ q.txPending = Disconnected(i, mask)[i].txPending
    PROVE  Honest(i)
<1>1. \A a \in Adapters : port'[a] = IF a = i THEN q ELSE Disconnected(i, mask)[a]
  BY DisconnectedType
<1> SUFFICES ASSUME NEW a \in Adapters
             PROVE  /\ a # i /\ IsChild(a) /\ port'[a].parent = Nobody => port'[a].notice # "none"
                    /\ port'[a].hosting => /\ port[a].hosting
                                           /\ port'[a].parent \in {port[a].parent, Nobody}
                    /\ port'[a].parent = Nobody \/ port'[a].txPending = port[a].txPending
  BY DEF Honest, Delivered
<1> DEFINE d == Disconnected(i, mask)[a]
<1>2. /\ d.hosting = port[a].hosting
      /\ d.parent \in {port[a].parent, Nobody}
      /\ d.parent = Nobody \/ d.txPending = port[a].txPending
      /\ a # i /\ IsChild(a) /\ d.parent = Nobody => d.notice # "none"
  BY DisconnectedRoles
<1> HIDE DEF d
<1>3. CASE a = i
  BY <1>1, <1>2, <1>3 DEF d
<1>4. CASE a # i
  BY <1>1, <1>2, <1>4 DEF d
<1> QED BY <1>3, <1>4

(* Who leaves in every slot has no parent left. *)
LEMMA AllLeft ==
    ASSUME RadioInv, NEW i \in Adapters
    PROVE  Disconnected(i, Slots)[i].parent = Nobody
<1>1. IsChild(i) => Leaves(i, Slots)
  BY DEF RadioInv, AssociationsAgree, Leaves
<1> QED BY <1>1, DisconnectedLinks DEF Gone, IsChild

LEMMA HonestLeaving ==
    ASSUME RadioInv, HostIsRoot, NEW i \in Adapters,
           StopHost(i) \/ Sleep(i) \/ \E mask \in SUBSET Slots : Disconnect(i, mask)
    PROVE  Honest(i)
<1>0. \A mask \in SUBSET Slots : Disconnected(i, mask) \in [Adapters -> Port]
  BY DisconnectedType
<1> DEFINE d == Disconnected(i, Slots)[i]
<1>1. d \in Port /\ Stopped(d) \in Port /\ d.parent = Nobody
  BY <1>0, StoppedPort, AllLeft
<1> HIDE DEF d
<1>2. Stopped(d).parent = Nobody /\ ~Stopped(d).hosting
  BY <1>1, PortRoles
<1>3. CASE StopHost(i)
  <2>1. port' = [Disconnected(i, Slots) EXCEPT ![i] = Stopped(d)]
    BY <1>0, <1>3 DEF StopHost, Becomes, d
  <2> QED BY <1>1, <1>2, <2>1, HonestCut DEF d
<1>4. CASE Sleep(i)
  <2> DEFINE q == [Stopped(d) EXCEPT !.asleep = TRUE, !.waits = "no", !.notice = "none",
                                  !.txPending = FALSE, !.radio = FALSE]
  <2>1. q.parent = Nobody /\ ~q.hosting
    BY <1>1, <1>2 DEF Port
  <2>2. port' = [Disconnected(i, Slots) EXCEPT ![i] = q]
    BY <1>0, <1>4 DEF Sleep, Becomes, d
  <2> HIDE DEF q
  <2> QED BY <1>1, <2>1, <2>2, HonestCut DEF d
<1>5. ASSUME NEW mask \in SUBSET Slots, Disconnect(i, mask)
      PROVE  Honest(i)
  <2> DEFINE q == Disconnected(i, mask)[i]
  <2>1. port' = [Disconnected(i, mask) EXCEPT ![i] = q] /\ q.hosting = port[i].hosting
    BY <1>0, <1>5, DisconnectedRoles DEF Disconnect, Becomes
  <2> QED BY <2>1, HonestCut
<1> QED BY <1>3, <1>4, <1>5

LEMMA HonestPlug ==
    ASSUME RadioInv, HostIsRoot, NEW i \in Adapters, Reset(i) \/ PlugAdapter(i)
    PROVE  Honest(i)
<1>1. CASE port' = WasReset(i)
  <2>1. NewPort.parent = Nobody /\ ~NewPort.hosting
    BY DEF NewPort
  <2> QED BY <1>1, <2>1, HonestCut, AllLeft DEF WasReset
<1>2. CASE UNCHANGED port
  BY <1>2 DEF Honest, IsChild
<1> QED BY <1>1, <1>2 DEF Reset, PlugAdapter, Becomes

LEMMA HonestConnect ==
    ASSUME RadioInv, HostIsRoot, NEW i \in Adapters, NEW host \in Adapters, Connect(i, host)
    PROVE  Honest(i)
<1>0. port \in [Adapters -> Port] /\ port[i] \in Port /\ port[host] \in Port
  BY DEF RadioInv, RadioTypeOK
<1>1. PICK slot \in Slots : port' = Joined(i, host, slot)
  BY DEF Connect, FreeSlots, Becomes
<1>2. ~IsChild(i) /\ host # i
  BY DEF Connect, MayConnect
<1> DEFINE me == [port[i] EXCEPT !.parent = host, !.slot = slot, !.hosting = FALSE,
                                 !.accepting = FALSE, !.searching = FALSE]
           he == [port[host] EXCEPT !.children[slot] = i]
<1>3. \A a \in Adapters : port'[a] = IF a = host THEN he ELSE IF a = i THEN me ELSE port[a]
  BY <1>0, <1>1, <1>2 DEF Joined
<1>4. ~me.hosting /\ SameRole(he, port[host])
  BY <1>0 DEF Port, SameRole
<1> HIDE DEF me, he
<1> QED BY <1>2, <1>3, <1>4 DEF Honest, SameRole, IsChild

(* The radio takes a payload from every child of the host and leaves the rest. *)
LEMMA HonestRadio ==
    ASSUME RadioInv, HostIsRoot, NEW i \in Adapters, Radio(i)
    PROVE  Honest(i) /\ SameParents
<1>0. /\ port \in [Adapters -> Port] /\ port[i] \in Port
      /\ \A a \in Adapters : port[a] \in Port /\ port[a].txSize \in 0 .. HostLimit
  BY DEF RadioInv, RadioTypeOK, Port
<1>1. CASE ~port[i].hosting
  <2> DEFINE q == [port[i] EXCEPT !.radio = FALSE]
  <2>1. port' = [port EXCEPT ![i] = q]
    BY <1>0, <1>1 DEF Radio, Becomes
  <2>2. SameRole(q, port[i])
    BY <1>0 DEF SameRole, Port
  <2> HIDE DEF q
  <2> QED BY <2>1, <2>2, HonestSameRole
<1>2. CASE port[i].hosting
  <2> DEFINE me == [port[i] EXCEPT !.txPending = FALSE, !.childRx = Collected(i)]
             q == [Noticed(me, "data") EXCEPT !.radio = FALSE]
  <2>1. port' = [Served(i) EXCEPT ![i] = [Served(i)[i] EXCEPT !.radio = FALSE]]
    BY <1>2 DEF Radio, Becomes
  <2>2. Served(i)[i] = Noticed(me, "data") /\ DOMAIN Served(i) = Adapters
    BY DEF Served
  <2>3. \A a \in Adapters : port'[a] = IF a = i THEN q ELSE Served(i)[a]
    <3> HIDE DEF me
    <3> QED BY <2>1, <2>2
  <2>4. /\ Served(i)[i] \in Port
        /\ SameLinks(Served(i)[i], port[i])
    BY ServedType
  <2>5. me.hosting = port[i].hosting /\ me.childRx = Collected(i)
    BY <1>0 DEF Port
  <2>6. /\ Noticed(me, "data").hosting = me.hosting
        /\ Noticed(me, "data").childRx = me.childRx
    BY <1>0 DEF Noticed, Port
  <2>7. /\ q.parent = port[i].parent /\ q.hosting = port[i].hosting
        /\ q.childRx = Collected(i)
    <3> HIDE DEF me
    <3> QED BY <2>2, <2>4, <2>5, <2>6 DEF Port, SameLinks
  <2> HIDE DEF q, me
  <2>8. ~IsChild(i)
    BY <1>2 DEF HostIsRoot
  <2>9. ASSUME NEW a \in Adapters, a # i
        PROVE  /\ port'[a].parent = port[a].parent /\ port'[a].hosting = port[a].hosting
               /\ IsChild(a) /\ port[a].txPending /\ ~port'[a].txPending => Delivered(a)
    <3>1. CASE \E s \in Taken(i) : port[i].children[s] = a
      <4>1. PICK s \in Taken(i) : port[i].children[s] = a
        BY <3>1
      <4>2. port'[a] = Heard(port[a], port[i].txSize)
        BY <2>3, <2>9, <3>1 DEF Served
      <4>3. port[a].parent = i /\ port[a].slot = s /\ s \in Slots
        BY <4>1 DEF RadioInv, AssociationsAgree, Taken
      <4>4. port[a].txPending => Collected(i)[s] = port[a].txSize
        BY <4>1, <4>3 DEF Collected
      <4>5. port'[i].childRx = Collected(i)
        BY <2>3, <2>7
      <4> QED BY <1>0, <4>2, <4>3, <4>4, <4>5, PortRoles DEF Delivered
    <3>2. CASE ~\E s \in Taken(i) : port[i].children[s] = a
      BY <2>3, <2>9, <3>2 DEF Served
    <3> QED BY <3>1, <3>2
  <2>10. port'[i].parent = port[i].parent /\ port'[i].hosting = port[i].hosting
    BY <2>3, <2>7
  <2>11. SameParents
    BY <2>9, <2>10 DEF SameParents
  <2>12. Honest(i)
    BY <2>8, <2>9, <2>10 DEF Honest, IsChild
  <2> QED BY <2>11, <2>12
<1> QED BY <1>1, <1>2

LEMMA HonestStep ==
    ASSUME RadioInv, HostIsRoot, NEW i \in Adapters,
           Command(i) \/ Radio(i) \/ Timeout(i) \/ ReadNotice(i) \/ Reset(i) \/ PlugAdapter(i)
    PROVE  Honest(i) /\ (SameParents \/ Command(i) \/ Reset(i) \/ PlugAdapter(i))
<1>1. CASE Command(i)
  <2>0. Masks \subseteq SUBSET Slots
    BY ProgramsAssumption
  <2>1. \/ Broadcast(i) \/ Setup(i) \/ StartHost(i) \/ CloseHost(i) \/ StartSearch(i) \/ EndSearch(i)
        \/ Receive(i) \/ Wait(i) \/ Resend(i) \/ (\E size \in Sizes : Send(i, size))
        \/ StopHost(i) \/ Sleep(i) \/ (\E mask \in SUBSET Slots : Disconnect(i, mask))
        \/ (\E host \in Adapters : Connect(i, host))
    BY <1>1, <2>0, Zenon DEF Command
  <2>2. Honest(i)
    BY <2>1, HonestRoles, HonestPayloads, HonestLeaving, HonestConnect
  <2> QED BY <1>1, <2>2
<1>2. CASE Radio(i)
  BY <1>2, HonestRadio
<1>3. CASE Timeout(i) \/ ReadNotice(i)
  BY <1>3, HonestNotices
<1>4. CASE Reset(i) \/ PlugAdapter(i)
  BY <1>4, HonestPlug
<1> QED BY <1>1, <1>2, <1>3, <1>4

(* The action properties DropsAreNoticed and NothingLost, as actions. *)
OnlyByItself ==
    \A i \in Adapters :
        IsChild(i) /\ port'[i].parent = Nobody /\ port'[i].notice = "none" =>
            Command(i) \/ Reset(i) \/ PlugAdapter(i)

TakenOrGone ==
    \A i \in Adapters :
        IsChild(i) /\ port[i].txPending /\ ~port'[i].txPending =>
            \/ port'[i].parent = Nobody
            \/ port'[port[i].parent].childRx[port[i].slot] = port[i].txSize

LEMMA HonestNext ==
    ASSUME RadioInv, HostIsRoot, RadioNext
    PROVE  HostIsRoot' /\ OnlyByItself /\ TakenOrGone
<1>1. PICK i \in Adapters :
          Command(i) \/ Radio(i) \/ Timeout(i) \/ ReadNotice(i) \/ Reset(i) \/ PlugAdapter(i)
  BY Zenon DEF RadioNext
<1>2. Honest(i) /\ (SameParents \/ Command(i) \/ Reset(i) \/ PlugAdapter(i))
  BY <1>1, HonestStep
<1>3. HostIsRoot'
  BY <1>2 DEF Honest, HostIsRoot, IsChild
<1>4. OnlyByItself
  <2> SUFFICES ASSUME NEW a \in Adapters, IsChild(a), port'[a].parent = Nobody,
                      port'[a].notice = "none"
               PROVE  Command(a) \/ Reset(a) \/ PlugAdapter(a)
    BY Zenon DEF OnlyByItself
  <2>1. a = i
    BY <1>2 DEF Honest
  <2>2. ~SameParents
    BY DEF SameParents, IsChild
  <2> QED BY <1>2, <2>1, <2>2, Zenon
<1>5. TakenOrGone
  BY <1>2 DEF Honest, TakenOrGone, Delivered
<1> QED BY <1>3, <1>4, <1>5

LEMMA HostInit == RadioInit => HostIsRoot
BY DEF RadioInit, NewPort, HostIsRoot

LEMMA HostNext == RadioInv /\ HostIsRoot /\ [RadioNext]_radioVars => HostIsRoot'
<1> SUFFICES ASSUME RadioInv, HostIsRoot, [RadioNext]_radioVars
             PROVE  HostIsRoot'
  OBVIOUS
<1>1. CASE UNCHANGED radioVars
  BY <1>1 DEF radioVars, HostIsRoot, IsChild
<1> QED BY <1>1, HonestNext

(* A host has no parent, and accepts children only then: 0x1f takes a host that
   joins another out of its role. *)
THEOREM HostsAreRoots == RadioSpec => [](HostIsRoot /\ AcceptingIsRoot)
<1>1. RadioInv => AcceptingIsRoot
  BY DEF RadioInv
<1> QED BY <1>1, RadioInvInit, RadioInvNext, HostInit, HostNext, PTL DEF RadioSpec

(* disconnect() leaves a notice with every child it drops: who lost its parent
   and has nothing to read did so by a command, reset or unplugging of its own. *)
THEOREM DropsNoticed == RadioSpec => DropsAreNoticed
<1>1. RadioInv /\ HostIsRoot /\ [RadioNext]_radioVars => [OnlyByItself]_radioVars
  BY HonestNext
<1>2. [][OnlyByItself]_radioVars => DropsAreNoticed
  BY PTL DEF DropsAreNoticed, OnlyByItself
<1> QED BY <1>1, <1>2, RadioInvInit, RadioInvNext, HostInit, HostNext, PTL DEF RadioSpec

(* transmit() clears tx_pending of a child only with its payload in the host's
   child_rx; otherwise it goes with the association. *)
THEOREM PayloadsKept == RadioSpec => NothingLost
<1>1. RadioInv /\ HostIsRoot /\ [RadioNext]_radioVars => [TakenOrGone]_radioVars
  BY HonestNext
<1>2. [][TakenOrGone]_radioVars => NothingLost
  BY PTL DEF NothingLost, TakenOrGone
<1> QED BY <1>1, <1>2, RadioInvInit, RadioInvNext, HostInit, HostNext, PTL DEF RadioSpec

=============================================================================
