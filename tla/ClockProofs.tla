----------------------------- MODULE ClockProofs ------------------------------
(***************************************************************************)
(* For any timers' prescalers, picture, durations and programs: the clock  *)
(* that ticks the devices of a machine late is the one that ticks them     *)
(* with every instruction, and it is never late for an event.              *)
(*                                                                         *)
(* The proof has three parts.  What one chunk does to each register, and   *)
(* that a chunk may be split wherever nothing happens.  That Ticked, the   *)
(* loop over chunks, is defined and additive.  And that each function of   *)
(* the runtime brings the clock from a valid state to a valid state whose  *)
(* devices, ticked up to now, are those of the eager clock.                *)
(***************************************************************************)
EXTENDS LazyClock, WellFoundedInduction, TLAPS

-----------------------------------------------------------------------------
(* Arithmetic.                                                               *)

LEMMA DivMod ==
    ASSUME NEW a \in Nat, NEW p \in Nat \ {0}
    PROVE  /\ a \div p \in Nat /\ a % p \in 0 .. p - 1
           /\ a = p * (a \div p) + (a % p)
OBVIOUS

LEMMA DivModUnique ==
    ASSUME NEW a \in Nat, NEW p \in Nat \ {0}, NEW q \in Int, NEW r \in 0 .. p - 1,
           a = p * q + r
    PROVE  q = a \div p /\ r = a % p
OBVIOUS

(* A prescaler that counts in two parts counts the same. *)
LEMMA SplitCount ==
    ASSUME NEW a \in Nat, NEW m \in Nat, NEW p \in Nat \ {0}
    PROVE  /\ (a + m) \div p = (a \div p) + (((a % p) + m) \div p)
           /\ (a + m) % p = ((a % p) + m) % p
<1> DEFINE q == a \div p
           r == a % p
           s == (r + m) \div p
           t == (r + m) % p
<1>1. q \in Nat /\ r \in 0 .. p - 1 /\ a = p * q + r
  BY DivMod
<1> HIDE DEF q, r
<1>c. r + m \in Nat
  BY <1>1
<1>2. s \in Nat /\ t \in 0 .. p - 1 /\ r + m = p * s + t
  BY <1>c, DivMod
<1> HIDE DEF s, t
<1>a. p * (q + s) = p * q + p * s
  BY <1>1, <1>2
<1>b. p * q \in Int /\ p * s \in Int
  BY <1>1, <1>2
<1>3. a + m = p * (q + s) + t
  <2> DEFINE u == p * q
             v == p * s
             w == p * (q + s)
  <2>1. a = u + r /\ r + m = v + t /\ w = u + v /\ u \in Int /\ v \in Int
    BY <1>1, <1>2, <1>a, <1>b
  <2> HIDE DEF u, v, w
  <2>2. a + m = w + t
    BY <1>1, <1>2, <2>1
  <2> QED BY <2>2 DEF w
<1>4. q + s = (a + m) \div p /\ t = (a + m) % p
  BY <1>1, <1>2, <1>3, DivModUnique
<1> QED BY <1>4 DEF q, r, s, t

LEMMA LeastExists ==
    ASSUME NEW set \in SUBSET Nat, set # {}
    PROVE  \E x \in set : \A y \in set : x <= y
<1> DEFINE less == OpToRel(<, Nat)
<1>1. \A y, x : <<y, x>> \in less <=> y \in Nat /\ x \in Nat /\ y < x
  BY DEF OpToRel
<1>2. IsWellFoundedOn(less, Nat)
  BY NatLessThanWellFounded
<1> HIDE DEF less
<1>3. PICK x \in set : \A y \in set : <<y, x>> \notin less
  BY <1>2, WFMin
<1>4. \A y \in set : y \in Nat /\ x \in Nat /\ ~(y < x)
  BY <1>1, <1>3
<1> QED BY <1>4

LEMMA MinIsLeast ==
    ASSUME NEW set \in SUBSET Nat, set # {}
    PROVE  Min(set) \in set /\ \A y \in set : Min(set) <= y
<1>1. PICK x \in set : \A y \in set : x <= y
  BY LeastExists
<1> QED BY <1>1 DEF Min

LEMMA MinIs ==
    ASSUME NEW set \in SUBSET Nat, NEW x \in set, \A y \in set : x <= y
    PROVE  Min(set) = x
<1>1. Min(set) \in set /\ Min(set) <= x
  BY MinIsLeast
<1>2. x \in Nat /\ Min(set) \in Nat /\ x <= Min(set)
  BY <1>1
<1> QED BY <1>1, <1>2

LEMMA MinOfTwo ==
    ASSUME NEW m \in Nat, NEW n \in Nat
    PROVE  Min({m, n}) = IF m <= n THEN m ELSE n
<1>1. CASE m <= n
  <2>1. m \in {m, n} /\ {m, n} \in SUBSET Nat /\ \A y \in {m, n} : m <= y
    BY <1>1
  <2> QED BY <1>1, <2>1, MinIs
<1>2. CASE ~(m <= n)
  <2>1. n \in {m, n} /\ {m, n} \in SUBSET Nat /\ \A y \in {m, n} : n <= y
    BY <1>2
  <2> QED BY <1>2, <2>1, MinIs
<1> QED BY <1>1, <1>2

-----------------------------------------------------------------------------
(* The devices' types, in the form the proofs below use. *)

LEMMA DeviceTyped ==
    ASSUME NEW d \in Device
    PROVE  /\ d.control \in [Timers -> Control]
           /\ d.reload \in [Timers -> 0 .. Overflow - 1]
           /\ d.counter \in [Timers -> 0 .. Overflow - 1]
           /\ d.accum \in [Timers -> Nat]
           /\ d.dot \in 0 .. Line - 1 /\ d.line \in 0 .. Lines - 1
           /\ d.stat \in Stat /\ d.serial \in Serial /\ d.left \in 0 .. SioCycles
           /\ d.dma \in Dma /\ d.steal \in Nat
           /\ d.ie \in SUBSET Irqs /\ d.if \in SUBSET Irqs /\ d.halted \in BOOLEAN
BY DEF Device

LEMMA SameDevice ==
    ASSUME NEW d \in Device, NEW e \in Device,
           d.control = e.control, d.reload = e.reload, d.counter = e.counter,
           d.accum = e.accum, d.dot = e.dot, d.line = e.line, d.stat = e.stat,
           d.serial = e.serial, d.left = e.left, d.dma = e.dma, d.steal = e.steal,
           d.ie = e.ie, d.if = e.if, d.halted = e.halted
    PROVE  d = e
BY DEF Device

LEMMA TimerTyped ==
    ASSUME NEW d \in Device, NEW t \in Timers
    PROVE  /\ d.control[t] \in Control
           /\ d.reload[t] \in 0 .. Overflow - 1 /\ d.counter[t] \in 0 .. Overflow - 1
           /\ d.accum[t] \in Nat
           /\ Prescale[d.control[t].select] \in Nat \ {0}
<1>1. d.control[t] \in Control
  BY DeviceTyped
<1>2. d.control[t].select \in DOMAIN Prescale
  BY <1>1 DEF Control
<1> QED BY <1>1, <1>2, DeviceTyped, DevicesAssumption

-----------------------------------------------------------------------------
(* The next event.                                                           *)

LEMMA MaxWithOne ==
    ASSUME NEW x \in Int
    PROVE  Max({1, x}) = IF x >= 1 THEN x ELSE 1
<1>1. ASSUME NEW set, set = {1, x}, NEW m \in set, \A y \in set : m >= y
      PROVE  Max(set) = m
  <2>1. Max(set) \in set /\ \A y \in set : Max(set) >= y
    BY <1>1 DEF Max
  <2>2. Max(set) \in Int /\ m \in Int /\ m >= Max(set) /\ Max(set) >= m
    BY <1>1, <2>1
  <2> QED BY <2>2
<1>2. CASE x >= 1
  <2>1. x \in {1, x} /\ \A y \in {1, x} : x >= y
    BY <1>2
  <2> QED BY <1>1, <1>2, <2>1
<1>3. CASE ~(x >= 1)
  <2>1. 1 \in {1, x} /\ \A y \in {1, x} : 1 >= y
    BY <1>3
  <2> QED BY <1>1, <1>3, <2>1
<1> QED BY <1>2, <1>3

(* Cycles to the overflow of a timer, before they are rounded up to one. *)
Distance(d, t) ==
    (Overflow - d.counter[t]) * Prescale[d.control[t].select] - d.accum[t]

LEMMA UntilOverflowIs ==
    ASSUME NEW d \in Device, NEW t \in Timers
    PROVE  /\ Distance(d, t) \in Int
           /\ UntilOverflow(d, t) = IF Distance(d, t) >= 1 THEN Distance(d, t) ELSE 1
           /\ UntilOverflow(d, t) \in Nat \ {0}
<1>1. (Overflow - d.counter[t]) \in Int /\ Prescale[d.control[t].select] \in Int
      /\ d.accum[t] \in Int
  BY TimerTyped, DevicesAssumption
<1>2. Distance(d, t) \in Int
  BY <1>1 DEF Distance
<1>3. UntilOverflow(d, t) = IF Distance(d, t) >= 1 THEN Distance(d, t) ELSE 1
  BY <1>2, MaxWithOne DEF UntilOverflow, Distance
<1> QED BY <1>2, <1>3

Soon(d) == UntilPicture(d) \cup UntilTimer(d) \cup UntilSerial(d)

LEMMA SoonTyped ==
    ASSUME NEW d \in Device
    PROVE  Soon(d) \in SUBSET (Nat \ {0}) /\ Soon(d) # {}
<1>1. UntilPicture(d) \in SUBSET (Nat \ {0}) /\ UntilPicture(d) # {}
  BY DeviceTyped, DevicesAssumption DEF UntilPicture
<1>2. UntilTimer(d) \in SUBSET (Nat \ {0})
  <2>1. \A t \in Clocked(d) : UntilOverflow(d, t) \in Nat \ {0}
    BY UntilOverflowIs DEF Clocked
  <2> QED BY <2>1 DEF UntilTimer
<1>3. UntilSerial(d) \in SUBSET (Nat \ {0})
  BY DeviceTyped, DevicesAssumption DEF UntilSerial
<1> QED BY <1>1, <1>2, <1>3 DEF Soon

LEMMA HorizonIs ==
    ASSUME NEW d \in Device
    PROVE  /\ Horizon(d) \in Nat \ {0} /\ Horizon(d) \in Soon(d)
           /\ \A x \in Soon(d) : Horizon(d) <= x
           /\ Horizon(d) <= IF d.dot < Visible THEN Visible - d.dot ELSE Line - d.dot
           /\ \A t \in Clocked(d) : Horizon(d) <= UntilOverflow(d, t)
           /\ d.left > 0 => Horizon(d) <= d.left
<1>1. Soon(d) \in SUBSET Nat
  BY SoonTyped
<1>2. Horizon(d) = Min(Soon(d))
  BY DEF Horizon, Soon
<1>3. Horizon(d) \in Soon(d) /\ \A x \in Soon(d) : Horizon(d) <= x
  BY <1>1, <1>2, SoonTyped, MinIsLeast
<1>4. (IF d.dot < Visible THEN Visible - d.dot ELSE Line - d.dot) \in Soon(d)
  BY DEF Soon, UntilPicture
<1>5. \A t \in Clocked(d) : UntilOverflow(d, t) \in Soon(d)
  BY DEF Soon, UntilTimer
<1>6. d.left > 0 => d.left \in Soon(d)
  BY DEF Soon, UntilSerial
<1> QED BY <1>3, <1>4, <1>5, <1>6, SoonTyped

LEMMA HorizonInLine ==
    ASSUME NEW d \in Device
    PROVE  Horizon(d) \in 1 .. Line
BY HorizonIs, DeviceTyped, DevicesAssumption

-----------------------------------------------------------------------------
(* What a chunk does to each register.                                       *)

TimerIrq(t) == IF t = 0 THEN "timer0" ELSE "timer1"

LEMMA CountTyped ==
    ASSUME NEW d \in Device, NEW t \in Timers, NEW n \in Nat
    PROVE  Counted(d, t, n) \in 0 .. Overflow - 1 /\ Overflows(d, t, n) \in Nat
<1>1. Period(d, t) \in Nat \ {0} /\ Past(d, t, n) \in Int /\ d.counter[t] \in 0 .. Overflow - 1
      /\ d.reload[t] \in 0 .. Overflow - 1
  BY TimerTyped, DevicesAssumption DEF Period, Past
<1>2. CASE Past(d, t, n) < 0
  BY <1>1, <1>2, DevicesAssumption DEF Counted, Overflows, Past
<1>3. CASE Past(d, t, n) >= 0
  <2> DEFINE over == Past(d, t, n)
             period == Period(d, t)
  <2>1. over \in Nat /\ period \in Nat \ {0} /\ ~(over < 0)
    BY <1>1, <1>3
  <2>2. Counted(d, t, n) = d.reload[t] + (over % period)
        /\ Overflows(d, t, n) = 1 + over \div period
    BY <2>1 DEF Counted, Overflows
  <2>3. period = Overflow - d.reload[t]
    BY DEF Period
  <2> HIDE DEF over, period
  <2>4. over % period \in 0 .. period - 1 /\ over \div period \in Nat
    BY <2>1, DivMod
  <2> QED BY <1>1, <2>2, <2>3, <2>4, DevicesAssumption
<1> QED BY <1>1, <1>2, <1>3

LEMMA TimerTicksTyped ==
    ASSUME NEW d \in Device, NEW t \in Timers, NEW c \in Nat
    PROVE  TimerTicks(d, t, c) \in Nat
<1>1. d.accum[t] + c \in Nat /\ Prescale[d.control[t].select] \in Nat \ {0}
  BY TimerTyped
<1> QED BY <1>1, DivMod DEF TimerTicks

NewAccum(d, t, c) ==
    IF t \in Clocked(d) THEN (d.accum[t] + c) % Prescale[d.control[t].select] ELSE d.accum[t]

LEMMA NewAccumTyped ==
    ASSUME NEW d \in Device, NEW t \in Timers, NEW c \in Nat
    PROVE  NewAccum(d, t, c) \in Nat
<1>1. d.accum[t] + c \in Nat /\ Prescale[d.control[t].select] \in Nat \ {0} /\ d.accum[t] \in Nat
  BY TimerTyped
<1>2. (d.accum[t] + c) % Prescale[d.control[t].select] \in Nat
  <2> DEFINE a == d.accum[t] + c
             p == Prescale[d.control[t].select]
  <2>1. a \in Nat /\ p \in Nat \ {0}
    BY <1>1
  <2> HIDE DEF a, p
  <2>2. a % p \in 0 .. p - 1
    BY <2>1, DivMod
  <2> QED BY <2>1, <2>2 DEF a, p
<1> QED BY <1>1, <1>2 DEF NewAccum

LEMMA RaiseIs ==
    ASSUME NEW d \in Device, NEW irq \in Irqs, NEW wanted \in BOOLEAN
    PROVE  /\ Raise(d, irq, wanted) \in Device
           /\ Raise(d, irq, wanted) =
                 [d EXCEPT !.if = d.if \cup (IF wanted THEN {irq} ELSE {})]
<1>1. [d EXCEPT !.if = d.if \cup {irq}] \in Device
  BY DEF Device
<1>2. [d EXCEPT !.if = d.if \cup {}] = d
  BY DEF Device
<1> QED BY <1>1, <1>2 DEF Raise

LEMMA TickTimerIs ==
    ASSUME NEW d \in Device, NEW t \in Timers, NEW c \in Nat, NEW n \in Nat
    PROVE  LET e == TickTimer(d, t, c, n)
           IN  /\ e \in Device
               /\ e.counter = [d.counter EXCEPT ![t] = Counted(d, t, n)]
               /\ e.accum = [d.accum EXCEPT ![t] = NewAccum(d, t, c)]
               /\ e.if = d.if \cup (IF d.control[t].irq /\ Overflows(d, t, n) > 0
                                    THEN {TimerIrq(t)} ELSE {})
               /\ e.control = d.control /\ e.reload = d.reload /\ e.dot = d.dot
               /\ e.line = d.line /\ e.stat = d.stat /\ e.serial = d.serial
               /\ e.left = d.left /\ e.dma = d.dma /\ e.steal = d.steal
               /\ e.ie = d.ie /\ e.halted = d.halted
<1> DEFINE f == [d EXCEPT !.counter[t] = Counted(d, t, n), !.accum[t] = NewAccum(d, t, c)]
           wanted == d.control[t].irq /\ Overflows(d, t, n) > 0
<1>1. Counted(d, t, n) \in 0 .. Overflow - 1 /\ NewAccum(d, t, c) \in Nat
  BY CountTyped, NewAccumTyped
<1>2. f \in Device
  BY <1>1, DeviceTyped DEF Device
<1>3. wanted \in BOOLEAN /\ TimerIrq(t) \in Irqs
  BY DEF Timers, TimerIrq, Irqs
<1>4. TickTimer(d, t, c, n) = Raise(f, TimerIrq(t), wanted)
  BY DEF TickTimer, TimerIrq, NewAccum
<1>5. /\ f.counter = [d.counter EXCEPT ![t] = Counted(d, t, n)]
      /\ f.accum = [d.accum EXCEPT ![t] = NewAccum(d, t, c)] /\ f.if = d.if
      /\ f.control = d.control /\ f.reload = d.reload /\ f.dot = d.dot
      /\ f.line = d.line /\ f.stat = d.stat /\ f.serial = d.serial
      /\ f.left = d.left /\ f.dma = d.dma /\ f.steal = d.steal
      /\ f.ie = d.ie /\ f.halted = d.halted
  BY DEF Device
<1> HIDE DEF f, wanted
<1>6. TickTimer(d, t, c, n) \in Device
      /\ TickTimer(d, t, c, n) = [f EXCEPT !.if = f.if \cup (IF wanted THEN {TimerIrq(t)} ELSE {})]
  BY <1>2, <1>3, <1>4, RaiseIs
<1>7. /\ TickTimer(d, t, c, n).counter = f.counter /\ TickTimer(d, t, c, n).accum = f.accum
      /\ TickTimer(d, t, c, n).if = f.if \cup (IF wanted THEN {TimerIrq(t)} ELSE {})
      /\ TickTimer(d, t, c, n).control = f.control /\ TickTimer(d, t, c, n).reload = f.reload
      /\ TickTimer(d, t, c, n).dot = f.dot /\ TickTimer(d, t, c, n).line = f.line
      /\ TickTimer(d, t, c, n).stat = f.stat /\ TickTimer(d, t, c, n).serial = f.serial
      /\ TickTimer(d, t, c, n).left = f.left /\ TickTimer(d, t, c, n).dma = f.dma
      /\ TickTimer(d, t, c, n).steal = f.steal /\ TickTimer(d, t, c, n).ie = f.ie
      /\ TickTimer(d, t, c, n).halted = f.halted
  BY <1>2, <1>6 DEF Device
<1> QED BY <1>5, <1>6, <1>7 DEF wanted

Second(d, c) ==
    IF d.control[1].on /\ Cascades(d, 1) THEN Overflows(d, 0, TimerTicks(d, 0, c))
    ELSE TimerTicks(d, 1, c)
Counts(d, t, c) == IF t = 0 THEN TimerTicks(d, 0, c) ELSE Second(d, c)

LEMMA CountsTyped ==
    ASSUME NEW d \in Device, NEW t \in Timers, NEW c \in Nat
    PROVE  Counts(d, t, c) \in Nat
BY TimerTicksTyped, CountTyped DEF Counts, Second, Timers

(* Timers that run out in a chunk, as far as they ask for interrupts. *)
RunOut(d, c) == {t \in Timers : d.control[t].irq /\ Overflows(d, t, Counts(d, t, c)) > 0}

LEMMA TimersAre ==
    ASSUME NEW d \in Device, NEW c \in Nat
    PROVE  LET e == TickTimers(d, c)
           IN  /\ e \in Device
               /\ e.counter = [t \in Timers |-> Counted(d, t, Counts(d, t, c))]
               /\ e.accum = [t \in Timers |-> NewAccum(d, t, c)]
               /\ e.if = d.if \cup {TimerIrq(t) : t \in RunOut(d, c)}
               /\ e.control = d.control /\ e.reload = d.reload /\ e.dot = d.dot
               /\ e.line = d.line /\ e.stat = d.stat /\ e.serial = d.serial
               /\ e.left = d.left /\ e.dma = d.dma /\ e.steal = d.steal
               /\ e.ie = d.ie /\ e.halted = d.halted
<1> DEFINE n == TimerTicks(d, 0, c)
           m == Second(d, c)
           f == TickTimer(d, 0, c, n)
           e == TickTimer(f, 1, c, m)
<1>0. 0 \in Timers /\ 1 \in Timers /\ \A t \in Timers : t = 0 \/ t = 1
  BY DEF Timers
<1>1. n \in Nat /\ m \in Nat
  BY <1>0, TimerTicksTyped, CountTyped DEF Second
<1>2. TickTimers(d, c) = e
  BY DEF TickTimers, Second
<1> HIDE DEF n, m
<1>3. /\ f \in Device
      /\ f.counter = [d.counter EXCEPT ![0] = Counted(d, 0, n)]
      /\ f.accum = [d.accum EXCEPT ![0] = NewAccum(d, 0, c)]
      /\ f.if = d.if \cup (IF d.control[0].irq /\ Overflows(d, 0, n) > 0
                           THEN {TimerIrq(0)} ELSE {})
      /\ f.control = d.control /\ f.reload = d.reload /\ f.dot = d.dot
      /\ f.line = d.line /\ f.stat = d.stat /\ f.serial = d.serial
      /\ f.left = d.left /\ f.dma = d.dma /\ f.steal = d.steal
      /\ f.ie = d.ie /\ f.halted = d.halted
  BY <1>0, <1>1, TickTimerIs
<1> HIDE DEF f
<1>a. f \in Device
  BY <1>3
<1>4. /\ e \in Device
      /\ e.counter = [f.counter EXCEPT ![1] = Counted(f, 1, m)]
      /\ e.accum = [f.accum EXCEPT ![1] = NewAccum(f, 1, c)]
      /\ e.if = f.if \cup (IF f.control[1].irq /\ Overflows(f, 1, m) > 0
                           THEN {TimerIrq(1)} ELSE {})
      /\ e.control = f.control /\ e.reload = f.reload /\ e.dot = f.dot
      /\ e.line = f.line /\ e.stat = f.stat /\ e.serial = f.serial
      /\ e.left = f.left /\ e.dma = f.dma /\ e.steal = f.steal
      /\ e.ie = f.ie /\ e.halted = f.halted
  BY <1>0, <1>1, <1>a, TickTimerIs
<1>5. d.counter \in [Timers -> 0 .. Overflow - 1] /\ d.accum \in [Timers -> Nat]
  BY DeviceTyped
<1>6. f.counter[1] = d.counter[1] /\ f.accum[1] = d.accum[1]
  BY <1>0, <1>3, <1>5
<1>7. Counted(f, 1, m) = Counted(d, 1, m) /\ Overflows(f, 1, m) = Overflows(d, 1, m)
  BY <1>3, <1>6 DEF Counted, Overflows, Past, Period
<1>8. Clocked(f) = Clocked(d)
  BY <1>3 DEF Clocked, Cascades
<1>9. NewAccum(f, 1, c) = NewAccum(d, 1, c)
  BY <1>3, <1>6, <1>8 DEF NewAccum
<1>10. Counts(d, 0, c) = n /\ Counts(d, 1, c) = m
  BY DEF Counts, n, m
<1>11. e.counter = [t \in Timers |-> Counted(d, t, Counts(d, t, c))]
  <2>1. e.counter = [[d.counter EXCEPT ![0] = Counted(d, 0, n)] EXCEPT ![1] = Counted(d, 1, m)]
    BY <1>3, <1>4, <1>7
  <2> HIDE DEF e
  <2> QED BY <1>0, <1>5, <1>10, <2>1
<1>12. e.accum = [t \in Timers |-> NewAccum(d, t, c)]
  <2>1. e.accum = [[d.accum EXCEPT ![0] = NewAccum(d, 0, c)] EXCEPT ![1] = NewAccum(d, 1, c)]
    BY <1>3, <1>4, <1>9
  <2> HIDE DEF e
  <2> QED BY <1>0, <1>5, <2>1
<1>13. e.if = d.if \cup {TimerIrq(t) : t \in RunOut(d, c)}
  <2>1. e.if = (d.if \cup (IF d.control[0].irq /\ Overflows(d, 0, n) > 0
                           THEN {TimerIrq(0)} ELSE {}))
                \cup (IF d.control[1].irq /\ Overflows(d, 1, m) > 0 THEN {TimerIrq(1)} ELSE {})
    BY <1>3, <1>4, <1>7
  <2>2. 0 \in RunOut(d, c) <=> d.control[0].irq /\ Overflows(d, 0, n) > 0
    BY <1>0, <1>10 DEF RunOut
  <2>3. 1 \in RunOut(d, c) <=> d.control[1].irq /\ Overflows(d, 1, m) > 0
    BY <1>0, <1>10 DEF RunOut
  <2>4. RunOut(d, c) \subseteq {0, 1}
    BY DEF RunOut, Timers
  <2> HIDE DEF e
  <2> QED BY <2>1, <2>2, <2>3, <2>4
<1> HIDE DEF e
<1> QED BY <1>2, <1>3, <1>4, <1>11, <1>12, <1>13

NewLeft(d, c) == IF d.left = 0 \/ c >= d.left THEN 0 ELSE d.left - c
Shifted(d, c) == d.left # 0 /\ c >= d.left

LEMMA SerialIs ==
    ASSUME NEW d \in Device, NEW c \in Nat
    PROVE  LET e == TickSerial(d, c)
           IN  /\ e \in Device
               /\ e.left = NewLeft(d, c)
               /\ e.serial = IF Shifted(d, c) THEN [d.serial EXCEPT !.busy = FALSE] ELSE d.serial
               /\ e.if = d.if \cup (IF Shifted(d, c) /\ d.serial.irq THEN {"serial"} ELSE {})
               /\ e.counter = d.counter /\ e.accum = d.accum
               /\ e.control = d.control /\ e.reload = d.reload /\ e.dot = d.dot
               /\ e.line = d.line /\ e.stat = d.stat /\ e.dma = d.dma
               /\ e.steal = d.steal /\ e.ie = d.ie /\ e.halted = d.halted
<1>0. d.left \in Nat /\ d.left \in 0 .. SioCycles /\ SioCycles \in Nat
  BY DeviceTyped, DevicesAssumption
<1>1. CASE d.left = 0
  BY <1>0, <1>1 DEF TickSerial, NewLeft, Shifted
<1>2. CASE d.left # 0 /\ c < d.left
  <2>1. TickSerial(d, c) = [d EXCEPT !.left = d.left - c] /\ ~Shifted(d, c)
        /\ NewLeft(d, c) = d.left - c /\ d.left - c \in 0 .. SioCycles
    BY <1>0, <1>2 DEF TickSerial, NewLeft, Shifted
  <2>2. [d EXCEPT !.left = d.left - c] \in Device
    BY <2>1 DEF Device
  <2> QED BY <2>1, <2>2 DEF Device
<1>3. CASE d.left # 0 /\ c >= d.left
  <2> DEFINE f == [d EXCEPT !.left = 0, !.serial.busy = FALSE]
  <2>1. TickSerial(d, c) = Raise(f, "serial", d.serial.irq) /\ Shifted(d, c)
        /\ NewLeft(d, c) = 0
    BY <1>0, <1>3 DEF TickSerial, NewLeft, Shifted
  <2>2. d.serial \in Serial /\ d.serial.irq \in BOOLEAN
    BY DeviceTyped DEF Serial
  <2>3. [d.serial EXCEPT !.busy = FALSE] \in Serial /\ 0 \in 0 .. SioCycles
    <3>1. \A s \in Serial : [s EXCEPT !.busy = FALSE] \in Serial
      BY DEF Serial
    <3> QED BY <2>2, <1>0, <3>1
  <2>4. f = [d EXCEPT !.left = 0, !.serial = [d.serial EXCEPT !.busy = FALSE]]
    BY <2>2 DEF Device
  <2>5. f \in Device
    BY <2>3, <2>4 DEF Device
  <2>6. /\ f.left = 0 /\ f.serial = [d.serial EXCEPT !.busy = FALSE] /\ f.if = d.if
        /\ f.counter = d.counter /\ f.accum = d.accum
        /\ f.control = d.control /\ f.reload = d.reload /\ f.dot = d.dot
        /\ f.line = d.line /\ f.stat = d.stat /\ f.dma = d.dma
        /\ f.steal = d.steal /\ f.ie = d.ie /\ f.halted = d.halted
    BY <2>4 DEF Device
  <2> HIDE DEF f
  <2>7. Raise(f, "serial", d.serial.irq) \in Device
        /\ Raise(f, "serial", d.serial.irq) =
               [f EXCEPT !.if = f.if \cup (IF d.serial.irq THEN {"serial"} ELSE {})]
    BY <2>2, <2>5, RaiseIs DEF Irqs
  <2> DEFINE e == Raise(f, "serial", d.serial.irq)
  <2>8. /\ e.left = f.left /\ e.serial = f.serial
        /\ e.if = f.if \cup (IF d.serial.irq THEN {"serial"} ELSE {})
        /\ e.counter = f.counter /\ e.accum = f.accum
        /\ e.control = f.control /\ e.reload = f.reload /\ e.dot = f.dot
        /\ e.line = f.line /\ e.stat = f.stat /\ e.dma = f.dma
        /\ e.steal = f.steal /\ e.ie = f.ie /\ e.halted = f.halted
    BY <2>5, <2>7 DEF Device
  <2>9. e \in Device /\ TickSerial(d, c) = e
    BY <2>1, <2>7
  <2> HIDE DEF e
  <2> QED BY <2>1, <2>6, <2>8, <2>9
<1> QED BY <1>0, <1>1, <1>2, <1>3

LEMMA RunDmaIs ==
    ASSUME NEW d \in Device
    PROVE  LET e == RunDma(d)
           IN  /\ e \in Device
               /\ e.steal = d.steal + DmaCost /\ e.dma = [d.dma EXCEPT !.on = d.dma.repeat]
               /\ e.if = d.if \cup (IF d.dma.irq THEN {"dma"} ELSE {})
               /\ e.counter = d.counter /\ e.accum = d.accum
               /\ e.control = d.control /\ e.reload = d.reload /\ e.dot = d.dot
               /\ e.line = d.line /\ e.stat = d.stat /\ e.serial = d.serial
               /\ e.left = d.left /\ e.ie = d.ie /\ e.halted = d.halted
<1> DEFINE f == [d EXCEPT !.steal = d.steal + DmaCost, !.dma.on = d.dma.repeat]
           e == Raise(f, "dma", d.dma.irq)
<1>1. RunDma(d) = e
  BY DEF RunDma
<1>2. d.dma \in Dma /\ d.dma.irq \in BOOLEAN /\ d.steal + DmaCost \in Nat
  BY DeviceTyped, DevicesAssumption DEF Dma
<1>3. [d.dma EXCEPT !.on = d.dma.repeat] \in Dma
  <2>1. \A m \in Dma : [m EXCEPT !.on = m.repeat] \in Dma
    BY DEF Dma
  <2> QED BY <1>2, <2>1
<1>4. f = [d EXCEPT !.steal = d.steal + DmaCost, !.dma = [d.dma EXCEPT !.on = d.dma.repeat]]
  BY DEF Device
<1>5. f \in Device
  BY <1>2, <1>3, <1>4 DEF Device
<1>6. /\ f.steal = d.steal + DmaCost /\ f.dma = [d.dma EXCEPT !.on = d.dma.repeat]
      /\ f.if = d.if /\ f.counter = d.counter /\ f.accum = d.accum
      /\ f.control = d.control /\ f.reload = d.reload /\ f.dot = d.dot
      /\ f.line = d.line /\ f.stat = d.stat /\ f.serial = d.serial
      /\ f.left = d.left /\ f.ie = d.ie /\ f.halted = d.halted
  BY <1>4 DEF Device
<1> HIDE DEF f
<1>7. e \in Device /\ e = [f EXCEPT !.if = f.if \cup (IF d.dma.irq THEN {"dma"} ELSE {})]
  BY <1>2, <1>5, RaiseIs DEF Irqs
<1> HIDE DEF e
<1>8. /\ e.steal = f.steal /\ e.dma = f.dma
      /\ e.if = f.if \cup (IF d.dma.irq THEN {"dma"} ELSE {})
      /\ e.counter = f.counter /\ e.accum = f.accum
      /\ e.control = f.control /\ e.reload = f.reload /\ e.dot = f.dot
      /\ e.line = f.line /\ e.stat = f.stat /\ e.serial = f.serial
      /\ e.left = f.left /\ e.ie = f.ie /\ e.halted = f.halted
  BY <1>5, <1>7 DEF Device
<1> QED BY <1>1, <1>6, <1>7, <1>8

NewDot(d, c) == (d.dot + c) % Line
NewLine(d, c) == IF d.dot + c = Line THEN (d.line + 1) % Lines ELSE d.line
HBlanks(d, c) == NewDot(d, c) = Visible
VBlanks(d, c) == NewLine(d, c) = VisibleLines /\ NewDot(d, c) = 0
Starts(d, c) ==
    /\ d.dma.on
    /\ IF HBlanks(d, c) /\ NewLine(d, c) < VisibleLines THEN d.dma.start = "hblank"
       ELSE VBlanks(d, c) /\ d.dma.start = "vblank"
Asks(d, c) ==
    {i \in d.stat.irqs : \/ i = "vblank" /\ VBlanks(d, c)
                         \/ i = "hblank" /\ HBlanks(d, c)
                         \/ i = "vcount" /\ NewDot(d, c) = 0 /\ NewLine(d, c) = d.stat.compare}

LEMMA DotTyped ==
    ASSUME NEW d \in Device, NEW c \in Nat
    PROVE  NewDot(d, c) \in 0 .. Line - 1 /\ NewLine(d, c) \in 0 .. Lines - 1
<1>1. d.dot + c \in Nat /\ Line \in Nat \ {0} /\ d.line + 1 \in Nat /\ Lines \in Nat \ {0}
      /\ d.line \in 0 .. Lines - 1
  BY DeviceTyped, DevicesAssumption
<1> QED BY <1>1, DivMod DEF NewDot, NewLine

LEMMA PictureIs ==
    ASSUME NEW d \in Device, NEW c \in Nat
    PROVE  LET e == TickPicture(d, c)
           IN  /\ e \in Device
               /\ e.dot = NewDot(d, c) /\ e.line = NewLine(d, c)
               /\ e.steal = IF Starts(d, c) THEN d.steal + DmaCost ELSE d.steal
               /\ e.dma = IF Starts(d, c) THEN [d.dma EXCEPT !.on = d.dma.repeat] ELSE d.dma
               /\ e.if = d.if \cup (IF Starts(d, c) /\ d.dma.irq THEN {"dma"} ELSE {})
                              \cup Asks(d, c)
               /\ e.counter = d.counter /\ e.accum = d.accum
               /\ e.control = d.control /\ e.reload = d.reload
               /\ e.stat = d.stat /\ e.serial = d.serial
               /\ e.left = d.left /\ e.ie = d.ie /\ e.halted = d.halted
<1> DEFINE moved == [d EXCEPT !.dot = NewDot(d, c), !.line = NewLine(d, c)]
           served == IF Starts(d, c) THEN RunDma(moved) ELSE moved
           e == [served EXCEPT !.if = served.if \cup Asks(d, c)]
<1>1. moved \in Device
  BY DotTyped DEF Device
<1>2. /\ moved.dot = NewDot(d, c) /\ moved.line = NewLine(d, c) /\ moved.if = d.if
      /\ moved.steal = d.steal /\ moved.dma = d.dma
      /\ moved.counter = d.counter /\ moved.accum = d.accum
      /\ moved.control = d.control /\ moved.reload = d.reload
      /\ moved.stat = d.stat /\ moved.serial = d.serial
      /\ moved.left = d.left /\ moved.ie = d.ie /\ moved.halted = d.halted
  BY DEF Device
<1>3. TickPicture(d, c) = e
  <2>1. TickPicture(d, c) =
          LET s == IF HBlanks(d, c) /\ NewLine(d, c) < VisibleLines
                   THEN RunTimedDma(moved, "hblank")
                   ELSE IF VBlanks(d, c) THEN RunTimedDma(moved, "vblank") ELSE moved
          IN  [s EXCEPT !.if = @ \cup Asks(d, c)]
    BY DEF TickPicture, NewDot, NewLine, HBlanks, VBlanks, Asks
  <2> HIDE DEF moved
  <2> QED BY <1>2, <2>1 DEF RunTimedDma, Starts
<1> HIDE DEF moved
<1>4. /\ served \in Device
      /\ served.dot = NewDot(d, c) /\ served.line = NewLine(d, c)
      /\ served.steal = IF Starts(d, c) THEN d.steal + DmaCost ELSE d.steal
      /\ served.dma = IF Starts(d, c) THEN [d.dma EXCEPT !.on = d.dma.repeat] ELSE d.dma
      /\ served.if = d.if \cup (IF Starts(d, c) /\ d.dma.irq THEN {"dma"} ELSE {})
      /\ served.counter = d.counter /\ served.accum = d.accum
      /\ served.control = d.control /\ served.reload = d.reload
      /\ served.stat = d.stat /\ served.serial = d.serial
      /\ served.left = d.left /\ served.ie = d.ie /\ served.halted = d.halted
  <2>1. CASE Starts(d, c)
    BY <1>1, <1>2, <2>1, RunDmaIs
  <2>2. CASE ~Starts(d, c)
    BY <1>1, <1>2, <2>2
  <2> QED BY <2>1, <2>2
<1> HIDE DEF served
<1>5. Asks(d, c) \subseteq Irqs
  <2>1. d.stat.irqs \subseteq Irqs
    BY DeviceTyped DEF Stat, Irqs
  <2> QED BY <2>1 DEF Asks
<1>6. e \in Device
  BY <1>4, <1>5 DEF Device
<1>7. /\ e.dot = served.dot /\ e.line = served.line /\ e.steal = served.steal
      /\ e.dma = served.dma /\ e.if = served.if \cup Asks(d, c)
      /\ e.counter = served.counter /\ e.accum = served.accum
      /\ e.control = served.control /\ e.reload = served.reload
      /\ e.stat = served.stat /\ e.serial = served.serial
      /\ e.left = served.left /\ e.ie = served.ie /\ e.halted = served.halted
  BY <1>4 DEF Device
<1> HIDE DEF e
<1> QED BY <1>3, <1>4, <1>6, <1>7

(* A whole chunk.  The devices do not look at each other within one. *)
LEMMA ChunkIs ==
    ASSUME NEW d \in Device, NEW c \in Nat
    PROVE  LET e == Chunk(d, c)
           IN  /\ e \in Device
               /\ e.counter = [t \in Timers |-> Counted(d, t, Counts(d, t, c))]
               /\ e.accum = [t \in Timers |-> NewAccum(d, t, c)]
               /\ e.left = NewLeft(d, c)
               /\ e.serial = IF Shifted(d, c) THEN [d.serial EXCEPT !.busy = FALSE] ELSE d.serial
               /\ e.dot = NewDot(d, c) /\ e.line = NewLine(d, c)
               /\ e.steal = IF Starts(d, c) THEN d.steal + DmaCost ELSE d.steal
               /\ e.dma = IF Starts(d, c) THEN [d.dma EXCEPT !.on = d.dma.repeat] ELSE d.dma
               /\ e.if = d.if \cup {TimerIrq(t) : t \in RunOut(d, c)}
                              \cup (IF Shifted(d, c) /\ d.serial.irq THEN {"serial"} ELSE {})
                              \cup (IF Starts(d, c) /\ d.dma.irq THEN {"dma"} ELSE {})
                              \cup Asks(d, c)
               /\ e.control = d.control /\ e.reload = d.reload /\ e.stat = d.stat
               /\ e.ie = d.ie /\ e.halted = d.halted
<1> DEFINE f == TickTimers(d, c)
           g == TickSerial(f, c)
           e == TickPicture(g, c)
<1>0. Chunk(d, c) = e
  BY DEF Chunk
<1>1. /\ f \in Device
      /\ f.counter = [t \in Timers |-> Counted(d, t, Counts(d, t, c))]
      /\ f.accum = [t \in Timers |-> NewAccum(d, t, c)]
      /\ f.if = d.if \cup {TimerIrq(t) : t \in RunOut(d, c)}
      /\ f.control = d.control /\ f.reload = d.reload /\ f.dot = d.dot
      /\ f.line = d.line /\ f.stat = d.stat /\ f.serial = d.serial
      /\ f.left = d.left /\ f.dma = d.dma /\ f.steal = d.steal
      /\ f.ie = d.ie /\ f.halted = d.halted
  BY TimersAre
<1> HIDE DEF f
<1>a. f \in Device /\ NewLeft(f, c) = NewLeft(d, c) /\ (Shifted(f, c) <=> Shifted(d, c))
  BY <1>1 DEF NewLeft, Shifted
<1>2. /\ g \in Device
      /\ g.left = NewLeft(f, c)
      /\ g.serial = IF Shifted(f, c) THEN [f.serial EXCEPT !.busy = FALSE] ELSE f.serial
      /\ g.if = f.if \cup (IF Shifted(f, c) /\ f.serial.irq THEN {"serial"} ELSE {})
      /\ g.counter = f.counter /\ g.accum = f.accum
      /\ g.control = f.control /\ g.reload = f.reload /\ g.dot = f.dot
      /\ g.line = f.line /\ g.stat = f.stat /\ g.dma = f.dma
      /\ g.steal = f.steal /\ g.ie = f.ie /\ g.halted = f.halted
  BY <1>a, SerialIs
<1> HIDE DEF g
<1>b. g \in Device /\ g.dot = d.dot /\ g.line = d.line /\ g.dma = d.dma /\ g.stat = d.stat
      /\ g.steal = d.steal
  BY <1>1, <1>2
<1>c. /\ NewDot(g, c) = NewDot(d, c) /\ NewLine(g, c) = NewLine(d, c)
      /\ (Starts(g, c) <=> Starts(d, c)) /\ Asks(g, c) = Asks(d, c)
  BY <1>b DEF NewDot, NewLine, Starts, Asks, HBlanks, VBlanks
<1>3. /\ e \in Device
      /\ e.dot = NewDot(g, c) /\ e.line = NewLine(g, c)
      /\ e.steal = IF Starts(g, c) THEN g.steal + DmaCost ELSE g.steal
      /\ e.dma = IF Starts(g, c) THEN [g.dma EXCEPT !.on = g.dma.repeat] ELSE g.dma
      /\ e.if = g.if \cup (IF Starts(g, c) /\ g.dma.irq THEN {"dma"} ELSE {}) \cup Asks(g, c)
      /\ e.counter = g.counter /\ e.accum = g.accum
      /\ e.control = g.control /\ e.reload = g.reload
      /\ e.stat = g.stat /\ e.serial = g.serial
      /\ e.left = g.left /\ e.ie = g.ie /\ e.halted = g.halted
  BY <1>b, PictureIs
<1> HIDE DEF e
<1>4. /\ e.left = NewLeft(d, c)
      /\ e.serial = IF Shifted(d, c) THEN [d.serial EXCEPT !.busy = FALSE] ELSE d.serial
      /\ e.dot = NewDot(d, c) /\ e.line = NewLine(d, c)
      /\ e.steal = IF Starts(d, c) THEN d.steal + DmaCost ELSE d.steal
      /\ e.dma = IF Starts(d, c) THEN [d.dma EXCEPT !.on = d.dma.repeat] ELSE d.dma
  BY <1>1, <1>2, <1>3, <1>a, <1>b, <1>c
<1>5. e.if = d.if \cup {TimerIrq(t) : t \in RunOut(d, c)}
                  \cup (IF Shifted(d, c) /\ d.serial.irq THEN {"serial"} ELSE {})
                  \cup (IF Starts(d, c) /\ d.dma.irq THEN {"dma"} ELSE {}) \cup Asks(d, c)
  BY <1>1, <1>2, <1>3, <1>a, <1>b, <1>c
<1>6. /\ e.counter = [t \in Timers |-> Counted(d, t, Counts(d, t, c))]
      /\ e.accum = [t \in Timers |-> NewAccum(d, t, c)]
      /\ e.control = d.control /\ e.reload = d.reload /\ e.stat = d.stat
      /\ e.ie = d.ie /\ e.halted = d.halted
  BY <1>1, <1>2, <1>3
<1> QED BY <1>0, <1>3, <1>4, <1>5, <1>6

-----------------------------------------------------------------------------
(* A chunk that ends before the next event.                                  *)

Quiet(d, m) == m \in Nat \ {0} /\ m < Horizon(d)

LEMMA ProductGrows ==
    ASSUME NEW p \in Nat \ {0}, NEW x \in Int, NEW y \in Int, x >= y
    PROVE  p * x >= p * y
OBVIOUS

(* No timer runs out in it. *)
LEMMA QuietTimer ==
    ASSUME NEW d \in Device, NEW m, Quiet(d, m), NEW t \in Timers
    PROVE  /\ Past(d, t, TimerTicks(d, t, m)) < 0
           /\ t \in Clocked(d) => m < Distance(d, t)
<1> DEFINE p == Prescale[d.control[t].select]
           a == d.accum[t] + m
           room == Overflow - d.counter[t]
<1>0. m \in Nat \ {0} /\ p \in Nat \ {0} /\ a \in Nat /\ room \in Nat \ {0}
      /\ d.accum[t] \in Nat /\ Horizon(d) \in Nat
  BY TimerTyped, DevicesAssumption, HorizonIs DEF Quiet
<1>1. CASE t \notin Clocked(d)
  <2>1. TimerTicks(d, t, m) = 0
    BY <1>1 DEF TimerTicks
  <2>2. Past(d, t, TimerTicks(d, t, m)) = 0 - room
    BY <2>1 DEF Past
  <2> HIDE DEF room
  <2> QED BY <1>0, <1>1, <2>2
<1>2. CASE t \in Clocked(d)
  <2>1. m < UntilOverflow(d, t)
    <3>1. Horizon(d) <= UntilOverflow(d, t) /\ UntilOverflow(d, t) \in Nat
      BY <1>2, HorizonIs, UntilOverflowIs
    <3> QED BY <1>0, <3>1 DEF Quiet
  <2>2. m < Distance(d, t) /\ Distance(d, t) \in Int
    BY <1>0, <2>1, UntilOverflowIs
  <2>3. Distance(d, t) = room * p - d.accum[t]
    BY DEF Distance
  <2>4. TimerTicks(d, t, m) = a \div p /\ Past(d, t, TimerTicks(d, t, m)) = (a \div p) - room
    BY <1>2 DEF TimerTicks, Past
  <2>5. a = d.accum[t] + m
    OBVIOUS
  <2> HIDE DEF a, p, room
  <2> DEFINE q == a \div p
             r == a % p
  <2>6. q \in Nat /\ r \in Nat /\ a = p * q + r
    <3>1. a \in Nat /\ p \in Nat \ {0}
      BY <1>0
    <3>2. q \in Nat /\ r \in 0 .. p - 1 /\ a = p * q + r
      BY <3>1, DivMod
    <3>3. r \in Nat
      BY <3>1, <3>2
    <3> QED BY <3>2, <3>3
  <2> HIDE DEF q, r
  <2>7. p * room = room * p /\ p * room \in Int /\ p * q \in Int
    BY <1>0, <2>6
  <2>8. p * room > a
    <3> DEFINE w == p * room
    <3>1. w \in Int /\ Distance(d, t) = w - d.accum[t]
      BY <2>3, <2>7
    <3> HIDE DEF w
    <3>2. w > a
      BY <1>0, <2>2, <2>5, <3>1
    <3> QED BY <3>2 DEF w
  <2>9. ~(q >= room)
    <3>1. q >= room => p * q >= p * room
      BY <1>0, <2>6, ProductGrows
    <3> DEFINE w == p * room
               v == p * q
    <3>2. w \in Int /\ v \in Int /\ w > a /\ a = v + r /\ (q >= room => v >= w)
      BY <2>6, <2>7, <2>8, <3>1
    <3> HIDE DEF w, v
    <3> QED BY <2>6, <3>2
  <2>10. q - room < 0
    BY <1>0, <2>6, <2>9
  <2> QED BY <2>2, <2>4, <2>10 DEF q
<1> QED BY <1>1, <1>2

LEMMA QuietCounts ==
    ASSUME NEW d \in Device, NEW m, Quiet(d, m), NEW t \in Timers
    PROVE  /\ Counts(d, t, m) = TimerTicks(d, t, m)
           /\ Counted(d, t, Counts(d, t, m)) = d.counter[t] + TimerTicks(d, t, m)
           /\ Overflows(d, t, Counts(d, t, m)) = 0
<1>1. 0 \in Timers /\ (t = 0 \/ t = 1)
  BY DEF Timers
<1>2. Overflows(d, 0, TimerTicks(d, 0, m)) = 0
  BY <1>1, QuietTimer DEF Overflows
<1>3. Counts(d, t, m) = TimerTicks(d, t, m)
  <2>1. CASE t = 0
    BY <2>1 DEF Counts
  <2>2. CASE t = 1 /\ d.control[1].on /\ Cascades(d, 1)
    <3>1. t \notin Clocked(d)
      BY <2>2 DEF Clocked
    <3> QED BY <1>2, <2>2, <3>1 DEF Counts, Second, TimerTicks
  <2>3. CASE t = 1 /\ ~(d.control[1].on /\ Cascades(d, 1))
    BY <2>3 DEF Counts, Second
  <2> QED BY <1>1, <2>1, <2>2, <2>3
<1> QED BY <1>3, QuietTimer DEF Counted, Overflows

LEMMA QuietPicture ==
    ASSUME NEW d \in Device, NEW m, Quiet(d, m)
    PROVE  /\ NewDot(d, m) = d.dot + m /\ NewLine(d, m) = d.line
           /\ d.dot + m \in 1 .. Line - 1
           /\ (d.dot + m < Visible <=> d.dot < Visible)
           /\ ~Starts(d, m) /\ Asks(d, m) = {}
<1>0. m \in Nat \ {0} /\ Horizon(d) \in Nat /\ m < Horizon(d)
      /\ d.dot \in 0 .. Line - 1 /\ Line \in Nat /\ Visible \in 1 .. Line - 1
  BY HorizonIs, DeviceTyped, DevicesAssumption DEF Quiet
<1>1. Horizon(d) <= IF d.dot < Visible THEN Visible - d.dot ELSE Line - d.dot
  BY HorizonIs
<1>2. /\ d.dot + m \in 1 .. Line - 1 /\ d.dot + m # Line /\ d.dot + m # Visible
      /\ (d.dot + m < Visible <=> d.dot < Visible)
  BY <1>0, <1>1
<1>3. NewDot(d, m) = d.dot + m
  <2> DEFINE x == d.dot + m
  <2>1. x \in Nat /\ Line \in Nat \ {0} /\ x \in 0 .. Line - 1 /\ x = Line * 0 + x
    BY <1>0, <1>2
  <2> HIDE DEF x
  <2>2. x = x % Line
    BY <2>1, DivModUnique
  <2> QED BY <2>2 DEF x, NewDot
<1>4. ~HBlanks(d, m) /\ ~VBlanks(d, m)
  BY <1>2, <1>3 DEF HBlanks, VBlanks
<1>5. ~Starts(d, m) /\ Asks(d, m) = {}
  BY <1>2, <1>3, <1>4 DEF Starts, Asks
<1> QED BY <1>2, <1>3, <1>5 DEF NewLine

LEMMA QuietSerial ==
    ASSUME NEW d \in Device, NEW m, Quiet(d, m)
    PROVE  /\ ~Shifted(d, m) /\ (d.left > 0 => m < d.left)
           /\ NewLeft(d, m) = IF d.left = 0 THEN 0 ELSE d.left - m
<1>1. m \in Nat \ {0} /\ Horizon(d) \in Nat /\ m < Horizon(d) /\ d.left \in Nat
  BY HorizonIs, DeviceTyped, DevicesAssumption DEF Quiet
<1>2. d.left > 0 => m < d.left
  BY <1>1, HorizonIs
<1> QED BY <1>1, <1>2 DEF Shifted, NewLeft

(* It advances counters, and shows nothing to the processor. *)
LEMMA QuietChunk ==
    ASSUME NEW d \in Device, NEW m, Quiet(d, m)
    PROVE  LET e == Chunk(d, m)
           IN  /\ e \in Device
               /\ \A t \in Timers : e.counter[t] = d.counter[t] + TimerTicks(d, t, m)
               /\ \A t \in Timers : e.accum[t] = NewAccum(d, t, m)
               /\ e.left = IF d.left = 0 THEN 0 ELSE d.left - m
               /\ e.dot = d.dot + m /\ e.line = d.line
               /\ e.steal = d.steal /\ e.dma = d.dma /\ e.if = d.if
               /\ e.serial = d.serial
               /\ e.control = d.control /\ e.reload = d.reload /\ e.stat = d.stat
               /\ e.ie = d.ie /\ e.halted = d.halted
<1> DEFINE e == Chunk(d, m)
<1>0. m \in Nat
  BY DEF Quiet
<1>1. /\ e \in Device
      /\ e.counter = [t \in Timers |-> Counted(d, t, Counts(d, t, m))]
      /\ e.accum = [t \in Timers |-> NewAccum(d, t, m)]
      /\ e.left = NewLeft(d, m)
      /\ e.serial = IF Shifted(d, m) THEN [d.serial EXCEPT !.busy = FALSE] ELSE d.serial
      /\ e.dot = NewDot(d, m) /\ e.line = NewLine(d, m)
      /\ e.steal = IF Starts(d, m) THEN d.steal + DmaCost ELSE d.steal
      /\ e.dma = IF Starts(d, m) THEN [d.dma EXCEPT !.on = d.dma.repeat] ELSE d.dma
      /\ e.if = d.if \cup {TimerIrq(t) : t \in RunOut(d, m)}
                     \cup (IF Shifted(d, m) /\ d.serial.irq THEN {"serial"} ELSE {})
                     \cup (IF Starts(d, m) /\ d.dma.irq THEN {"dma"} ELSE {})
                     \cup Asks(d, m)
      /\ e.control = d.control /\ e.reload = d.reload /\ e.stat = d.stat
      /\ e.ie = d.ie /\ e.halted = d.halted
  BY <1>0, ChunkIs
<1> HIDE DEF e
<1>2. RunOut(d, m) = {}
  BY QuietCounts DEF RunOut
<1>3. e.if = d.if
  BY <1>1, <1>2, QuietSerial, QuietPicture
<1>4. \A t \in Timers : e.counter[t] = d.counter[t] + TimerTicks(d, t, m)
  BY <1>1, QuietCounts
<1>5. e.left = IF d.left = 0 THEN 0 ELSE d.left - m
  BY <1>1, QuietSerial
<1> QED BY <1>1, <1>3, <1>4, <1>5, QuietSerial, QuietPicture DEF e

(* What is left of the time to the next event, after it. *)
LEMMA QuietDistance ==
    ASSUME NEW d \in Device, NEW m, Quiet(d, m), NEW t \in Timers
    PROVE  LET e == Chunk(d, m)
           IN  /\ e.control = d.control /\ Clocked(e) = Clocked(d)
               /\ t \in Clocked(d) => UntilOverflow(e, t) = UntilOverflow(d, t) - m
<1> DEFINE e == Chunk(d, m)
<1>1. /\ e \in Device /\ e.control = d.control /\ e.accum[t] = NewAccum(d, t, m)
      /\ e.counter[t] = d.counter[t] + TimerTicks(d, t, m)
  BY QuietChunk
<1> HIDE DEF e
<1>2. Clocked(e) = Clocked(d)
  BY <1>1 DEF Clocked, Cascades
<1>3. ASSUME t \in Clocked(d)
      PROVE  UntilOverflow(e, t) = UntilOverflow(d, t) - m
  <2> DEFINE p == Prescale[d.control[t].select]
             a == d.accum[t] + m
             q == a \div p
             r == a % p
             room == Overflow - d.counter[t]
  <2>1. m \in Nat /\ p \in Nat \ {0} /\ room \in Nat /\ d.accum[t] \in Nat
        /\ d.counter[t] \in Nat /\ Overflow \in Nat
    BY TimerTyped, DevicesAssumption DEF Quiet
  <2>2. a \in Nat
    BY <2>1
  <2>3. Distance(d, t) = room * p - d.accum[t]
    BY DEF Distance
  <2>4. e.accum[t] = r /\ e.counter[t] = d.counter[t] + q
        /\ Prescale[e.control[t].select] = p
    BY <1>1, <1>3 DEF TimerTicks, NewAccum
  <2>a. a = d.accum[t] + m /\ room = Overflow - d.counter[t]
    OBVIOUS
  <2> HIDE DEF p, a, room
  <2>5. q \in Nat /\ r \in 0 .. p - 1 /\ a = p * q + r
    BY <2>1, <2>2, DivMod
  <2> HIDE DEF q, r
  <2>6. Distance(e, t) = (room - q) * p - r
    <3>1. Overflow - (d.counter[t] + q) = room - q
      BY <2>1, <2>5, <2>a
    <3> QED BY <2>4, <3>1 DEF Distance
  <2>7. (room - q) * p = room * p - p * q /\ room * p \in Int /\ p * q \in Int
    BY <2>1, <2>5
  <2>8. Distance(e, t) = Distance(d, t) - m
    <3> DEFINE v == room * p
               w == p * q
    <3>1. v \in Int /\ w \in Int /\ Distance(e, t) = v - w - r /\ a = w + r
          /\ Distance(d, t) = v - d.accum[t] /\ r \in Int
      BY <2>1, <2>3, <2>5, <2>6, <2>7
    <3> HIDE DEF v, w
    <3> QED BY <2>1, <2>a, <3>1
  <2>9. m < Distance(d, t) /\ Distance(d, t) \in Int
    BY <1>3, QuietTimer, UntilOverflowIs
  <2>10. UntilOverflow(d, t) = Distance(d, t)
    BY <2>1, <2>9, UntilOverflowIs
  <2>11. UntilOverflow(e, t) = Distance(e, t)
    BY <1>1, <2>1, <2>8, <2>9, UntilOverflowIs
  <2> QED BY <2>8, <2>10, <2>11
<1> QED BY <1>1, <1>2, <1>3 DEF e

LEMMA QuietHorizon ==
    ASSUME NEW d \in Device, NEW m, Quiet(d, m)
    PROVE  Horizon(Chunk(d, m)) = Horizon(d) - m
<1> DEFINE e == Chunk(d, m)
<1>0. 0 \in Timers /\ m \in Nat /\ m < Horizon(d) /\ Horizon(d) \in Nat
  BY HorizonIs DEF Timers, Quiet
<1>1. /\ e \in Device /\ e.dot = d.dot + m /\ e.left = IF d.left = 0 THEN 0 ELSE d.left - m
      /\ Clocked(e) = Clocked(d)
      /\ \A t \in Clocked(d) : UntilOverflow(e, t) = UntilOverflow(d, t) - m
  <2>1. \A t \in Timers : t \in Clocked(d) => UntilOverflow(e, t) = UntilOverflow(d, t) - m
    BY QuietDistance
  <2>2. Clocked(d) \subseteq Timers
    BY DEF Clocked
  <2> QED BY <1>0, <2>1, <2>2, QuietChunk, QuietDistance
<1> HIDE DEF e
<1>2. /\ (d.dot + m < Visible <=> d.dot < Visible) /\ d.dot \in Int
      /\ Visible \in Int /\ Line \in Int
  BY QuietPicture, DeviceTyped, DevicesAssumption
<1>3. (d.left > 0 => m < d.left) /\ d.left \in Nat
  BY QuietSerial, DeviceTyped, DevicesAssumption
<1>4. \A x \in Soon(d) : x - m \in Soon(e)
  <2> TAKE x \in Soon(d)
  <2>1. CASE x \in UntilPicture(d)
    BY <1>0, <1>1, <1>2, <2>1 DEF UntilPicture, Soon
  <2>2. CASE x \in UntilTimer(d)
    BY <1>1, <2>2 DEF UntilTimer, Soon
  <2>3. CASE x \in UntilSerial(d)
    BY <1>0, <1>1, <1>3, <2>3 DEF UntilSerial, Soon
  <2> QED BY <2>1, <2>2, <2>3 DEF Soon
<1>5. \A y \in Soon(e) : \E x \in Soon(d) : y = x - m
  <2> TAKE y \in Soon(e)
  <2>1. CASE y \in UntilPicture(e)
    <3> DEFINE x == IF d.dot < Visible THEN Visible - d.dot ELSE Line - d.dot
    <3>1. x \in Soon(d) /\ y = x - m
      BY <1>0, <1>1, <1>2, <2>1 DEF UntilPicture, Soon
    <3> QED BY <3>1
  <2>2. CASE y \in UntilTimer(e)
    <3>1. PICK t \in Clocked(e) : y = UntilOverflow(e, t)
      BY <2>2 DEF UntilTimer
    <3>2. UntilOverflow(d, t) \in Soon(d) /\ y = UntilOverflow(d, t) - m
      BY <1>1, <3>1 DEF UntilTimer, Soon
    <3> QED BY <3>2
  <2>3. CASE y \in UntilSerial(e)
    <3>1. d.left \in Soon(d) /\ y = d.left - m
      BY <1>0, <1>1, <1>3, <2>3 DEF UntilSerial, Soon
    <3> QED BY <3>1
  <2> QED BY <2>1, <2>2, <2>3 DEF Soon
<1>6. Horizon(d) \in Soon(d) /\ \A x \in Soon(d) : Horizon(d) <= x /\ x \in Nat
  BY HorizonIs, SoonTyped
<1>7. Horizon(d) - m \in Soon(e) /\ \A y \in Soon(e) : Horizon(d) - m <= y
  BY <1>0, <1>4, <1>5, <1>6
<1>8. Soon(e) \in SUBSET Nat
  BY <1>1, SoonTyped
<1>9. Horizon(e) = Min(Soon(e))
  BY DEF Horizon, Soon
<1>10. Min(Soon(e)) = Horizon(d) - m
  BY <1>7, <1>8, MinIs
<1> QED BY <1>9, <1>10 DEF e

(* A timer counts in two chunks what it counts in one. *)
LEMMA QuietSplit ==
    ASSUME NEW d \in Device, NEW m, Quiet(d, m), NEW n \in Nat, NEW t \in Timers
    PROVE  LET e == Chunk(d, m)
           IN  /\ TimerTicks(d, t, m + n) = TimerTicks(d, t, m) + TimerTicks(e, t, n)
               /\ NewAccum(d, t, m + n) = NewAccum(e, t, n)
<1> DEFINE e == Chunk(d, m)
           p == Prescale[d.control[t].select]
           a == d.accum[t] + m
<1>1. /\ e \in Device /\ e.control = d.control /\ e.accum[t] = NewAccum(d, t, m)
      /\ Clocked(e) = Clocked(d)
  BY QuietChunk, QuietDistance
<1> HIDE DEF e
<1>2. m \in Nat /\ p \in Nat \ {0} /\ d.accum[t] \in Nat
  BY TimerTyped DEF Quiet
<1>3. CASE t \notin Clocked(d)
  BY <1>1, <1>3 DEF TimerTicks, NewAccum, e
<1>4. CASE t \in Clocked(d)
  <2>1. a \in Nat /\ d.accum[t] + (m + n) = a + n
    BY <1>2
  <2>2. /\ TimerTicks(d, t, m + n) = (a + n) \div p /\ NewAccum(d, t, m + n) = (a + n) % p
        /\ TimerTicks(d, t, m) = a \div p /\ NewAccum(d, t, m) = a % p
    BY <1>4, <2>1 DEF TimerTicks, NewAccum
  <2>3. TimerTicks(e, t, n) = ((a % p) + n) \div p /\ NewAccum(e, t, n) = ((a % p) + n) % p
    BY <1>1, <1>4, <2>2 DEF TimerTicks, NewAccum
  <2> HIDE DEF a, p
  <2>4. (a + n) \div p = (a \div p) + (((a % p) + n) \div p) /\ (a + n) % p = ((a % p) + n) % p
    BY <1>2, <2>1, SplitCount
  <2> QED BY <2>2, <2>3, <2>4 DEF e
<1> QED BY <1>3, <1>4

LEMMA QuietCountsOn ==
    ASSUME NEW d \in Device, NEW m, Quiet(d, m), NEW t \in Timers, NEW k \in Nat
    PROVE  LET e == Chunk(d, m)
           IN  /\ Overflows(e, t, k) = Overflows(d, t, TimerTicks(d, t, m) + k)
               /\ Counted(e, t, k) = Counted(d, t, TimerTicks(d, t, m) + k)
<1> DEFINE e == Chunk(d, m)
           q == TimerTicks(d, t, m)
<1>1. e \in Device /\ e.reload = d.reload /\ e.counter[t] = d.counter[t] + q
  BY QuietChunk
<1>2. m \in Nat
  BY DEF Quiet
<1>3. q \in Nat /\ d.counter[t] \in Nat /\ Overflow \in Nat
  BY <1>2, TimerTicksTyped, TimerTyped, DevicesAssumption
<1> HIDE DEF e, q
<1>4. Past(e, t, k) = Past(d, t, q + k) /\ Period(e, t) = Period(d, t)
  BY <1>1, <1>3 DEF Past, Period
<1>5. e.counter[t] + k = d.counter[t] + (q + k)
  BY <1>1, <1>3
<1>6. Overflows(e, t, k) = Overflows(d, t, q + k)
  BY <1>4 DEF Overflows
<1>7. Counted(e, t, k) = Counted(d, t, q + k)
  BY <1>1, <1>4, <1>5 DEF Counted
<1> QED BY <1>6, <1>7 DEF e, q

LEMMA QuietSecond ==
    ASSUME NEW d \in Device, NEW m, Quiet(d, m), NEW n \in Nat, NEW t \in Timers
    PROVE  Counts(d, t, m + n) = TimerTicks(d, t, m) + Counts(Chunk(d, m), t, n)
<1> DEFINE e == Chunk(d, m)
<1>0. m \in Nat /\ m + n \in Nat /\ 0 \in Timers /\ 1 \in Timers /\ (t = 0 \/ t = 1)
  BY DEF Quiet, Timers
<1>1. e \in Device /\ e.control = d.control
  BY QuietChunk
<1>2. \A u \in Timers : TimerTicks(d, u, m + n) = TimerTicks(d, u, m) + TimerTicks(e, u, n)
  BY QuietSplit
<1> HIDE DEF e
<1>3. CASE t = 0
  BY <1>2, <1>3 DEF Counts, e
<1>4. CASE t = 1 /\ d.control[1].on /\ Cascades(d, 1)
  <2>1. TimerTicks(d, 1, m) = 0
    BY <1>4 DEF TimerTicks, Clocked
  <2>2. Cascades(e, 1) /\ e.control[1].on
    BY <1>1, <1>4 DEF Cascades
  <2>3. Counts(d, t, m + n) = Overflows(d, 0, TimerTicks(d, 0, m + n))
        /\ Counts(e, t, n) = Overflows(e, 0, TimerTicks(e, 0, n))
    BY <1>4, <2>2 DEF Counts, Second
  <2>4. TimerTicks(e, 0, n) \in Nat
    BY <1>0, <1>1, TimerTicksTyped
  <2>5. Overflows(e, 0, TimerTicks(e, 0, n))
          = Overflows(d, 0, TimerTicks(d, 0, m) + TimerTicks(e, 0, n))
    BY <1>0, <2>4, QuietCountsOn DEF e
  <2>6. Counts(d, t, m + n) = Counts(e, t, n)
    BY <1>0, <1>2, <2>3, <2>5
  <2>7. Counts(e, t, n) \in Nat
    BY <1>1, CountsTyped
  <2> QED BY <1>4, <2>1, <2>6, <2>7 DEF e
<1>5. CASE t = 1 /\ ~(d.control[1].on /\ Cascades(d, 1))
  <2>1. ~(e.control[1].on /\ Cascades(e, 1))
    BY <1>1, <1>5 DEF Cascades
  <2>2. Counts(d, t, m + n) = TimerTicks(d, 1, m + n) /\ Counts(e, t, n) = TimerTicks(e, 1, n)
    BY <1>5, <2>1 DEF Counts, Second
  <2> QED BY <1>0, <1>2, <1>5, <2>2 DEF e
<1> QED BY <1>0, <1>3, <1>4, <1>5

LEMMA QuietPictureOn ==
    ASSUME NEW d \in Device, NEW m, Quiet(d, m), NEW n \in Nat
    PROVE  LET e == Chunk(d, m)
           IN  /\ NewDot(e, n) = NewDot(d, m + n) /\ NewLine(e, n) = NewLine(d, m + n)
               /\ (Starts(e, n) <=> Starts(d, m + n)) /\ Asks(e, n) = Asks(d, m + n)
               /\ NewLeft(e, n) = NewLeft(d, m + n)
               /\ (Shifted(e, n) <=> Shifted(d, m + n))
<1> DEFINE e == Chunk(d, m)
<1>1. /\ e \in Device /\ e.dot = d.dot + m /\ e.line = d.line /\ e.stat = d.stat
      /\ e.dma = d.dma /\ e.left = IF d.left = 0 THEN 0 ELSE d.left - m
  BY QuietChunk
<1> HIDE DEF e
<1>2. m \in Nat /\ d.dot \in Nat /\ d.left \in Nat /\ Line \in Nat
  BY DeviceTyped, DevicesAssumption DEF Quiet
<1>3. e.dot + n = d.dot + (m + n)
  BY <1>1, <1>2
<1>4. NewDot(e, n) = NewDot(d, m + n) /\ NewLine(e, n) = NewLine(d, m + n)
  BY <1>1, <1>3 DEF NewDot, NewLine
<1>5. (Starts(e, n) <=> Starts(d, m + n)) /\ Asks(e, n) = Asks(d, m + n)
  BY <1>1, <1>4 DEF Starts, Asks, HBlanks, VBlanks
<1>6. d.left > 0 => m < d.left
  BY QuietSerial
<1>7. NewLeft(e, n) = NewLeft(d, m + n) /\ (Shifted(e, n) <=> Shifted(d, m + n))
  BY <1>1, <1>2, <1>6 DEF NewLeft, Shifted
<1> QED BY <1>4, <1>5, <1>7 DEF e

(* A chunk may be cut before the next event. *)
LEMMA QuietThen ==
    ASSUME NEW d \in Device, NEW m, Quiet(d, m), NEW n \in Nat
    PROVE  Chunk(Chunk(d, m), n) = Chunk(d, m + n)
<1> DEFINE e == Chunk(d, m)
           f == Chunk(e, n)
           g == Chunk(d, m + n)
<1>0. m + n \in Nat
  BY DEF Quiet
<1>1. /\ e \in Device /\ e.steal = d.steal /\ e.dma = d.dma /\ e.if = d.if
      /\ e.serial = d.serial /\ e.control = d.control /\ e.reload = d.reload
      /\ e.stat = d.stat /\ e.ie = d.ie /\ e.halted = d.halted
  BY QuietChunk
<1>2. /\ \A t \in Timers : Counts(d, t, m + n) = TimerTicks(d, t, m) + Counts(e, t, n)
      /\ \A t \in Timers : NewAccum(d, t, m + n) = NewAccum(e, t, n)
  BY QuietSecond, QuietSplit
<1>3. \A t \in Timers : Counts(e, t, n) \in Nat
  BY <1>1, CountsTyped
<1>4. \A t \in Timers :
         /\ Overflows(e, t, Counts(e, t, n)) = Overflows(d, t, Counts(d, t, m + n))
         /\ Counted(e, t, Counts(e, t, n)) = Counted(d, t, Counts(d, t, m + n))
  BY <1>2, <1>3, QuietCountsOn
<1>5. /\ NewDot(e, n) = NewDot(d, m + n) /\ NewLine(e, n) = NewLine(d, m + n)
      /\ (Starts(e, n) <=> Starts(d, m + n)) /\ Asks(e, n) = Asks(d, m + n)
      /\ NewLeft(e, n) = NewLeft(d, m + n) /\ (Shifted(e, n) <=> Shifted(d, m + n))
  BY QuietPictureOn
<1> HIDE DEF e
<1>6. RunOut(e, n) = RunOut(d, m + n)
  BY <1>1, <1>4 DEF RunOut
<1>7. /\ f \in Device
      /\ f.counter = [t \in Timers |-> Counted(e, t, Counts(e, t, n))]
      /\ f.accum = [t \in Timers |-> NewAccum(e, t, n)]
      /\ f.left = NewLeft(e, n)
      /\ f.serial = IF Shifted(e, n) THEN [e.serial EXCEPT !.busy = FALSE] ELSE e.serial
      /\ f.dot = NewDot(e, n) /\ f.line = NewLine(e, n)
      /\ f.steal = IF Starts(e, n) THEN e.steal + DmaCost ELSE e.steal
      /\ f.dma = IF Starts(e, n) THEN [e.dma EXCEPT !.on = e.dma.repeat] ELSE e.dma
      /\ f.if = e.if \cup {TimerIrq(t) : t \in RunOut(e, n)}
                     \cup (IF Shifted(e, n) /\ e.serial.irq THEN {"serial"} ELSE {})
                     \cup (IF Starts(e, n) /\ e.dma.irq THEN {"dma"} ELSE {})
                     \cup Asks(e, n)
      /\ f.control = e.control /\ f.reload = e.reload /\ f.stat = e.stat
      /\ f.ie = e.ie /\ f.halted = e.halted
  BY <1>1, ChunkIs
<1>8. /\ g \in Device
      /\ g.counter = [t \in Timers |-> Counted(d, t, Counts(d, t, m + n))]
      /\ g.accum = [t \in Timers |-> NewAccum(d, t, m + n)]
      /\ g.left = NewLeft(d, m + n)
      /\ g.serial = IF Shifted(d, m + n) THEN [d.serial EXCEPT !.busy = FALSE] ELSE d.serial
      /\ g.dot = NewDot(d, m + n) /\ g.line = NewLine(d, m + n)
      /\ g.steal = IF Starts(d, m + n) THEN d.steal + DmaCost ELSE d.steal
      /\ g.dma = IF Starts(d, m + n) THEN [d.dma EXCEPT !.on = d.dma.repeat] ELSE d.dma
      /\ g.if = d.if \cup {TimerIrq(t) : t \in RunOut(d, m + n)}
                     \cup (IF Shifted(d, m + n) /\ d.serial.irq THEN {"serial"} ELSE {})
                     \cup (IF Starts(d, m + n) /\ d.dma.irq THEN {"dma"} ELSE {})
                     \cup Asks(d, m + n)
      /\ g.control = d.control /\ g.reload = d.reload /\ g.stat = d.stat
      /\ g.ie = d.ie /\ g.halted = d.halted
  BY <1>0, ChunkIs
<1> HIDE DEF f, g
<1>9. f.counter = g.counter /\ f.accum = g.accum
  BY <1>2, <1>4, <1>7, <1>8
<1>10. /\ f.left = g.left /\ f.serial = g.serial /\ f.dot = g.dot /\ f.line = g.line
       /\ f.steal = g.steal /\ f.dma = g.dma
  BY <1>1, <1>5, <1>7, <1>8
<1>11. f.if = g.if
  BY <1>1, <1>5, <1>6, <1>7, <1>8
<1>12. f.control = g.control /\ f.reload = g.reload /\ f.stat = g.stat /\ f.ie = g.ie
       /\ f.halted = g.halted
  BY <1>1, <1>7, <1>8
<1>13. f = g
  BY <1>7, <1>8, <1>9, <1>10, <1>11, <1>12, SameDevice
<1> QED BY <1>13 DEF e, f, g

-----------------------------------------------------------------------------
(* The loop over chunks: the recursive function After exists, since every    *)
(* chunk takes at least a cycle.                                             *)

(* The next chunk of n cycles. *)
Part(d, n) == IF n <= Horizon(d) THEN n ELSE Horizon(d)

LEMMA PartIs ==
    ASSUME NEW d \in Device, NEW n \in Nat
    PROVE  /\ Min({n, Horizon(d)}) = Part(d, n)
           /\ n # 0 => Part(d, n) \in 1 .. n /\ n - Part(d, n) \in 0 .. n - 1
<1>1. Horizon(d) \in Nat \ {0}
  BY HorizonIs
<1>2. Horizon(d) \in Nat
  BY <1>1
<1>3. Min({n, Horizon(d)}) = Part(d, n)
  BY <1>2, MinOfTwo DEF Part
<1> QED BY <1>1, <1>3 DEF Part

Step(g, n) ==
    [d \in Device |->
        IF n = 0 THEN d ELSE g[n - Part(d, n)][Chunk(d, Part(d, n))]]
Upto(g, n) == g = [i \in 0 .. n |-> Step(g, i)]

LEMMA StepLooksBack ==
    ASSUME NEW n \in Nat, NEW g, NEW h, \A i \in 0 .. n - 1 : g[i] = h[i]
    PROVE  Step(g, n) = Step(h, n)
<1>1. ASSUME NEW d \in Device, n # 0
      PROVE  g[n - Part(d, n)] = h[n - Part(d, n)]
  <2>1. n - Part(d, n) \in 0 .. n - 1
    BY <1>1, PartIs
  <2> QED BY <2>1
<1> QED BY <1>1 DEF Step

LEMMA UptoAgree ==
    ASSUME NEW m \in Nat, NEW n \in Nat, m <= n, NEW g, NEW h, Upto(g, m), Upto(h, n)
    PROVE  \A i \in 0 .. m : g[i] = h[i]
<1> DEFINE differ == {i \in 0 .. m : g[i] # h[i]}
<1>1. SUFFICES ASSUME differ # {}
               PROVE  FALSE
  OBVIOUS
<1>2. differ \in SUBSET Nat
  OBVIOUS
<1>3. PICK x \in differ : \A y \in differ : x <= y
  <2> HIDE DEF differ
  <2> QED BY <1>1, <1>2, LeastExists
<1>4. x \in 0 .. m /\ x \in 0 .. n /\ x \in Nat /\ g[x] # h[x]
  OBVIOUS
<1>5. \A i \in 0 .. x - 1 : g[i] = h[i]
  BY <1>3, <1>4
<1>6. Step(g, x) = Step(h, x)
  BY <1>4, <1>5, StepLooksBack
<1>7. g[x] = Step(g, x) /\ h[x] = Step(h, x)
  BY <1>4 DEF Upto
<1> QED BY <1>4, <1>6, <1>7

LEMMA UptoExists ==
    ASSUME NEW n \in Nat
    PROVE  \E g : Upto(g, n)
<1> DEFINE without == {i \in Nat : \A g : ~Upto(g, i)}
<1>1. SUFFICES ASSUME without # {}
               PROVE  FALSE
  OBVIOUS
<1>2. without \in SUBSET Nat
  OBVIOUS
<1>3. PICK x \in without : \A y \in without : x <= y
  <2> HIDE DEF without
  <2> QED BY <1>1, <1>2, LeastExists
<1>4. x \in Nat /\ \A g : ~Upto(g, x)
  OBVIOUS
<1>5. CASE x = 0
  <2> DEFINE g == [i \in 0 .. 0 |-> Step(<<>>, i)]
  <2>1. \A i \in 0 .. 0 : Step(g, i) = Step(<<>>, i)
    <3>1. \A i \in 0 .. 0 : i = 0
      OBVIOUS
    <3> QED BY <3>1 DEF Step
  <2>2. g = [i \in 0 .. 0 |-> Step(g, i)]
    <3> HIDE DEF g
    <3>1. [i \in 0 .. 0 |-> Step(g, i)] = [i \in 0 .. 0 |-> Step(<<>>, i)]
      BY <2>1
    <3> QED BY <3>1 DEF g
  <2> HIDE DEF g
  <2> QED BY <1>4, <1>5, <2>2 DEF Upto
<1>6. CASE x # 0
  <2>1. x - 1 \in Nat /\ x - 1 \notin without
    BY <1>3, <1>4, <1>6
  <2>2. PICK h : Upto(h, x - 1)
    BY <2>1
  <2> DEFINE g == [i \in 0 .. x |-> IF i = x THEN Step(h, x) ELSE h[i]]
  <2>3. \A i \in 0 .. x - 1 : g[i] = h[i] /\ h[i] = Step(h, i) /\ i \in 0 .. x /\ i # x
    BY <1>4, <2>2 DEF Upto
  <2>4. g[x] = Step(h, x)
    BY <1>4
  <2>5. g = [i \in 0 .. x |-> g[i]]
    OBVIOUS
  <2> HIDE DEF g
  <2>6. ASSUME NEW i \in 0 .. x
        PROVE  g[i] = Step(g, i)
    <3>1. i \in Nat /\ \A j \in 0 .. i - 1 : j \in 0 .. x - 1
      BY <1>4
    <3>2. \A j \in 0 .. i - 1 : g[j] = h[j]
      BY <2>3, <3>1
    <3>3. Step(g, i) = Step(h, i)
      BY <3>1, <3>2, StepLooksBack
    <3>4. i = x \/ i \in 0 .. x - 1
      BY <1>4
    <3> QED BY <2>3, <2>4, <3>3, <3>4
  <2>7. g = [i \in 0 .. x |-> Step(g, i)]
    BY <2>5, <2>6
  <2> QED BY <1>4, <2>7 DEF Upto
<1> QED BY <1>5, <1>6

LEMMA AfterDefined == After = [n \in Nat |-> Step(After, n)]
<1> DEFINE G(n) == CHOOSE g : Upto(g, n)
           f == [n \in Nat |-> G(n)[n]]
<1>1. \A n \in Nat : Upto(G(n), n)
  <2> TAKE n \in Nat
  <2>1. \E g : Upto(g, n)
    BY UptoExists
  <2> QED BY <2>1
<1>2. \A n \in Nat : f[n] = G(n)[n]
  OBVIOUS
<1>3. f = [n \in Nat |-> f[n]]
  OBVIOUS
<1> HIDE DEF G, f
<1>4. ASSUME NEW n \in Nat
      PROVE  f[n] = Step(f, n)
  <2>1. \A i \in 0 .. n - 1 : f[i] = G(n)[i]
    <3> TAKE i \in 0 .. n - 1
    <3>1. i \in Nat /\ i <= n /\ i \in 0 .. i
      OBVIOUS
    <3>2. Upto(G(i), i) /\ Upto(G(n), n)
      BY <1>1, <3>1
    <3>3. \A j \in 0 .. i : G(i)[j] = G(n)[j]
      BY <3>1, <3>2, UptoAgree
    <3> QED BY <1>2, <3>1, <3>3
  <2>2. Step(f, n) = Step(G(n), n)
    BY <2>1, StepLooksBack
  <2>3. G(n)[n] = Step(G(n), n)
    <3>1. n \in 0 .. n
      OBVIOUS
    <3> QED BY <1>1, <3>1 DEF Upto
  <2> QED BY <1>2, <2>2, <2>3
<1>5. f = [n \in Nat |-> Step(f, n)]
  BY <1>3, <1>4
<1> DEFINE Body(g, n) == [d \in Device |->
              IF n = 0 THEN d
              ELSE LET c == Min({n, Horizon(d)}) IN g[n - c][Chunk(d, c)]]
<1>6. \A g : \A n \in Nat : Body(g, n) = Step(g, n)
  BY PartIs DEF Step
<1>7. After = CHOOSE g : g = [n \in Nat |-> Body(g, n)]
  BY DEF After
<1> HIDE DEF Body
<1>8. f = [n \in Nat |-> Body(f, n)]
  BY <1>5, <1>6
<1>9. After = [n \in Nat |-> Body(After, n)]
  BY <1>7, <1>8
<1> QED BY <1>6, <1>9

LEMMA TickedIs ==
    ASSUME NEW d \in Device, NEW n \in Nat
    PROVE  Ticked(d, n) =
              IF n = 0 THEN d ELSE Ticked(Chunk(d, Part(d, n)), n - Part(d, n))
<1>1. After[n] = Step(After, n)
  BY AfterDefined
<1> QED BY <1>1 DEF Ticked, Step

LEMMA PartTyped ==
    ASSUME NEW d \in Device, NEW n \in Nat \ {0}
    PROVE  /\ Part(d, n) \in Nat \ {0} /\ n - Part(d, n) \in Nat /\ n - Part(d, n) < n
           /\ Chunk(d, Part(d, n)) \in Device
<1>1. n \in Nat /\ n # 0
  OBVIOUS
<1>2. Part(d, n) \in 1 .. n /\ n - Part(d, n) \in 0 .. n - 1
  BY <1>1, PartIs
<1>3. Part(d, n) \in Nat
  BY <1>2
<1>4. Chunk(d, Part(d, n)) \in Device
  BY <1>3, ChunkIs
<1> QED BY <1>2, <1>4

LEMMA TickedTyped ==
    ASSUME NEW d \in Device, NEW n \in Nat
    PROVE  Ticked(d, n) \in Device
<1> DEFINE bad == {i \in Nat : \E e \in Device : Ticked(e, i) \notin Device}
<1>1. SUFFICES ASSUME bad # {}
               PROVE  FALSE
  OBVIOUS
<1>2. bad \in SUBSET Nat
  OBVIOUS
<1>3. PICK x \in bad : \A y \in bad : x <= y
  <2> HIDE DEF bad
  <2> QED BY <1>1, <1>2, LeastExists
<1>4. PICK e \in Device : Ticked(e, x) \notin Device
  OBVIOUS
<1>5. x \in Nat
  OBVIOUS
<1>6. x # 0
  BY <1>4, <1>5, TickedIs
<1>7. x \in Nat \ {0}
  BY <1>5, <1>6
<1>8. Ticked(e, x) = Ticked(Chunk(e, Part(e, x)), x - Part(e, x))
  BY <1>5, <1>6, TickedIs
<1>9. /\ x - Part(e, x) \in Nat /\ x - Part(e, x) < x /\ Chunk(e, Part(e, x)) \in Device
  BY <1>7, PartTyped
<1>10. x - Part(e, x) \notin bad
  <2> HIDE DEF bad
  <2> QED BY <1>3, <1>5, <1>9
<1> QED BY <1>4, <1>8, <1>9, <1>10

LEMMA TickedEarly ==
    ASSUME NEW d \in Device, NEW m \in Nat, m < Horizon(d)
    PROVE  /\ Ticked(d, m) = IF m = 0 THEN d ELSE Chunk(d, m)
           /\ m # 0 => Quiet(d, m)
           /\ Horizon(Ticked(d, m)) = Horizon(d) - m
<1>0. Horizon(d) \in Nat
  BY HorizonIs
<1>1. CASE m = 0
  BY <1>0, <1>1, TickedIs
<1>2. CASE m # 0
  <2>1. Quiet(d, m) /\ Part(d, m) = m
    BY <1>0, <1>2 DEF Quiet, Part
  <2>2. m - m = 0 /\ 0 \in Nat
    OBVIOUS
  <2>3. Chunk(d, m) \in Device
    BY ChunkIs
  <2>4. Ticked(d, m) = Ticked(Chunk(d, m), 0)
    BY <1>2, <2>1, <2>2, TickedIs
  <2>5. Ticked(Chunk(d, m), 0) = Chunk(d, m)
    BY <2>2, <2>3, TickedIs
  <2> QED BY <1>2, <2>1, <2>4, <2>5, QuietHorizon
<1> QED BY <1>1, <1>2

LEMMA AddsEarly ==
    ASSUME NEW d \in Device, NEW m \in Nat, m < Horizon(d), NEW n \in Nat
    PROVE  Ticked(Ticked(d, m), n) = Ticked(d, m + n)
<1>0. Horizon(d) \in Nat \ {0} /\ m + n \in Nat /\ m + 0 = m /\ 0 + n = n
  BY HorizonIs
<1>1. CASE m = 0
  BY <1>0, <1>1, TickedIs
<1>2. CASE n = 0
  <2>1. Ticked(d, m) \in Device
    BY TickedTyped
  <2> QED BY <1>0, <1>2, <2>1, TickedIs
<1>3. CASE m # 0 /\ n # 0
  <2> DEFINE e == Chunk(d, m)
             p == Part(e, n)
  <2>1. Quiet(d, m) /\ Ticked(d, m) = e /\ Horizon(e) = Horizon(d) - m
    BY <1>3, TickedEarly
  <2>2. e \in Device
    BY ChunkIs
  <2>3. p \in 1 .. n
    BY <1>3, <2>2, PartIs
  <2>4. p \in Nat /\ Part(d, m + n) = m + p /\ (m + n) - (m + p) = n - p /\ m + n # 0
    BY <1>0, <1>3, <2>1, <2>3 DEF Part
  <2>5. Ticked(e, n) = Ticked(Chunk(e, p), n - p)
    BY <1>3, <2>2, TickedIs
  <2>6. Chunk(e, p) = Chunk(d, m + p)
    BY <2>1, <2>4, QuietThen
  <2>7. Ticked(d, m + n) = Ticked(Chunk(d, m + p), n - p)
    BY <1>0, <2>4, TickedIs
  <2> QED BY <2>1, <2>5, <2>6, <2>7
<1> QED BY <1>1, <1>2, <1>3

(* Time passes at once or bit by bit. *)
LEMMA TickedAdds ==
    ASSUME NEW d \in Device, NEW m \in Nat, NEW n \in Nat
    PROVE  Ticked(Ticked(d, m), n) = Ticked(d, m + n)
<1> DEFINE Adds(i, e) == Ticked(Ticked(e, i), n) = Ticked(e, i + n)
           bad == {i \in Nat : \E e \in Device : ~Adds(i, e)}
<1>1. SUFFICES ASSUME bad # {}
               PROVE  FALSE
  OBVIOUS
<1>2. bad \in SUBSET Nat
  OBVIOUS
<1>3. PICK x \in bad : \A y \in bad : x <= y
  <2> HIDE DEF bad
  <2> QED BY <1>1, <1>2, LeastExists
<1>4. PICK e \in Device : ~Adds(x, e)
  OBVIOUS
<1>5. x \in Nat /\ \A y \in Nat : y < x => y \notin bad
  <2>1. x \in Nat
    OBVIOUS
  <2> HIDE DEF bad
  <2> QED BY <1>3, <2>1
<1>6. \A y \in Nat : y < x => \A f \in Device : Adds(y, f)
  BY <1>5
<1> HIDE DEF bad
<1> DEFINE H == Horizon(e)
<1>7. H \in Nat \ {0}
  BY HorizonIs
<1>8. CASE x < H
  BY <1>4, <1>5, <1>8, AddsEarly
<1>9. CASE ~(x < H)
  <2> DEFINE f == Chunk(e, H)
  <2>1. x # 0 /\ x + n # 0 /\ x - H \in Nat /\ x - H < x /\ x + n \in Nat
        /\ (x - H) + n = (x + n) - H /\ H \in Nat
    BY <1>5, <1>7, <1>9
  <2>2. f \in Device
    BY <2>1, ChunkIs
  <2>3. Part(e, x) = H /\ Part(e, x + n) = H
    BY <1>5, <1>7, <1>9 DEF Part
  <2>4. Ticked(e, x) = Ticked(f, x - H)
    BY <1>5, <2>1, <2>3, TickedIs
  <2>5. Ticked(e, x + n) = Ticked(f, (x + n) - H)
    BY <2>1, <2>3, TickedIs
  <2>6. Ticked(Ticked(f, x - H), n) = Ticked(f, (x - H) + n)
    <3>1. Adds(x - H, f)
      BY <1>6, <2>1, <2>2
    <3> QED BY <3>1
  <2> QED BY <1>4, <2>1, <2>4, <2>5, <2>6
<1> QED BY <1>8, <1>9

LEMMA TickedQuietly ==
    ASSUME NEW d \in Device, NEW m \in Nat, m < Horizon(d)
    PROVE  LET e == Ticked(d, m)
           IN  /\ e.steal = d.steal /\ e.halted = d.halted
               /\ (IrqPending(e) <=> IrqPending(d))
<1>1. CASE m = 0
  BY <1>1, TickedEarly
<1>2. CASE m # 0
  <2>1. Quiet(d, m) /\ Ticked(d, m) = Chunk(d, m)
    BY <1>2, TickedEarly
  <2> QED BY <2>1, QuietChunk DEF IrqPending
<1> QED BY <1>1, <1>2

(* Stolen cycles and the halt do not matter to time. *)
Aside(d, s, h) == [d EXCEPT !.steal = s, !.halted = h]

LEMMA AsideIs ==
    ASSUME NEW d \in Device, NEW s \in Nat, NEW h \in BOOLEAN
    PROVE  LET e == Aside(d, s, h)
           IN  /\ e \in Device /\ e.steal = s /\ e.halted = h
               /\ e.counter = d.counter /\ e.accum = d.accum /\ e.control = d.control
               /\ e.reload = d.reload /\ e.dot = d.dot /\ e.line = d.line
               /\ e.stat = d.stat /\ e.serial = d.serial /\ e.left = d.left
               /\ e.dma = d.dma /\ e.ie = d.ie /\ e.if = d.if
               /\ Horizon(e) = Horizon(d)
               /\ \A t \in Timers, m \in Nat : /\ TimerTicks(e, t, m) = TimerTicks(d, t, m)
                                               /\ NewAccum(e, t, m) = NewAccum(d, t, m)
<1> DEFINE e == Aside(d, s, h)
<1>1. e \in Device
  BY DEF Aside, Device
<1>2. /\ e.steal = s /\ e.halted = h
      /\ e.counter = d.counter /\ e.accum = d.accum /\ e.control = d.control
      /\ e.reload = d.reload /\ e.dot = d.dot /\ e.line = d.line
      /\ e.stat = d.stat /\ e.serial = d.serial /\ e.left = d.left
      /\ e.dma = d.dma /\ e.ie = d.ie /\ e.if = d.if
  BY DEF Aside, Device
<1> HIDE DEF e
<1>3. Clocked(e) = Clocked(d)
  BY <1>2 DEF Clocked, Cascades
<1>4. \A t : UntilOverflow(e, t) = UntilOverflow(d, t)
  BY <1>2 DEF UntilOverflow
<1>5. Soon(e) = Soon(d)
  BY <1>2, <1>3, <1>4 DEF Soon, UntilPicture, UntilTimer, UntilSerial
<1>6. Horizon(e) = Horizon(d)
  BY <1>5 DEF Horizon, Soon
<1>7. \A t \in Timers, m \in Nat : /\ TimerTicks(e, t, m) = TimerTicks(d, t, m)
                                   /\ NewAccum(e, t, m) = NewAccum(d, t, m)
  BY <1>2, <1>3 DEF TimerTicks, NewAccum
<1> QED BY <1>1, <1>2, <1>6, <1>7 DEF e

LEMMA TickedAside ==
    ASSUME NEW d \in Device, NEW s \in Nat, NEW h \in BOOLEAN,
           NEW m \in Nat, m < Horizon(d)
    PROVE  Ticked(Aside(d, s, h), m) = Aside(Ticked(d, m), s, h)
<1> DEFINE e == Aside(d, s, h)
           f == Chunk(e, m)
           g == Chunk(d, m)
           k == Aside(g, s, h)
<1>1. /\ e \in Device /\ e.steal = s /\ e.halted = h
      /\ e.counter = d.counter /\ e.accum = d.accum /\ e.control = d.control
      /\ e.reload = d.reload /\ e.dot = d.dot /\ e.line = d.line
      /\ e.stat = d.stat /\ e.serial = d.serial /\ e.left = d.left
      /\ e.dma = d.dma /\ e.ie = d.ie /\ e.if = d.if
      /\ Horizon(e) = Horizon(d)
      /\ \A t \in Timers : /\ TimerTicks(e, t, m) = TimerTicks(d, t, m)
                           /\ NewAccum(e, t, m) = NewAccum(d, t, m)
  BY AsideIs
<1>2. CASE m = 0
  BY <1>1, <1>2, TickedEarly
<1>3. CASE m # 0
  <2>1. Quiet(d, m) /\ Ticked(d, m) = g
    BY <1>3, TickedEarly
  <2>2. Quiet(e, m) /\ Ticked(e, m) = f
    BY <1>1, <1>3, TickedEarly
  <2> HIDE DEF e
  <2>3. /\ f \in Device
        /\ \A t \in Timers : f.counter[t] = e.counter[t] + TimerTicks(e, t, m)
        /\ \A t \in Timers : f.accum[t] = NewAccum(e, t, m)
        /\ f.left = IF e.left = 0 THEN 0 ELSE e.left - m
        /\ f.dot = e.dot + m /\ f.line = e.line
        /\ f.steal = e.steal /\ f.dma = e.dma /\ f.if = e.if
        /\ f.serial = e.serial
        /\ f.control = e.control /\ f.reload = e.reload /\ f.stat = e.stat
        /\ f.ie = e.ie /\ f.halted = e.halted
    BY <1>1, <2>2, QuietChunk
  <2>4. /\ g \in Device
        /\ \A t \in Timers : g.counter[t] = d.counter[t] + TimerTicks(d, t, m)
        /\ \A t \in Timers : g.accum[t] = NewAccum(d, t, m)
        /\ g.left = IF d.left = 0 THEN 0 ELSE d.left - m
        /\ g.dot = d.dot + m /\ g.line = d.line
        /\ g.dma = d.dma /\ g.if = d.if
        /\ g.serial = d.serial
        /\ g.control = d.control /\ g.reload = d.reload /\ g.stat = d.stat
        /\ g.ie = d.ie
    BY <2>1, QuietChunk
  <2> HIDE DEF f, g
  <2>5. /\ k \in Device /\ k.steal = s /\ k.halted = h
        /\ k.counter = g.counter /\ k.accum = g.accum /\ k.control = g.control
        /\ k.reload = g.reload /\ k.dot = g.dot /\ k.line = g.line
        /\ k.stat = g.stat /\ k.serial = g.serial /\ k.left = g.left
        /\ k.dma = g.dma /\ k.ie = g.ie /\ k.if = g.if
    BY <2>4, AsideIs
  <2> HIDE DEF k
  <2>6. \A t \in Timers : f.counter[t] = g.counter[t] /\ f.accum[t] = g.accum[t]
    BY <1>1, <2>3, <2>4
  <2>7. f.counter = g.counter /\ f.accum = g.accum
    <3>1. /\ f.counter \in [Timers -> 0 .. Overflow - 1] /\ f.accum \in [Timers -> Nat]
          /\ g.counter \in [Timers -> 0 .. Overflow - 1] /\ g.accum \in [Timers -> Nat]
      BY <2>3, <2>4, DeviceTyped
    <3> QED BY <2>6, <3>1
  <2>8. f = k
    <3>1. f.counter = k.counter /\ f.accum = k.accum
      BY <2>5, <2>7
    <3>2. /\ f.left = k.left /\ f.dot = k.dot /\ f.line = k.line /\ f.steal = k.steal
          /\ f.dma = k.dma /\ f.if = k.if /\ f.serial = k.serial
      BY <1>1, <2>3, <2>4, <2>5
    <3>3. /\ f.control = k.control /\ f.reload = k.reload /\ f.stat = k.stat
          /\ f.ie = k.ie /\ f.halted = k.halted
      BY <1>1, <2>3, <2>4, <2>5
    <3> QED BY <2>3, <2>5, <3>1, <3>2, <3>3, SameDevice
  <2> QED BY <2>1, <2>2, <2>8 DEF e, k
<1> QED BY <1>2, <1>3

Unstolen(d) == [d EXCEPT !.steal = 0]
Set(d, b) == [d EXCEPT !.halted = b]

LEMMA PutAside ==
    ASSUME NEW d \in Device
    PROVE  /\ Unstolen(d) \in Device /\ Unstolen(d).halted = d.halted
           /\ Horizon(Unstolen(d)) = Horizon(d)
           /\ \A b \in BOOLEAN : /\ Set(d, b) \in Device /\ Set(d, b).halted = b
                                 /\ Set(d, b).steal = d.steal
                                 /\ Horizon(Set(d, b)) = Horizon(d)
           /\ \A m \in Nat : m < Horizon(d) =>
                 /\ Ticked(Unstolen(d), m) = Unstolen(Ticked(d, m))
                 /\ \A b \in BOOLEAN : Ticked(Set(d, b), m) = Set(Ticked(d, m), b)
<1>1. \A e \in Device : Unstolen(e) = Aside(e, 0, e.halted)
  BY DEF Unstolen, Aside, Device
<1>2. \A e \in Device : \A b \in BOOLEAN : Set(e, b) = Aside(e, e.steal, b)
  BY DEF Set, Aside, Device
<1>3. d.steal \in Nat /\ d.halted \in BOOLEAN /\ 0 \in Nat
  BY DeviceTyped
<1>4. /\ Unstolen(d) \in Device /\ Unstolen(d).halted = d.halted
      /\ Horizon(Unstolen(d)) = Horizon(d)
  BY <1>1, <1>3, AsideIs
<1>5. ASSUME NEW b \in BOOLEAN
      PROVE  /\ Set(d, b) \in Device /\ Set(d, b).halted = b /\ Set(d, b).steal = d.steal
             /\ Horizon(Set(d, b)) = Horizon(d)
  BY <1>2, <1>3, AsideIs
<1>6. ASSUME NEW m \in Nat, m < Horizon(d)
      PROVE  /\ Ticked(Unstolen(d), m) = Unstolen(Ticked(d, m))
             /\ \A b \in BOOLEAN : Ticked(Set(d, b), m) = Set(Ticked(d, m), b)
  <2>1. /\ Ticked(d, m) \in Device /\ Ticked(d, m).steal = d.steal
        /\ Ticked(d, m).halted = d.halted
    BY <1>6, TickedTyped, TickedQuietly
  <2>2. Ticked(Aside(d, 0, d.halted), m) = Aside(Ticked(d, m), 0, d.halted)
    BY <1>3, <1>6, TickedAside
  <2>3. ASSUME NEW b \in BOOLEAN
        PROVE  Ticked(Set(d, b), m) = Set(Ticked(d, m), b)
    <3>1. Ticked(Aside(d, d.steal, b), m) = Aside(Ticked(d, m), d.steal, b)
      BY <1>3, <1>6, TickedAside
    <3> QED BY <1>2, <2>1, <3>1
  <2> QED BY <1>1, <2>1, <2>2, <2>3
<1> QED BY <1>4, <1>5, <1>6

-----------------------------------------------------------------------------
(* The guest's stores.                                                       *)

LEMMA PowerOnTyped == PowerOn \in Device
<1>1. Off \in Control
  BY DevicesAssumption DEF Off, Control
<1>2. [irqs |-> {}, compare |-> 0] \in Stat
  BY DevicesAssumption DEF Stat
<1>3. [busy |-> FALSE, internal |-> FALSE, irq |-> FALSE] \in Serial
  BY DEF Serial
<1>4. [on |-> FALSE, start |-> "now", repeat |-> FALSE, irq |-> FALSE] \in Dma
  BY DEF Dma
<1>5. /\ 0 \in 0 .. Overflow - 1 /\ 0 \in 0 .. Line - 1 /\ 0 \in 0 .. Lines - 1
      /\ 0 \in 0 .. SioCycles
  BY DevicesAssumption
<1> QED BY <1>1, <1>2, <1>3, <1>4, <1>5 DEF PowerOn, Device

LEMMA StoredTyped ==
    ASSUME NEW d \in Device, NEW e \in Stored(d)
    PROVE  e \in Device
<1>1. CASE e \in StoreReload(d)
  <2>1. PICK t \in Timers, v \in Reloads : e = [d EXCEPT !.reload[t] = v]
    BY <1>1 DEF StoreReload
  <2>2. [d.reload EXCEPT ![t] = v] \in [Timers -> 0 .. Overflow - 1]
    BY DeviceTyped, DevicesAssumption
  <2>3. e = [d EXCEPT !.reload = [d.reload EXCEPT ![t] = v]]
    BY <2>1 DEF Device
  <2> QED BY <2>2, <2>3 DEF Device
<1>2. CASE e \in StoreControl(d)
  <2> DEFINE new(u, w) ==
               LET set == [d EXCEPT !.control[u] = w]
               IN  IF w.on /\ ~d.control[u].on
                   THEN [set EXCEPT !.counter[u] = d.reload[u], !.accum[u] = 0] ELSE set
  <2>0. StoreControl(d) = {new(u, w) : u \in Timers, w \in Controls}
    BY DEF StoreControl
  <2> HIDE DEF new
  <2>1. PICK t \in Timers, v \in Controls : e = new(t, v)
    BY <1>2, <2>0
  <2> DEFINE set == [d EXCEPT !.control = [d.control EXCEPT ![t] = v]]
  <2>2. [d.control EXCEPT ![t] = v] \in [Timers -> Control]
    BY DeviceTyped, DevicesAssumption
  <2>3. set \in Device /\ set.counter = d.counter /\ set.accum = d.accum
    BY <2>2 DEF Device
  <2>4. e = IF v.on /\ ~d.control[t].on
            THEN [set EXCEPT !.counter[t] = d.reload[t], !.accum[t] = 0] ELSE set
    BY <2>1 DEF Device, new
  <2> HIDE DEF set
  <2>5. /\ [set.counter EXCEPT ![t] = d.reload[t]] \in [Timers -> 0 .. Overflow - 1]
        /\ [set.accum EXCEPT ![t] = 0] \in [Timers -> Nat]
    BY <2>3, DeviceTyped
  <2>6. [set EXCEPT !.counter[t] = d.reload[t], !.accum[t] = 0] \in Device
    BY <2>3, <2>5 DEF Device
  <2> QED BY <2>3, <2>4, <2>6
<1>3. CASE e \in StoreStat(d)
  <2>1. PICK v \in Stats : e = [d EXCEPT !.stat = v]
    BY <1>3 DEF StoreStat
  <2>2. v \in Stat
    BY DevicesAssumption
  <2> QED BY <2>1, <2>2 DEF Device
<1>4. CASE e \in StoreSerial(d)
  <2>1. PICK v \in Serials :
           e = LET starts == v.busy /\ ~d.serial.busy /\ v.internal /\ d.left = 0
               IN  [d EXCEPT !.serial = v, !.left = IF starts THEN SioCycles ELSE @]
    BY <1>4 DEF StoreSerial
  <2>2. v \in Serial /\ SioCycles \in 0 .. SioCycles /\ d.left \in 0 .. SioCycles
    BY DeviceTyped, DevicesAssumption
  <2> QED BY <2>1, <2>2 DEF Device
<1>5. CASE e \in StoreDma(d)
  <2>1. PICK v \in Dmas :
           e = LET set == [d EXCEPT !.dma = v]
               IN  IF v.on /\ ~d.dma.on /\ v.start = "now" THEN RunDma(set) ELSE set
    BY <1>5 DEF StoreDma
  <2>2. [d EXCEPT !.dma = v] \in Device
    <3>1. v \in Dma
      BY DevicesAssumption
    <3> QED BY <3>1 DEF Device
  <2> QED BY <2>1, <2>2, RunDmaIs
<1>6. CASE e \in StoreEnable(d)
  BY <1>6 DEF StoreEnable, Device
<1>7. CASE e \in Acknowledge(d)
  <2>1. PICK i \in d.if : e = [d EXCEPT !.if = d.if \ {i}]
    BY <1>7 DEF Acknowledge
  <2>2. d.if \ {i} \in SUBSET Irqs
    BY DeviceTyped
  <2> QED BY <2>1, <2>2 DEF Device
<1> QED BY <1>1, <1>2, <1>3, <1>4, <1>5, <1>6, <1>7 DEF Stored

LEMMA IdleChunkInLine ==
    ASSUME NEW d \in Device
    PROVE  IdleChunk(d) \in 1 .. Line
<1> DEFINE soon == UntilPicture(d) \cup UntilTimer(d)
           x == IF d.dot < Visible THEN Visible - d.dot ELSE Line - d.dot
<1>1. soon \subseteq Soon(d) /\ x \in soon
  BY DEF Soon, UntilPicture
<1>2. soon \in SUBSET (Nat \ {0})
  BY <1>1, SoonTyped
<1>3. x \in 1 .. Line
  BY DeviceTyped, DevicesAssumption
<1>4. IdleChunk(d) = Min(soon)
  BY DEF IdleChunk
<1> HIDE DEF soon, x
<1>5. soon \in SUBSET Nat /\ soon # {}
  BY <1>1, <1>2
<1>6. Min(soon) \in soon /\ Min(soon) <= x
  BY <1>1, <1>5, MinIsLeast
<1> QED BY <1>2, <1>3, <1>4, <1>6, DevicesAssumption

-----------------------------------------------------------------------------
(* The clock.  Its value is the devices as of now.                           *)

Clocks == [dev : Device, pending : Nat, budget : Int]
Value(k) == Ticked(k.dev, k.pending)
InTime(k) == k \in Clocks /\ k.pending < Horizon(k.dev)
Valid(k) == InTime(k) /\ k.budget <= Horizon(k.dev) - k.pending
Paid(d) == Ticked(Unstolen(d), d.steal)

LEMMA ValueIs ==
    ASSUME NEW k \in Clocks
    PROVE  /\ Value(k) \in Device
           /\ InTime(k) => /\ Value(k).steal = k.dev.steal /\ Value(k).halted = k.dev.halted
                           /\ (IrqPending(Value(k)) <=> IrqPending(k.dev))
                           /\ Horizon(Value(k)) = Horizon(k.dev) - k.pending
<1>1. k.dev \in Device /\ k.pending \in Nat
  BY DEF Clocks
<1> QED BY <1>1, TickedTyped, TickedQuietly, TickedEarly DEF Value, InTime

LEMMA FlushedIs ==
    ASSUME NEW k \in Clocks
    PROVE  /\ Flushed(k) \in Clocks /\ Flushed(k).pending = 0
           /\ Flushed(k).dev = Value(k) /\ Flushed(k).budget = k.budget
           /\ Value(Flushed(k)) = Value(k)
           /\ InTime(Flushed(k)) /\ (Valid(k) => Valid(Flushed(k)))
<1>1. Value(k) \in Device /\ 0 \in Nat
  BY ValueIs
<1>2. Flushed(k) = [k EXCEPT !.dev = Value(k), !.pending = 0]
  BY DEF Flushed, Value
<1>3. /\ Flushed(k) \in Clocks /\ Flushed(k).pending = 0
      /\ Flushed(k).dev = Value(k) /\ Flushed(k).budget = k.budget
  BY <1>1, <1>2 DEF Clocks
<1>4. Value(Flushed(k)) = Value(k)
  BY <1>1, <1>3, TickedIs DEF Value
<1>5. Horizon(Value(k)) \in Nat \ {0}
  BY <1>1, HorizonIs
<1>6. InTime(Flushed(k))
  BY <1>3, <1>5 DEF InTime
<1>7. Valid(k) => Valid(Flushed(k))
  <2>1. SUFFICES ASSUME Valid(k)
                 PROVE  Valid(Flushed(k))
    OBVIOUS
  <2>2. Horizon(Value(k)) = Horizon(k.dev) - k.pending
    BY <2>1, ValueIs DEF Valid
  <2> QED BY <1>3, <1>5, <1>6, <2>1, <2>2 DEF Valid
<1> QED BY <1>3, <1>4, <1>6, <1>7

LEMMA RescheduledIs ==
    ASSUME NEW k \in Clocks
    PROVE  /\ Rescheduled(k) \in Clocks /\ Rescheduled(k).dev = k.dev
           /\ Rescheduled(k).pending = k.pending
           /\ Value(Rescheduled(k)) = Value(k)
           /\ k.pending = 0 => Valid(Rescheduled(k))
<1>1. k.dev \in Device
  BY DEF Clocks
<1>2. Horizon(k.dev) \in Nat \ {0}
  BY <1>1, HorizonIs
<1>3. /\ Rescheduled(k) \in Clocks /\ Rescheduled(k).dev = k.dev
      /\ Rescheduled(k).pending = k.pending /\ Rescheduled(k).budget = Horizon(k.dev)
  BY <1>2 DEF Rescheduled, Clocks
<1>4. Value(Rescheduled(k)) = Value(k)
  BY <1>3 DEF Value
<1>5. k.pending = 0 => Valid(Rescheduled(k))
  BY <1>2, <1>3 DEF Valid, InTime
<1> QED BY <1>3, <1>4, <1>5

LEMMA Moved ==
    ASSUME NEW k \in Clocks, k.pending = 0, NEW n \in Nat
    PROVE  LET e == [k EXCEPT !.dev = Ticked(k.dev, n)]
           IN  e \in Clocks /\ e.pending = 0 /\ Value(e) = Ticked(Value(k), n)
<1> DEFINE e == [k EXCEPT !.dev = Ticked(k.dev, n)]
<1>1. k.dev \in Device /\ 0 \in Nat
  BY DEF Clocks
<1>2. Ticked(k.dev, n) \in Device
  BY <1>1, TickedTyped
<1>3. e \in Clocks /\ e.pending = 0 /\ e.dev = Ticked(k.dev, n)
  BY <1>2 DEF Clocks
<1> HIDE DEF e
<1>4. Value(e) = e.dev
  BY <1>1, <1>2, <1>3, TickedIs DEF Value
<1>5. Value(k) = k.dev
  BY <1>1, TickedIs DEF Value
<1> QED BY <1>3, <1>4, <1>5 DEF e

LEMMA PutAsideInClock ==
    ASSUME NEW k, InTime(k)
    PROVE  /\ LET e == [k EXCEPT !.dev.steal = 0]
              IN  /\ InTime(e) /\ e.pending = k.pending /\ Value(e) = Unstolen(Value(k))
           /\ \A b \in BOOLEAN :
                 LET e == [k EXCEPT !.dev.halted = b]
                 IN  /\ InTime(e) /\ e.pending = k.pending /\ Value(e) = Set(Value(k), b)
<1>0. k \in Clocks /\ k.dev \in Device /\ k.pending \in Nat /\ k.pending < Horizon(k.dev)
  BY DEF InTime, Clocks
<1>a. k.dev \in Device /\ k.pending \in Nat
  BY <1>0
<1>1. /\ Unstolen(k.dev) \in Device /\ Horizon(Unstolen(k.dev)) = Horizon(k.dev)
      /\ Ticked(Unstolen(k.dev), k.pending) = Unstolen(Value(k))
  BY <1>0, <1>a, PutAside DEF Value
<1>2. \A b \in BOOLEAN :
         /\ Set(k.dev, b) \in Device /\ Horizon(Set(k.dev, b)) = Horizon(k.dev)
         /\ Ticked(Set(k.dev, b), k.pending) = Set(Value(k), b)
  BY <1>0, <1>a, PutAside DEF Value
<1>3. ASSUME NEW f \in Device, Horizon(f) = Horizon(k.dev)
      PROVE  LET e == [k EXCEPT !.dev = f]
             IN  InTime(e) /\ e.pending = k.pending /\ Value(e) = Ticked(f, k.pending)
  BY <1>0, <1>3 DEF InTime, Clocks, Value
<1>4. /\ [k EXCEPT !.dev.steal = 0] = [k EXCEPT !.dev = Unstolen(k.dev)]
      /\ \A b \in BOOLEAN : [k EXCEPT !.dev.halted = b] = [k EXCEPT !.dev = Set(k.dev, b)]
  BY <1>0 DEF Unstolen, Set, Clocks
<1>5. LET e == [k EXCEPT !.dev = Unstolen(k.dev)]
      IN  InTime(e) /\ e.pending = k.pending /\ Value(e) = Unstolen(Value(k))
  <2>1. LET e == [k EXCEPT !.dev = Unstolen(k.dev)]
        IN  InTime(e) /\ e.pending = k.pending /\ Value(e) = Ticked(Unstolen(k.dev), k.pending)
    BY <1>1, <1>3
  <2> QED BY <1>1, <2>1
<1>6. ASSUME NEW b \in BOOLEAN
      PROVE  LET e == [k EXCEPT !.dev = Set(k.dev, b)]
             IN  InTime(e) /\ e.pending = k.pending /\ Value(e) = Set(Value(k), b)
  <2>1. Set(k.dev, b) \in Device /\ Horizon(Set(k.dev, b)) = Horizon(k.dev)
    BY <1>2
  <2>2. LET e == [k EXCEPT !.dev = Set(k.dev, b)]
        IN  InTime(e) /\ e.pending = k.pending /\ Value(e) = Ticked(Set(k.dev, b), k.pending)
    BY <1>3, <2>1
  <2> QED BY <1>2, <2>2
<1> QED BY <1>4, <1>5, <1>6

LEMMA DrainedIs ==
    ASSUME NEW k, InTime(k)
    PROVE  /\ InTime(Drained(k)) /\ Value(Drained(k)) = Paid(Value(k))
           /\ Valid(k) => Valid(Drained(k))
           /\ k.pending = 0 => Drained(k).pending = 0
<1>0. k \in Clocks /\ k.dev \in Device /\ k.dev.steal \in Nat
  BY DeviceTyped DEF InTime, Clocks
<1>1. Value(k) \in Device /\ Value(k).steal = k.dev.steal /\ 0 \in Nat
  BY <1>0, ValueIs
<1>2. CASE k.dev.steal = 0
  <2>1. Drained(k) = k
    BY <1>2 DEF Drained
  <2>2. Unstolen(Value(k)) = Value(k)
    BY <1>1, <1>2 DEF Unstolen, Device
  <2>3. Paid(Value(k)) = Ticked(Value(k), 0)
    BY <1>1, <1>2, <2>2 DEF Paid
  <2>4. Ticked(Value(k), 0) = Value(k)
    BY <1>1, TickedIs
  <2> QED BY <2>1, <2>3, <2>4
<1>3. CASE k.dev.steal # 0
  <2> DEFINE e == [k EXCEPT !.dev.steal = 0]
             now == Flushed(e)
             f == [now EXCEPT !.dev = Ticked(now.dev, k.dev.steal)]
  <2>1. Drained(k) = Rescheduled(f)
    BY <1>3 DEF Drained
  <2>2. InTime(e) /\ Value(e) = Unstolen(Value(k))
    BY PutAsideInClock
  <2> HIDE DEF e
  <2>3. e \in Clocks
    BY <2>2 DEF InTime
  <2>4. now \in Clocks /\ now.pending = 0 /\ Value(now) = Value(e)
    BY <2>3, FlushedIs
  <2> HIDE DEF now
  <2>5. f \in Clocks /\ f.pending = 0 /\ Value(f) = Ticked(Value(now), k.dev.steal)
    BY <1>0, <2>4, Moved
  <2> HIDE DEF f
  <2>6. /\ Valid(Rescheduled(f)) /\ Value(Rescheduled(f)) = Value(f)
        /\ Rescheduled(f).pending = 0
    BY <2>5, RescheduledIs
  <2> QED BY <1>1, <2>1, <2>2, <2>4, <2>5, <2>6 DEF Paid, Valid
<1> QED BY <1>2, <1>3

LEMMA AdvancedIs ==
    ASSUME NEW k, Valid(k), NEW c \in Nat
    PROVE  Valid(Advanced(k, c)) /\ Value(Advanced(k, c)) = Ticked(Value(k), c)
<1> DEFINE later == [k EXCEPT !.pending = k.pending + c, !.budget = k.budget - c]
<1>0. /\ k \in Clocks /\ k.dev \in Device /\ k.pending \in Nat /\ k.budget \in Int
      /\ k.pending < Horizon(k.dev) /\ k.budget <= Horizon(k.dev) - k.pending
  BY DEF Valid, InTime, Clocks
<1>b. k.pending + c \in Nat /\ k.budget - c \in Int
  BY <1>0
<1>1. /\ later \in Clocks /\ later.dev = k.dev /\ later.pending = k.pending + c
      /\ later.budget = k.budget - c
  <2> DEFINE p == k.pending + c
             b == k.budget - c
  <2>1. p \in Nat /\ b \in Int
    BY <1>b
  <2>2. later = [k EXCEPT !.pending = p, !.budget = b]
    OBVIOUS
  <2> HIDE DEF later, p, b
  <2>3. later \in Clocks /\ later.dev = k.dev /\ later.pending = p /\ later.budget = b
    BY <1>0, <2>1, <2>2 DEF Clocks
  <2> QED BY <2>3 DEF p, b
<1>2. Advanced(k, c) = IF later.budget <= 0 THEN Rescheduled(Flushed(later)) ELSE later
  BY DEF Advanced
<1> HIDE DEF later
<1>a. k.dev \in Device /\ k.pending \in Nat
  BY <1>0
<1>3. Value(later) = Ticked(Value(k), c)
  BY <1>1, <1>a, TickedAdds DEF Value
<1>4. CASE later.budget <= 0
  <2>1. Flushed(later) \in Clocks /\ Flushed(later).pending = 0
        /\ Value(Flushed(later)) = Value(later)
    BY <1>1, FlushedIs
  <2> QED BY <1>2, <1>3, <1>4, <2>1, RescheduledIs
<1>5. CASE ~(later.budget <= 0)
  <2>1. Horizon(k.dev) \in Nat
    BY <1>0, HorizonIs
  <2>2. Valid(later)
    BY <1>0, <1>1, <1>5, <2>1 DEF Valid, InTime
  <2> QED BY <1>2, <1>3, <1>5, <2>2
<1> QED BY <1>4, <1>5

LEMMA WokenIs ==
    ASSUME NEW k, InTime(k)
    PROVE  Valid(Woken(k)) /\ Value(Woken(k)) = Ticked(Set(Value(k), FALSE), WakeDelay)
<1> DEFINE e == [k EXCEPT !.dev.halted = FALSE]
           now == Flushed(e)
           f == [now EXCEPT !.dev = Ticked(now.dev, WakeDelay)]
<1>1. Woken(k) = Rescheduled(f)
  BY DEF Woken
<1>2. InTime(e) /\ Value(e) = Set(Value(k), FALSE)
  BY PutAsideInClock
<1> HIDE DEF e
<1>3. e \in Clocks /\ WakeDelay \in Nat
  BY <1>2, CostsAssumption DEF InTime
<1>4. now \in Clocks /\ now.pending = 0 /\ Value(now) = Value(e)
  BY <1>3, FlushedIs
<1> HIDE DEF now
<1>5. f \in Clocks /\ f.pending = 0 /\ Value(f) = Ticked(Value(now), WakeDelay)
  BY <1>3, <1>4, Moved
<1> HIDE DEF f
<1> QED BY <1>1, <1>2, <1>4, <1>5, RescheduledIs

-----------------------------------------------------------------------------
(* The steps.                                                                *)

LazyInv == Valid(Clock) /\ masked \in BOOLEAN

LEMMA ClockIs ==
    /\ Clock.dev = dev /\ Clock.pending = pending /\ Clock.budget = budget
    /\ Value(Clock) = Now
    /\ Valid(Clock) <=> /\ dev \in Device /\ pending \in Nat /\ budget \in Int
                        /\ CatchUpFiresNothing
<1>1. Clock.dev = dev /\ Clock.pending = pending /\ Clock.budget = budget
  BY DEF Clock
<1>2. Value(Clock) = Now
  BY <1>1 DEF Value, Now
<1>3. Clock \in Clocks <=> dev \in Device /\ pending \in Nat /\ budget \in Int
  BY DEF Clock, Clocks
<1> QED BY <1>1, <1>2, <1>3 DEF Valid, InTime, CatchUpFiresNothing

LEMMA BecomesIs ==
    ASSUME NEW k, Valid(k), Becomes(k)
    PROVE  Valid(Clock)' /\ Now' = Value(k)
<1>1. k \in Clocks /\ k.pending < Horizon(k.dev) /\ k.budget <= Horizon(k.dev) - k.pending
  BY DEF Valid, InTime
<1>2. dev' = k.dev /\ pending' = k.pending /\ budget' = k.budget
  BY DEF Becomes
<1>3. Now' = Value(k)
  BY <1>2 DEF Now, Value
<1>4. [dev |-> dev', pending |-> pending', budget |-> budget'] = k
  BY <1>1, <1>2 DEF Clocks
<1>5. Valid(Clock)'
  BY <1>1, <1>4 DEF Valid, InTime, Clock
<1> QED BY <1>3, <1>5

LEMMA NowIs ==
    ASSUME LazyInv
    PROVE  /\ Clock \in Clocks /\ InTime(Clock) /\ Now \in Device
           /\ Now.halted = dev.halted /\ Now.halted \in BOOLEAN
           /\ Horizon(Now) = Horizon(dev) - pending
<1>1. Clock \in Clocks /\ InTime(Clock)
  BY DEF LazyInv, Valid, InTime
<1>2. /\ Value(Clock) \in Device /\ Value(Clock).halted = Clock.dev.halted
      /\ Horizon(Value(Clock)) = Horizon(Clock.dev) - Clock.pending
  BY <1>1, ValueIs
<1>3. Now \in Device
  BY <1>2, ClockIs
<1>4. Now.halted \in BOOLEAN
  BY <1>3, DeviceTyped
<1> QED BY <1>1, <1>2, <1>3, <1>4, ClockIs

LEMMA PaidIsCharged ==
    ASSUME NEW d
    PROVE  Eager!Charged(d) = Paid(d)
BY DEF Eager!Charged, Paid, Unstolen

LEMMA TickIs ==
    ASSUME NEW k, Valid(k), NEW c \in Nat, masked \in BOOLEAN, Tick(k, c)
    PROVE  /\ Valid(Clock)' /\ masked' \in BOOLEAN
           /\ Eager!Passes(Value(k), c)
<1> DEFINE h == Drained(Advanced(k, c))
           v == Paid(Ticked(Value(k), c))
<1>1. Valid(Advanced(k, c)) /\ Value(Advanced(k, c)) = Ticked(Value(k), c)
  BY AdvancedIs
<1>a. InTime(Advanced(k, c))
  BY <1>1 DEF Valid
<1>2. Valid(h) /\ InTime(h) /\ Value(h) = v
  BY <1>1, <1>a, DrainedIs
<1>3. /\ IF IrqPending(h.dev) /\ ~masked
         THEN Becomes(IF h.dev.halted THEN Woken(h) ELSE h) /\ masked' = TRUE
         ELSE Becomes(h) /\ masked' = masked
      /\ seen' = Nothing
  BY DEF Tick
<1>4. (IrqPending(v) <=> IrqPending(h.dev)) /\ v.halted = h.dev.halted
      /\ h.dev.halted \in BOOLEAN
  <2>1. h \in Clocks
    BY <1>2 DEF InTime
  <2>2. h.dev \in Device
    BY <2>1 DEF Clocks
  <2> QED BY <1>2, <2>1, <2>2, ValueIs, DeviceTyped
<1>5. Eager!Charged(Ticked(Value(k), c)) = v
  BY PaidIsCharged
<1> HIDE DEF h, v
<1>6. Eager!Settles(v) /\ Valid(Clock)' /\ masked' \in BOOLEAN
  <2>1. CASE IrqPending(h.dev) /\ ~masked /\ h.dev.halted
    <3>1. Becomes(Woken(h)) /\ masked' = TRUE
      BY <1>3, <2>1
    <3>2. Valid(Woken(h)) /\ Value(Woken(h)) = Ticked(Set(v, FALSE), WakeDelay)
      BY <1>2, WokenIs
    <3>3. Valid(Clock)' /\ Now' = Ticked(Set(v, FALSE), WakeDelay)
      BY <3>1, <3>2, BecomesIs
    <3> QED BY <1>4, <2>1, <3>1, <3>3 DEF Eager!Settles, Set
  <2>2. CASE IrqPending(h.dev) /\ ~masked /\ ~h.dev.halted
    <3>1. Becomes(h) /\ masked' = TRUE
      BY <1>3, <2>2
    <3>2. Valid(Clock)' /\ Now' = v
      BY <1>2, <3>1, BecomesIs
    <3> QED BY <1>4, <2>2, <3>1, <3>2 DEF Eager!Settles
  <2>3. CASE ~(IrqPending(h.dev) /\ ~masked)
    <3>1. Becomes(h) /\ masked' = masked
      BY <1>3, <2>3
    <3>2. Valid(Clock)' /\ Now' = v
      BY <1>2, <3>1, BecomesIs
    <3> QED BY <1>4, <2>3, <3>1, <3>2 DEF Eager!Settles
  <2> QED BY <2>1, <2>2, <2>3
<1> QED BY <1>3, <1>5, <1>6 DEF Eager!Passes

(* What every action of the clock keeps, and what the eager clock does. *)

LEMMA InstructionStep ==
    ASSUME LazyInv, NEW c \in Costs, Instruction(c)
    PROVE  Valid(Clock)' /\ masked' \in BOOLEAN /\ Eager!Instruction(c)
<1>1. c \in Nat
  BY CostsAssumption
<1>2. Valid(Clock) /\ masked \in BOOLEAN /\ Tick(Clock, c) /\ ~dev.halted
  BY DEF LazyInv, Instruction
<1>3. Valid(Clock)' /\ masked' \in BOOLEAN /\ Eager!Passes(Value(Clock), c)
  BY <1>1, <1>2, TickIs
<1> QED BY <1>2, <1>3, NowIs, ClockIs DEF Eager!Instruction

LEMMA IdleStep ==
    ASSUME LazyInv, Idle
    PROVE  Valid(Clock)' /\ masked' \in BOOLEAN /\ Eager!Idle
<1>1. dev \in Device
  BY ClockIs DEF LazyInv
<1>2. IdleChunk(dev) \in 1 .. Line
  BY <1>1, IdleChunkInLine
<1>3. IdleChunk(dev) \in Nat
  BY <1>2, DevicesAssumption
<1>4. Valid(Clock) /\ masked \in BOOLEAN /\ Tick(Clock, IdleChunk(dev)) /\ dev.halted
  BY DEF LazyInv, Idle
<1>5. Valid(Clock)' /\ masked' \in BOOLEAN /\ Eager!Passes(Value(Clock), IdleChunk(dev))
  BY <1>3, <1>4, TickIs
<1> QED BY <1>2, <1>4, <1>5, NowIs, ClockIs DEF Eager!Idle

LEMMA ReadStep ==
    ASSUME LazyInv, Read
    PROVE  Valid(Clock)' /\ masked' \in BOOLEAN /\ Eager!Read
<1>1. Clock \in Clocks /\ Now \in Device /\ Now.halted = dev.halted
  BY NowIs
<1>2. Valid(Flushed(Clock)) /\ Value(Flushed(Clock)) = Now /\ Flushed(Clock).dev = Now
  BY <1>1, FlushedIs, ClockIs DEF LazyInv
<1>3. Becomes(Flushed(Clock)) /\ seen' = Sight(dev') /\ masked' = masked /\ ~dev.halted
  BY DEF Read
<1>4. Valid(Clock)' /\ Now' = Now
  BY <1>2, <1>3, BecomesIs
<1>5. dev' = Now
  BY <1>2, <1>3 DEF Becomes
<1> QED BY <1>1, <1>3, <1>4, <1>5 DEF Eager!Read, LazyInv

LEMMA WriteStep ==
    ASSUME LazyInv, Write
    PROVE  Valid(Clock)' /\ masked' \in BOOLEAN /\ Eager!Write
<1> DEFINE now == Flushed(Clock)
<1>1. Clock \in Clocks /\ Now \in Device /\ Now.halted = dev.halted
  BY NowIs
<1>2. now \in Clocks /\ now.pending = 0 /\ now.dev = Now
  BY <1>1, FlushedIs, ClockIs
<1>3. /\ \E d \in Stored(now.dev) : Becomes(Rescheduled(Drained([now EXCEPT !.dev = d])))
      /\ ~dev.halted /\ masked' = masked /\ seen' = Nothing
  BY DEF Write
<1> HIDE DEF now
<1>4. PICK d \in Stored(Now) : Becomes(Rescheduled(Drained([now EXCEPT !.dev = d])))
  BY <1>2, <1>3
<1> DEFINE k == [now EXCEPT !.dev = d]
<1>5. d \in Device
  BY <1>1, StoredTyped
<1>6. k \in Clocks /\ k.pending = 0 /\ k.dev = d
  BY <1>2, <1>5 DEF Clocks
<1> HIDE DEF k
<1>7. InTime(k) /\ Value(k) = d
  BY <1>5, <1>6, HorizonIs, TickedIs DEF InTime, Value
<1>8. InTime(Drained(k)) /\ Value(Drained(k)) = Paid(d) /\ Drained(k).pending = 0
  BY <1>6, <1>7, DrainedIs
<1>9. Drained(k) \in Clocks
  BY <1>8 DEF InTime
<1>10. Valid(Rescheduled(Drained(k))) /\ Value(Rescheduled(Drained(k))) = Paid(d)
  BY <1>8, <1>9, RescheduledIs
<1>11. Valid(Clock)' /\ Now' = Paid(d)
  BY <1>4, <1>10, BecomesIs DEF k
<1>12. Now' = Eager!Charged(d)
  BY <1>11, PaidIsCharged
<1> QED BY <1>1, <1>3, <1>11, <1>12 DEF Eager!Write, LazyInv

LEMMA UnmaskStep ==
    ASSUME LazyInv, Unmask
    PROVE  Valid(Clock)' /\ masked' \in BOOLEAN /\ Eager!Unmask
<1>1. Clock' = Clock /\ Now' = Now
  BY DEF Unmask, Clock, Now
<1>2. Valid(Clock)'
  <2>1. Valid(Clock)
    BY DEF LazyInv
  <2> QED BY <1>1, <2>1 DEF Valid, InTime
<1> QED BY <1>1, <1>2, NowIs DEF Unmask, Eager!Unmask

LEMMA HaltStep ==
    ASSUME LazyInv, NEW c \in Costs, Halt(c)
    PROVE  Valid(Clock)' /\ masked' \in BOOLEAN /\ Eager!Halt(c)
<1> DEFINE now == Flushed(Clock)
           e == [now EXCEPT !.dev.halted = TRUE]
           k == Rescheduled(Drained(e))
<1>1. Clock \in Clocks /\ Now.halted = dev.halted /\ c \in Nat
  BY NowIs, CostsAssumption
<1>2. InTime(now) /\ now.pending = 0 /\ Value(now) = Now
  BY <1>1, FlushedIs, ClockIs
<1>3. Tick(k, c) /\ ~dev.halted
  BY DEF Halt
<1> HIDE DEF now
<1>4. InTime(e) /\ e.pending = 0 /\ Value(e) = Set(Now, TRUE)
  BY <1>2, PutAsideInClock
<1> HIDE DEF e
<1>5. InTime(Drained(e)) /\ Drained(e).pending = 0 /\ Value(Drained(e)) = Paid(Set(Now, TRUE))
  BY <1>4, DrainedIs
<1>6. Drained(e) \in Clocks
  BY <1>5 DEF InTime
<1>7. Valid(k) /\ Value(k) = Paid(Set(Now, TRUE))
  BY <1>5, <1>6, RescheduledIs
<1> HIDE DEF k
<1>8. Valid(Clock)' /\ masked' \in BOOLEAN /\ Eager!Passes(Value(k), c)
  <2>1. masked \in BOOLEAN
    BY DEF LazyInv
  <2> QED BY <1>1, <1>3, <1>7, <2>1, TickIs
<1>9. Value(k) = Eager!Charged([Now EXCEPT !.halted = TRUE])
  BY <1>7, PaidIsCharged DEF Set
<1> QED BY <1>1, <1>3, <1>8, <1>9 DEF Eager!Halt

LEMMA PeriodsIs ==
    ASSUME NEW b \in Int, NEW p \in Nat \ {0}, b > p
    PROVE  LET n == (b - 1) \div p
           IN  n \in Nat \ {0} /\ n * p \in Nat /\ n * p < b /\ n <= n * p
<1> DEFINE a == b - 1
           n == a \div p
           r == a % p
<1>1. a \in Nat /\ p \in Nat /\ a >= p
  OBVIOUS
<1> HIDE DEF a
<1>2. n \in Nat /\ r \in 0 .. p - 1 /\ a = p * n + r
  BY <1>1, DivMod
<1> HIDE DEF n, r
<1>3. n # 0
  BY <1>1, <1>2
<1>4. p * n = n * p /\ p * n \in Nat
  BY <1>1, <1>2
<1>5. n * p >= n * 1
  BY <1>1, <1>2, <1>3
<1>6. n * p <= a /\ n <= n * p
  <2> DEFINE w == n * p
  <2>1. w \in Nat /\ a = w + r /\ w >= n
    BY <1>2, <1>4, <1>5
  <2> HIDE DEF w
  <2>2. w <= a /\ n <= w
    BY <1>1, <1>2, <2>1
  <2> QED BY <2>2 DEF w
<1>7. a = b - 1
  BY DEF a
<1>8. n * p < b
  <2> DEFINE w == n * p
  <2>1. w \in Nat /\ w <= a
    BY <1>4, <1>6
  <2> HIDE DEF w
  <2>2. w < b
    BY <1>7, <2>1
  <2> QED BY <2>2 DEF w
<1> QED BY <1>2, <1>3, <1>4, <1>6, <1>8 DEF n, a

LEMMA ElideStep ==
    ASSUME LazyInv, NEW c \in Costs, Elide(c)
    PROVE  Valid(Clock)' /\ masked' \in BOOLEAN /\ Eager!Loop(c)
<1> DEFINE n == Periods(c)
           skipped == n * c
           k == [Clock EXCEPT !.pending = pending + skipped, !.budget = budget - skipped]
<1>1. c \in Nat \ {0}
  BY CostsAssumption
<1>2. /\ ~dev.halted /\ budget > c /\ Becomes(k)
      /\ masked' = masked /\ seen' = Nothing
  BY ClockIs DEF Elide
<1>3. /\ dev \in Device /\ pending \in Nat /\ budget \in Int
      /\ pending < Horizon(dev) /\ budget <= Horizon(dev) - pending
      /\ Clock \in Clocks /\ masked \in BOOLEAN
  BY ClockIs, NowIs DEF LazyInv, CatchUpFiresNothing
<1>4. n \in Nat \ {0} /\ skipped \in Nat /\ skipped < budget /\ n <= skipped
  <2>1. budget \in Int
    BY <1>3
  <2> QED BY <1>1, <1>2, <2>1, PeriodsIs DEF Periods
<1>5. n \in Nat
  BY <1>4
<1> HIDE DEF n, skipped
<1>6. Now.halted = dev.halted /\ Horizon(Now) = Horizon(dev) - pending
  BY NowIs
<1>7. Horizon(dev) \in 1 .. Line
  BY <1>3, HorizonInLine
<1>8. pending + skipped \in Nat /\ budget - skipped \in Int
  BY <1>3, <1>4
<1>9. k = [dev |-> dev, pending |-> pending + skipped, budget |-> budget - skipped]
  <2> DEFINE p == pending + skipped
             b == budget - skipped
  <2>1. k = [Clock EXCEPT !.pending = p, !.budget = b]
    OBVIOUS
  <2> HIDE DEF k, p, b
  <2>2. k = [dev |-> dev, pending |-> p, budget |-> b]
    BY <2>1 DEF Clock
  <2> QED BY <2>2 DEF p, b
<1>10. /\ k \in Clocks /\ k.dev = dev /\ k.pending = pending + skipped
       /\ k.budget = budget - skipped
  BY <1>3, <1>8, <1>9 DEF Clocks
<1> HIDE DEF k
<1>11. Valid(k)
  BY <1>3, <1>4, <1>7, <1>10 DEF Valid, InTime
<1>12. Value(k) = Ticked(Now, skipped)
  BY <1>3, <1>4, <1>10, TickedAdds DEF Value, Now
<1>13. Valid(Clock)' /\ Now' = Ticked(Now, n * c)
  BY <1>2, <1>11, <1>12, BecomesIs DEF skipped
<1>14. n * c < Horizon(Now) /\ n \in 1 .. Line
  <2>1. skipped < Horizon(Now) /\ n \in 1 .. Line
    BY <1>3, <1>4, <1>5, <1>6, <1>7, DevicesAssumption
  <2> QED BY <2>1 DEF skipped
<1> QED BY <1>2, <1>3, <1>6, <1>13, <1>14 DEF Eager!Loop

LEMMA LazyStep ==
    ASSUME LazyInv, [Next]_vars
    PROVE  LazyInv' /\ [Eager!Works \/ Eager!Idle]_(Eager!eagerVars)
<1>1. CASE Read
  BY <1>1, ReadStep DEF LazyInv, Eager!Works
<1>2. CASE Write
  BY <1>2, WriteStep DEF LazyInv, Eager!Works
<1>3. CASE Unmask
  BY <1>3, UnmaskStep DEF LazyInv, Eager!Works
<1>4. CASE Idle
  BY <1>4, IdleStep DEF LazyInv
<1>5. ASSUME NEW c \in Costs, Instruction(c)
      PROVE  LazyInv' /\ Eager!Works
  BY <1>5, InstructionStep DEF LazyInv, Eager!Works
<1>6. ASSUME NEW c \in Costs, Halt(c)
      PROVE  LazyInv' /\ Eager!Works
  BY <1>6, HaltStep DEF LazyInv, Eager!Works
<1>7. ASSUME NEW c \in Costs, Elide(c)
      PROVE  LazyInv' /\ Eager!Works
  BY <1>7, ElideStep DEF LazyInv, Eager!Works
<1>8. CASE UNCHANGED vars
  <2>1. Clock' = Clock /\ Now' = Now /\ masked' = masked /\ seen' = seen
    BY <1>8 DEF vars, Clock, Now
  <2>2. LazyInv'
    BY <2>1 DEF LazyInv, Valid, InTime
  <2> QED BY <2>1, <2>2 DEF Eager!eagerVars
<1> QED BY <1>1, <1>2, <1>3, <1>4, <1>5, <1>6, <1>7, <1>8 DEF Next

LEMMA LazyStarts ==
    ASSUME Init
    PROVE  LazyInv /\ Eager!Init
<1>1. dev = PowerOn /\ masked = TRUE /\ seen = Nothing /\ pending = 0 /\ budget = 0
  BY DEF Init
<1>2. PowerOn \in Device /\ 0 \in Nat
  BY PowerOnTyped
<1>3. Horizon(PowerOn) \in Nat \ {0}
  BY <1>2, HorizonIs
<1>4. Valid(Clock)
  <2>1. CatchUpFiresNothing
    BY <1>1, <1>3 DEF CatchUpFiresNothing
  <2> QED BY <1>1, <1>2, <2>1, ClockIs
<1>5. Now = PowerOn
  BY <1>1, <1>2, TickedIs DEF Now
<1> QED BY <1>1, <1>4, <1>5 DEF LazyInv, Eager!Init

(***************************************************************************)
(* A catch-up never reaches the next event, and the budget promises no     *)
(* more time than is left until it (runtime_bus_bridge.cpp:756), for any   *)
(* devices' periods and any program: what makes it sound to charge cycles  *)
(* without looking at the devices.                                         *)
(***************************************************************************)
THEOREM ClockFiresNothing == Spec => []CatchUpFiresNothing
<1>1. LazyInv => CatchUpFiresNothing
  BY ClockIs DEF LazyInv
<1> QED BY <1>1, LazyStarts, LazyStep, PTL DEF Spec

(***************************************************************************)
(* The clock that ticks its devices late implements the one that ticks     *)
(* them with every instruction: devices, interrupts taken and values read  *)
(* are the same (runtime_bus_bridge.cpp:713), for any devices' periods and *)
(* any program.                                                            *)
(***************************************************************************)
THEOREM ClockIsEager == Spec => IsEager
<1>1. Init => LazyInv /\ Eager!Init
  BY LazyStarts
<1>2. LazyInv /\ [Next]_vars => LazyInv' /\ [Eager!Works \/ Eager!Idle]_(Eager!eagerVars)
  BY LazyStep
<1> QED BY <1>1, <1>2, PTL DEF Spec, IsEager, Eager!EagerSpec

=============================================================================
