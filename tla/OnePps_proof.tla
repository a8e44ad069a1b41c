---------------------------- MODULE OnePps_proof ----------------------------
(***************************************************************************)
(* For every width of the counter of seconds: each pulse counts once,      *)
(* under free inputs (Sync) and with the PPS generator in a clock domain   *)
(* of its own, for every period, duty cycle and frame length (OnePps); the *)
(* detected seconds are even, and the number of frames that end in one is  *)
(* known to one.                                                           *)
(***************************************************************************)
EXTENDS OnePps, TLAPS

(* The remainder of the sum of two values of the counter.                  *)
LEMMA OneWrap ==
  ASSUME NEW M \in Nat, M > 1, NEW a \in Nat, a < M + M
  PROVE  a % M = IF a < M THEN a ELSE a - M
<1>1. CASE a < M  BY <1>1, Z3
<1>2. CASE ~(a < M)  BY <1>2, Z3
<1> QED  BY <1>1, <1>2

(* A remainder is a value of the counter.                                  *)
LEMMA Remainder ==
  ASSUME NEW a \in Nat
  PROVE  a % SecondMod \in Seconds
BY SecondModAssumption, Z3 DEF Seconds

(* A value of the counter is its own remainder.                            *)
LEMMA RemainderOfSecond ==
  ASSUME NEW a \in Seconds
  PROVE  a % SecondMod = a
BY SecondModAssumption, OneWrap DEF Seconds

(* Inductive: what is counted, together with the ranges it rests on.       *)
IInv == TypeOK /\ EveryPulseCountsOnce

(* Power-up leaves one pulse in flight, which base allows for.             *)
LEMMA InitIInv == Init => IInv
<1> SUFFICES ASSUME Init PROVE IInv
  OBVIOUS
<1>1. InFlight = 1
  <2>1. (onepps_r_1 /\ ~onepps_r_2) = FALSE /\ (onepps_r_2 /\ ~onepps_r_3) = TRUE
    BY Zenon DEF Init
  <2> QED  BY <2>1 DEF InFlight, One
<1>2. cnt = 0 /\ base = 1 /\ pulses = 0 /\ time_load = 0  BY <1>1 DEF Init
<1>3. 0 \in Seconds /\ 1 \in Seconds  BY SecondModAssumption DEF Seconds
<1>4. TypeOK  BY <1>2, <1>3 DEF Init, TypeOK
<1>5. EveryPulseCountsOnce  BY <1>1, <1>2 DEF EveryPulseCountsOnce
<1> QED  BY <1>4, <1>5 DEF IInv

(* One edge of the 100 MHz clock, whatever its inputs.                     *)
LEMMA StepIInv == ASSUME IInv, Next PROVE IInv'
<1> DEFINE x == One(onepps_r_1 /\ ~onepps_r_2)
           y == One(onepps_r_2 /\ ~onepps_r_3)
           n == One(onepps_in /\ ~onepps_r_1)
<1>1. TypeOK /\ EveryPulseCountsOnce  BY DEF IInv
<1>2. x \in 0 .. 1 /\ y \in 0 .. 1 /\ n \in 0 .. 1  BY DEF One
<1>3. x + y <= 1 /\ n + x <= 1
  <2>1. CASE onepps_r_1 /\ ~onepps_r_2  BY <2>1 DEF One
  <2>2. CASE ~(onepps_r_1 /\ ~onepps_r_2)  BY <2>2, <1>2 DEF One
  <2> QED  BY <2>1, <2>2
<1>4. InFlight = x + y  BY DEF InFlight
<1>5. InFlight' = n + x
  <2>1. /\ onepps_r_1' = onepps_in /\ onepps_r_2' = onepps_r_1 /\ onepps_r_3' = onepps_r_2
    BY DEF Next, Edge, SynchronizerFFs, EdgeDetector
  <2> QED  BY <2>1 DEF InFlight
<1>6. cnt \in Seconds /\ base \in Seconds /\ pulses \in Seconds /\ time_load \in Seconds
  BY <1>1 DEF TypeOK
<1>7. cnt' = IF sclr THEN 0 ELSE IF load THEN time_load ELSE (cnt + y) % SecondMod
  <2>1. CASE onepps_RE
    <3>1. y = 1  BY <2>1 DEF onepps_RE, One
    <3> QED  BY <2>1, <3>1 DEF Next, Edge, Count
  <2>2. CASE ~onepps_RE
    <3>1. y = 0  BY <2>2 DEF onepps_RE, One
    <3>2. (cnt + y) % SecondMod = cnt
      BY <3>1, <1>6, RemainderOfSecond DEF Seconds
    <3> QED  BY <2>2, <3>2 DEF Next, Edge, Count
  <2> QED  BY <2>1, <2>2
<1> HIDE DEF x, y, n
<1>8. cnt' \in Seconds
  <2>1. 0 \in Seconds  BY SecondModAssumption DEF Seconds
  <2>2. (cnt + y) % SecondMod \in Seconds  BY <1>2, <1>6, Remainder DEF Seconds
  <2> QED  BY <1>6, <1>7, <2>1, <2>2
<1>9. InFlight' \in 0 .. 1  BY <1>2, <1>3, <1>5
<1>10. base' \in Seconds /\ pulses' \in Seconds /\ EveryPulseCountsOnce'
  <2>1. CASE sclr \/ load
    <3>1. base' = (cnt' + InFlight') % SecondMod /\ pulses' = 0
      BY <2>1 DEF Next, Remember
    <3>2. base' \in Seconds  BY <3>1, <1>8, <1>9, Remainder DEF Seconds
    <3>3. (base' + pulses') % SecondMod = base'
      BY <3>1, <3>2, RemainderOfSecond DEF Seconds
    <3>4. 0 \in Seconds  BY SecondModAssumption DEF Seconds
    <3> QED  BY <3>1, <3>2, <3>3, <3>4 DEF EveryPulseCountsOnce
  <2>2. CASE ~(sclr \/ load)
    <3>1. base' = base /\ pulses' = (pulses + n) % SecondMod
      BY <2>2 DEF Next, Remember, n
    <3>2. cnt' = (cnt + y) % SecondMod  BY <2>2, <1>7
    <3>3. pulses' \in Seconds  BY <3>1, <1>2, <1>6, Remainder DEF Seconds
    <3>4. (cnt + (x + y)) % SecondMod = (base + pulses) % SecondMod
      BY <1>1, <1>4 DEF EveryPulseCountsOnce
    <3>5. (cnt' + (n + x)) % SecondMod = (base + pulses') % SecondMod
      <4> DEFINE M == SecondMod
                 W(a) == IF a < M THEN a ELSE a - M
      <4>0. M \in Nat /\ M > 1  BY SecondModAssumption
      <4>1. \A a \in Nat : a < M + M => a % M = W(a)
        BY <4>0, OneWrap
      <4>2. /\ cnt \in 0 .. M - 1 /\ base \in 0 .. M - 1 /\ pulses \in 0 .. M - 1
            /\ cnt' \in 0 .. M - 1 /\ pulses' \in 0 .. M - 1
        BY <1>6, <1>8, <3>3 DEF Seconds
      <4> HIDE DEF M
      <4>3. /\ cnt + y \in Nat /\ cnt + y < M + M
            /\ pulses + n \in Nat /\ pulses + n < M + M
            /\ cnt + (x + y) \in Nat /\ cnt + (x + y) < M + M
            /\ base + pulses \in Nat /\ base + pulses < M + M
            /\ cnt' + (n + x) \in Nat /\ cnt' + (n + x) < M + M
            /\ base + pulses' \in Nat /\ base + pulses' < M + M
        <5>1. /\ cnt + y \in Nat /\ cnt + y < M + M
              /\ cnt + (x + y) \in Nat /\ cnt + (x + y) < M + M
          BY ONLY <4>0, <4>2, <1>2, <1>3, SMT
        <5>2. /\ pulses + n \in Nat /\ pulses + n < M + M
              /\ base + pulses \in Nat /\ base + pulses < M + M
          BY ONLY <4>0, <4>2, <1>2, SMT
        <5>0. \A e \in 0 .. M - 1 : /\ base + e \in Nat /\ base + e < M + M
                                     /\ e + (n + x) \in Nat /\ e + (n + x) < M + M
          BY ONLY <4>0, <4>2, <1>2, <1>3, SMT
        <5>3. base + pulses' \in Nat /\ base + pulses' < M + M
          BY ONLY <4>2, <5>0, Zenon
        <5>4. cnt' + (n + x) \in Nat /\ cnt' + (n + x) < M + M
          BY ONLY <4>2, <5>0, Zenon
        <5> QED  BY ONLY <5>1, <5>2, <5>3, <5>4, Zenon
      <4> HIDE DEF W
      <4>4. /\ cnt' = W(cnt + y) /\ pulses' = W(pulses + n)
            /\ W(cnt + (x + y)) = W(base + pulses)
        BY ONLY <3>1, <3>2, <3>4, <4>1, <4>3, Zenon DEF M
      <4>5. W(cnt' + (n + x)) = W(base + pulses')
        BY ONLY <4>0, <4>2, <4>4, <1>2, <1>3, SMT DEF W
      <4>6. (cnt' + (n + x)) % M = (base + pulses') % M
        BY ONLY <4>1, <4>3, <4>5, Zenon
      <4> QED  BY ONLY <4>6, Zenon DEF M
    <3>6. (cnt' + InFlight') % SecondMod = (base' + pulses') % SecondMod
      BY ONLY <3>1, <3>5, <1>5, Zenon
    <3>7. EveryPulseCountsOnce'  BY ONLY <3>6 DEF EveryPulseCountsOnce
    <3> QED  BY <3>1, <3>3, <3>7, <1>6
  <2> QED  BY <2>1, <2>2
<1>11. /\ onepps_in' \in BOOLEAN /\ sclr' \in BOOLEAN /\ load' \in BOOLEAN
       /\ time_load' \in Seconds
  BY DEF Next, NewInputs
<1>12. onepps_r_1' \in BOOLEAN /\ onepps_r_2' \in BOOLEAN /\ onepps_r_3' \in BOOLEAN
  BY <1>1 DEF Next, Edge, SynchronizerFFs, EdgeDetector, TypeOK
<1> QED  BY <1>8, <1>10, <1>11, <1>12 DEF IInv, TypeOK

(* sync.vhd counts every pulse once: under any level at its input, any     *)
(* clear, any load and any time, the counter has advanced by the pulses    *)
(* that entered the synchroniser and left it, for every width.             *)
THEOREM CountedOnce == Spec => []EveryPulseCountsOnce
<1>1. Init => IInv  BY InitIInv
<1>2. IInv /\ [Next]_vars => IInv'
  <2> SUFFICES ASSUME IInv, [Next]_vars PROVE IInv'
    OBVIOUS
  <2>1. CASE Next  BY <2>1, StepIInv
  <2>2. CASE UNCHANGED vars
    BY <2>2 DEF IInv, TypeOK, EveryPulseCountsOnce, InFlight, vars, inputs, registers
  <2> QED  BY <2>1, <2>2
<1>3. IInv => EveryPulseCountsOnce  BY DEF IInv
<1> QED  BY <1>1, <1>2, <1>3, PTL DEF Spec

(* The same of the PPS generator and the counter in their two clock        *)
(* domains, at any phase, for every period, duty cycle and frame length.   *)
THEOREM GeneratedPulsesCountOnce == PpsSpec => []EveryPulseCountsOnce
<1>1. PpsInit => IInv  BY InitIInv DEF PpsInit
<1>2. IInv /\ [PpsNext]_allVars => IInv'
  <2> SUFFICES ASSUME IInv, [PpsNext]_allVars PROVE IInv'
    OBVIOUS
  <2>1. CASE AdcEdge
    <3>1. onepps_in' \in BOOLEAN  BY <2>1 DEF AdcEdge, pps_generation
    <3>2. UNCHANGED <<sclr, load, time_load, registers, base, pulses>>
      BY <2>1 DEF AdcEdge
    <3> QED
      BY <3>1, <3>2 DEF IInv, TypeOK, EveryPulseCountsOnce, InFlight, registers
  <2>2. CASE CoreEdge
    <3>1. Next  BY <2>2 DEF CoreEdge
    <3> QED  BY <3>1, StepIInv
  <2>3. CASE UNCHANGED allVars
    BY <2>3 DEF IInv, TypeOK, EveryPulseCountsOnce, InFlight, allVars, vars, inputs,
                registers
  <2> QED  BY <2>1, <2>2, <2>3 DEF PpsNext
<1>3. IInv => EveryPulseCountsOnce  BY DEF IInv
<1> QED  BY <1>1, <1>2, <1>3, PTL DEF PpsSpec

----------------------------------------------------------------------------
(* Seconds are even.                                                       *)

(* The level just sampled rose.                                            *)
Entering == onepps_r_1 /\ ~onepps_r_2

High == 0 < carrier /\ carrier <= duty_cycle

(* The pulse of this period of the carrier has not been detected yet.      *)
Pending == \/ carrier = 0
           \/ carrier = 1 /\ edges <= 1
           \/ carrier = 2 /\ edges = 0 /\ Entering

Ranges == /\ carrier \in 0 .. period /\ edges \in 0 .. 2
          /\ apart \in Nat \cup {None}

(* What the synchroniser holds follows from the carrier and the edges      *)
(* since it moved; a rise is seen in the first or the second of them.      *)
Levels == /\ onepps_in <=> High
          /\ carrier = 0 /\ edges >= 1 => ~onepps_r_1
          /\ carrier = 1 /\ edges = 0 => ~onepps_r_1
          /\ High /\ ~(carrier = 1 /\ edges = 0) => onepps_r_1
          /\ carrier = 1 /\ edges = 1 => ~onepps_r_2
          /\ carrier = 1 /\ edges = 2 => onepps_r_2
          /\ Entering => \/ carrier = 1 /\ edges = 1
                         \/ carrier = 2 /\ edges = 0

(* A detection found the carrier at one or at two.                         *)
Distance == apart # None =>
              /\ Pending => apart \in carrier + period - 1 .. carrier + period
              /\ ~Pending => apart \in carrier - 2 .. carrier - 1

(* Inductive: see Levels and Distance.                                     *)
Even == Ranges /\ Levels /\ Distance /\ SecondsAreEven

(* What the generics of onepps_gen.vhd are assumed to be.                  *)
LEMMA Generics ==
  /\ period \in Nat /\ period >= 2
  /\ duty_cycle \in Nat /\ 1 <= duty_cycle /\ duty_cycle < period
BY PeriodAssumption

(* The carrier counts 0 .. period.                                         *)
LEMMA CarrierStep ==
  ASSUME Ranges, Count_carrier
  PROVE  carrier' = IF carrier = period THEN 0 ELSE carrier + 1
<1> DEFINE M == CarrierMod
<1>1. M \in Nat /\ period \in Nat /\ period < M /\ M > 0
  BY PeriodAssumption
<1>2. carrier \in 0 .. period  BY DEF Ranges
<1> HIDE DEF M
<1>3. period % M = period  BY <1>1, Z3
<1>4. ASSUME carrier # period PROVE (carrier + 1) % M = carrier + 1
  <2>1. carrier + 1 \in Nat /\ carrier + 1 < M  BY <1>1, <1>2, <1>4
  <2>2. \A a \in Nat : a < M => a % M = a  BY <1>1, Z3
  <2> QED  BY <2>1, <2>2
<1> QED  BY <1>3, <1>4 DEF M, Count_carrier, period_end

(* At power-up nothing has been detected.                                  *)
LEMMA InitEven == PpsInit => Even
<1> SUFFICES ASSUME PpsInit PROVE Even
  OBVIOUS
<1>1. /\ carrier = 0 /\ edges = 0 /\ apart = None /\ interval = None
      /\ onepps_in = FALSE /\ onepps_r_1 = TRUE /\ onepps_r_2 = TRUE
  BY DEF PpsInit, Init
<1>2. Ranges  BY <1>1, Generics DEF Ranges
<1>3. Levels  BY <1>1 DEF Levels, High, Entering
<1>4. Distance  BY <1>1 DEF Distance
<1>5. SecondsAreEven  BY <1>1 DEF SecondsAreEven
<1> QED  BY <1>2, <1>3, <1>4, <1>5 DEF Even

(* An edge of the generator's clock.                                       *)
LEMMA AdcEven == ASSUME Even, AdcEdge PROVE Even'
<1>1. /\ carrier \in 0 .. period /\ edges \in 1 .. 2 /\ edges' = 0
      /\ apart \in Nat \cup {None}
  BY DEF Even, Ranges, AdcEdge
<1>2. carrier' = IF carrier = period THEN 0 ELSE carrier + 1
  BY CarrierStep DEF Even, AdcEdge
<1>3. onepps_in' <=> carrier < duty_cycle
  BY DEF AdcEdge, pps_generation
<1>4. UNCHANGED <<onepps_r_1, onepps_r_2, interval>>
  BY DEF AdcEdge, registers
<1>5. apart' = IF apart = None THEN None ELSE apart + 1
  BY DEF AdcEdge
<1>6. Entering' <=> Entering  BY <1>4 DEF Entering
<1>7. Levels  BY DEF Even
<1>8. Ranges'  BY <1>1, <1>2, <1>5, Generics DEF Ranges, None
<1>9. Levels'
  <2>1. onepps_in' <=> High'
    BY <1>1, <1>2, <1>3, Generics DEF High
  <2>2. carrier' = 1 => ~onepps_r_1'
    BY <1>1, <1>2, <1>4, <1>7, Generics DEF Levels
  <2>3. High' /\ carrier' # 1 => onepps_r_1'
    BY <1>1, <1>2, <1>4, <1>7, Generics DEF Levels, High
  <2>4. Entering' => carrier' = 2
    BY <1>1, <1>2, <1>6, <1>7, Generics DEF Levels
  <2> QED  BY <1>1, <2>1, <2>2, <2>3, <2>4 DEF Levels
<1>10. Distance'
  <2> SUFFICES ASSUME apart # None PROVE Distance'
    BY <1>5 DEF Distance
  <2>0. apart' = apart + 1 /\ apart \in Nat  BY <1>1, <1>5
  <2>1. /\ Pending => apart \in carrier + period - 1 .. carrier + period
        /\ ~Pending => apart \in carrier - 2 .. carrier - 1
    BY DEF Even, Distance
  <2>2. CASE carrier = period
    <3>1. ~Pending  BY <1>1, <1>7, <2>2, Generics DEF Pending, Levels
    <3>2. carrier' = 0 /\ Pending'  BY <1>2, <2>2 DEF Pending
    <3> QED  BY <2>0, <2>1, <2>2, <3>1, <3>2, Generics DEF Distance
  <2>3. CASE carrier # period
    <3>1. carrier' = carrier + 1  BY <1>2, <2>3
    <3>2. Pending' <=> Pending
      <4>1. CASE carrier = 0  BY <1>1, <3>1, <4>1 DEF Pending
      <4>2. CASE carrier = 1
        <5>1. Entering <=> edges = 1
          BY <1>1, <1>7, <4>2, Generics DEF Levels, Entering, High
        <5> QED  BY <1>1, <1>6, <3>1, <4>2, <5>1 DEF Pending
      <4>3. CASE carrier >= 2
        BY <1>1, <3>1, <4>3 DEF Pending
      <4> QED  BY <1>1, <4>1, <4>2, <4>3
    <3>3. CASE Pending
      BY <1>1, <2>0, <2>1, <3>1, <3>2, <3>3, Generics DEF Distance
    <3>4. CASE ~Pending
      BY <1>1, <2>0, <2>1, <3>1, <3>2, <3>4, Generics DEF Distance
    <3> QED  BY <3>3, <3>4
  <2> QED  BY <2>2, <2>3
<1>11. SecondsAreEven'  BY <1>4 DEF Even, SecondsAreEven
<1> QED  BY <1>8, <1>9, <1>10, <1>11 DEF Even

(* An edge of the clock of the counter.                                    *)
LEMMA CoreEven == ASSUME Even, CoreEdge PROVE Even'
<1>1. /\ carrier \in 0 .. period /\ edges \in 0 .. 1 /\ edges' = edges + 1
      /\ apart \in Nat \cup {None} /\ carrier' = carrier
  BY DEF Even, Ranges, CoreEdge, generator
<1>2. /\ onepps_in' = onepps_in /\ onepps_r_1' = onepps_in
      /\ onepps_r_2' = onepps_r_1 /\ onepps_r_3' = onepps_r_2
  BY DEF CoreEdge, Next, Edge, SynchronizerFFs, EdgeDetector
<1>3. onepps_RE' <=> Entering
  BY <1>2 DEF onepps_RE, Entering
<1>4. /\ apart' = IF Entering THEN 0 ELSE apart
      /\ interval' = IF Entering THEN apart ELSE interval
  BY <1>3 DEF CoreEdge
<1>5. Levels  BY DEF Even
<1>6. Ranges'  BY <1>1, <1>4 DEF Ranges, None
<1>7. High' <=> High  BY <1>1 DEF High
<1>8. Levels'
  <2>1. onepps_in' <=> High'  BY <1>2, <1>5, <1>7 DEF Levels
  <2>2. onepps_r_1' <=> High'  BY <1>2, <1>5, <1>7 DEF Levels
  <2>3. carrier = 0 => ~High'  BY <1>7 DEF High
  <2>4. carrier = 1 /\ edges' = 1 => ~onepps_r_2'
    BY <1>1, <1>2, <1>5 DEF Levels
  <2>5. carrier = 1 /\ edges' = 2 => onepps_r_2'
    BY <1>1, <1>2, <1>5, Generics DEF Levels, High
  <2>6. Entering' => carrier = 1 /\ edges' = 1
    BY <1>1, <1>2, <1>5, <1>7, <2>2 DEF Levels, Entering
  <2> QED  BY <1>1, <2>1, <2>2, <2>3, <2>4, <2>5, <2>6 DEF Levels
<1>9. CASE Entering
  <2>1. \/ carrier = 1 /\ edges = 1
        \/ carrier = 2 /\ edges = 0
    BY <1>5, <1>9 DEF Levels
  <2>2. Pending  BY <1>9, <2>1 DEF Pending
  <2>3. ~Pending'  BY <1>1, <2>1 DEF Pending
  <2>4. Distance'  BY <1>1, <1>4, <1>9, <2>1, <2>3 DEF Distance
  <2>5. SecondsAreEven'
    <3>1. apart # None => apart \in carrier + period - 1 .. carrier + period
      BY <2>2 DEF Even, Distance
    <3> QED  BY <1>1, <1>4, <1>9, <2>1, <3>1, Generics DEF SecondsAreEven
  <2> QED  BY <1>6, <1>8, <2>4, <2>5 DEF Even
<1>10. CASE ~Entering
  <2>1. Pending' <=> Pending
    <3>1. CASE carrier = 1
      <4>1. edges = 0
        BY <1>1, <1>5, <1>10, <3>1, Generics DEF Levels, Entering, High
      <4> QED  BY <1>1, <3>1, <4>1 DEF Pending
    <3>2. CASE carrier # 1  BY <1>1, <1>10, <3>2 DEF Pending
    <3> QED  BY <3>1, <3>2
  <2>2. apart' = apart /\ interval' = interval  BY <1>4, <1>10
  <2>3. Distance'  BY <1>1, <2>1, <2>2 DEF Even, Distance
  <2>4. SecondsAreEven'  BY <2>2 DEF Even, SecondsAreEven
  <2> QED  BY <1>6, <1>8, <2>3, <2>4 DEF Even
<1> QED  BY <1>9, <1>10

(* Seconds are period + 1 clocks of the generator long, one more or less,  *)
(* for every period that is no power of two and every duty cycle: no pulse *)
(* is missed, detected twice or detected at its other end.                 *)
THEOREM AlwaysEven == PpsSpec => []SecondsAreEven
<1>1. PpsInit => Even  BY InitEven
<1>2. Even /\ [PpsNext]_allVars => Even'
  <2> SUFFICES ASSUME Even, [PpsNext]_allVars PROVE Even'
    OBVIOUS
  <2>1. CASE AdcEdge  BY <2>1, AdcEven
  <2>2. CASE CoreEdge  BY <2>2, CoreEven
  <2>3. CASE UNCHANGED allVars
    BY <2>3 DEF Even, Ranges, Levels, Distance, SecondsAreEven, Pending, High, Entering,
                allVars, vars, inputs, registers, generator
  <2> QED  BY <2>1, <2>2, <2>3 DEF PpsNext
<1>3. Even => SecondsAreEven  BY DEF Even
<1> QED  BY <1>1, <1>2, <1>3, PTL DEF PpsSpec

----------------------------------------------------------------------------
(* Frames in a second.                                                     *)

(* Division with a remainder.                                              *)
LEMMA Division ==
  ASSUME NEW n \in Nat, NEW F \in Nat \ {0}
  PROVE  /\ n \div F \in Nat /\ n % F \in 0 .. F - 1
         /\ n = (n \div F) * F + (n % F)
BY Z3

(* A multiple that lies less than one F below and two above zero.          *)
LEMMA FewMultiples ==
  ASSUME NEW k \in Int, NEW F \in Nat \ {0}, 0 - F < k * F, k * F < F + F
  PROVE  k \in {0, 1}
<1>1. CASE k <= -1  BY <1>1, Z3
<1>2. CASE k >= 2  BY <1>2, Z3
<1> QED  BY <1>1, <1>2

(* The position in a frame moves round.                                    *)
LEMMA NextSample ==
  ASSUME NEW F \in Nat \ {0}, NEW s \in 0 .. F - 1
  PROVE  (s + 1) % F = IF s = F - 1 THEN 0 ELSE s + 1
<1>1. CASE s = F - 1
  <2>1. F % F = 0  BY Z3
  <2> QED  BY <1>1, <2>1
<1>2. CASE s # F - 1
  <2>1. s + 1 < F  BY <1>2
  <2>2. \A a \in Nat : a < F => a % F = a  BY Z3
  <2> QED  BY <1>2, <2>1, <2>2
<1> QED  BY <1>1, <1>2

(* A stretch of n samples that begins and ends anywhere in a frame sees    *)
(* the ends of as many frames as fit into it, or of one more.              *)
LEMMA FramesInAStretch ==
  ASSUME NEW F \in Nat \ {0}, NEW n \in Nat, NEW e \in Nat,
         NEW s \in 0 .. F - 1, (e * F + s) - n \in 0 .. F - 1
  PROVE  \/ e = n \div F
         \/ e = (n \div F) + 1 /\ n % F # 0
<1> DEFINE q == n \div F
           r == n % F
<1>1. q \in Nat /\ r \in 0 .. F - 1 /\ n = q * F + r
  BY Division
<1> HIDE DEF q, r
<1>2. (e - q) * F = e * F - q * F /\ e * F \in Int /\ q * F \in Int
  BY <1>1, Z3
<1>3. 0 - F < (e - q) * F /\ (e - q) * F < F + F
  BY <1>1, <1>2
<1>4. e - q \in {0, 1}
  BY <1>1, <1>3, FewMultiples
<1>5. r = 0 => e - q # 1
  <2> SUFFICES ASSUME r = 0, e - q = 1 PROVE FALSE
    OBVIOUS
  <2>1. (e - q) * F = F  BY Z3
  <2> QED  BY <1>1, <1>2, <2>1
<1>6. e = q \/ (e = q + 1 /\ r # 0)
  BY <1>1, <1>4, <1>5
<1> QED  BY <1>6 DEF q, r

(* Clocks since the pulse began.                                           *)
Position == IF carrier = 0 THEN period ELSE carrier - 1

(* The frames ended since the pulse began and the sample now reached are   *)
(* those of Position samples counted from somewhere in a frame.            *)
Framing == frames # None =>
             (frames * FrameSamples + sample) - Position \in 0 .. FrameSamples - 1

(* Inductive: see Framing; Even says when a pulse begins.                  *)
Framed == /\ Even
          /\ sample \in 0 .. FrameSamples - 1
          /\ frames \in Nat \cup {None}
          /\ Framing
          /\ FramesInASecond

LEMMA InitFramed == PpsInit => Framed
BY InitEven DEF PpsInit, Framed, Framing, FramesInASecond

(* A pulse begins as the carrier leaves zero.                              *)
LEMMA PulseBegins ==
  ASSUME Even, AdcEdge
  PROVE  Begins <=> carrier = 0
<1>1. onepps_in' <=> carrier < duty_cycle  BY DEF AdcEdge, pps_generation
<1>2. onepps_in <=> High  BY DEF Even, Levels
<1>3. carrier \in 0 .. period  BY DEF Even, Ranges
<1> QED  BY <1>1, <1>2, <1>3, Generics DEF Begins, High

LEMMA AdcFramed == ASSUME Framed, AdcEdge PROVE Framed'
<1> DEFINE F == FrameSamples
           ended == IF frames = None THEN None
                    ELSE frames + One(sample = F - 1)
<1>0. F \in Nat \ {0} /\ period \in Nat  BY FrameSamplesAssumption, Generics
<1>1. /\ sample' = (sample + 1) % F
      /\ frames' = IF Begins THEN 0 ELSE ended
      /\ lastSecond' = IF Begins THEN ended ELSE lastSecond
  BY DEF AdcEdge, CountFrames
<1>2. sample \in 0 .. F - 1 /\ frames \in Nat \cup {None}
  BY DEF Framed
<1>3. sample' = IF sample = F - 1 THEN 0 ELSE sample + 1
  BY <1>0, <1>1, <1>2, NextSample
<1>4. carrier \in 0 .. period /\ carrier' = IF carrier = period THEN 0 ELSE carrier + 1
  BY CarrierStep DEF Framed, Even, Ranges, AdcEdge
<1>5. Begins <=> carrier = 0
  BY PulseBegins DEF Framed
<1>6. ended \in Nat \cup {None} /\ (ended = None <=> frames = None)
  BY <1>2 DEF One, None
<1>7. ASSUME frames # None
      PROVE  (ended * F + sample') - (Position + 1) \in 0 .. F - 1
  <2>1. (frames * F + sample) - Position \in 0 .. F - 1 /\ frames \in Nat
    BY <1>2, <1>7 DEF Framed, Framing
  <2>2. frames * F \in Int /\ (frames + 1) * F = frames * F + F /\ Position \in Int
    BY <1>0, <1>4, <2>1, Z3 DEF Position
  <2>3. CASE sample = F - 1
    <3>1. ended = frames + 1 /\ sample' = 0  BY <1>3, <1>7, <2>3 DEF One
    <3> HIDE DEF ended, F
    <3> QED  BY <1>0, <2>1, <2>2, <2>3, <3>1
  <2>4. CASE sample # F - 1
    <3>1. ended = frames /\ sample' = sample + 1
      BY <1>3, <1>7, <2>1, <2>4 DEF One
    <3> HIDE DEF ended, F
    <3> QED  BY <1>0, <1>2, <2>1, <2>2, <3>1
  <2> QED  BY <2>3, <2>4
<1> HIDE DEF ended, F
<1>8. Even'  BY AdcEven DEF Framed
<1>9. sample' \in 0 .. F - 1  BY <1>0, <1>2, <1>3
<1>10. frames' \in Nat \cup {None}  BY <1>1, <1>6
<1>11. CASE carrier = 0
  <2>1. frames' = 0 /\ lastSecond' = ended /\ carrier' = 1
    BY <1>1, <1>4, <1>5, <1>11, Generics
  <2>2. Framing'
    <3>1. Position' = 0  BY <2>1 DEF Position
    <3>2. \A s \in 0 .. F - 1 : (0 * F + s) - 0 \in 0 .. F - 1  BY <1>0
    <3>3. (frames' * F + sample') - Position' \in 0 .. F - 1
      BY <1>9, <2>1, <3>1, <3>2
    <3> QED  BY <3>3 DEF Framing, F
  <2>3. ASSUME ended # None
        PROVE  \/ ended = (period + 1) \div F
               \/ ended = ((period + 1) \div F) + 1 /\ (period + 1) % F # 0
    <3>1. Position = period  BY <1>11 DEF Position
    <3>2. (ended * F + sample') - (period + 1) \in 0 .. F - 1
      BY <1>6, <1>7, <2>3, <3>1
    <3>3. ended \in Nat /\ period + 1 \in Nat  BY <1>0, <1>6, <2>3
    <3> QED  BY <1>0, <1>9, <3>2, <3>3, FramesInAStretch
  <2>4. FramesInASecond'  BY <2>1, <2>3 DEF FramesInASecond, F
  <2> QED  BY <1>8, <1>9, <1>10, <2>2, <2>4 DEF Framed, F
<1>12. CASE carrier # 0
  <2>1. frames' = ended /\ lastSecond' = lastSecond  BY <1>1, <1>5, <1>12
  <2>2. Position' = Position + 1
    BY <1>0, <1>4, <1>12, Generics DEF Position
  <2>3. Framing'  BY <1>6, <1>7, <2>1, <2>2 DEF Framing, F
  <2>4. FramesInASecond'  BY <2>1 DEF Framed, FramesInASecond
  <2> QED  BY <1>8, <1>9, <1>10, <2>3, <2>4 DEF Framed, F
<1> QED  BY <1>11, <1>12

(* A second of the generator holds as many whole frames as fit into its    *)
(* period + 1 samples or one more, however the frames lie in it, for every *)
(* period, duty cycle and frame length: with the numbers of the block      *)
(* design 1960 or 1961, never the 1953 that main.c takes for a second.     *)
THEOREM FramesOfASecond == PpsSpec => []FramesInASecond
<1>1. Framed /\ [PpsNext]_allVars => Framed'
  <2> SUFFICES ASSUME Framed, [PpsNext]_allVars PROVE Framed'
    OBVIOUS
  <2>1. CASE AdcEdge  BY <2>1, AdcFramed
  <2>2. CASE CoreEdge
    <3>1. Even'  BY <2>2, CoreEven DEF Framed
    <3>2. UNCHANGED generator  BY <2>2 DEF CoreEdge
    <3> QED
      BY <3>1, <3>2 DEF Framed, Framing, FramesInASecond, Position, generator
  <2>3. CASE UNCHANGED allVars
    <3>1. Even'
      BY <2>3 DEF Framed, Even, Ranges, Levels, Distance, SecondsAreEven, Pending,
                  High, Entering, allVars, vars, inputs, registers, generator
    <3> QED
      BY <2>3, <3>1 DEF Framed, Framing, FramesInASecond, Position, allVars, generator
  <2> QED  BY <2>1, <2>2, <2>3 DEF PpsNext
<1>2. Framed => FramesInASecond  BY DEF Framed
<1> QED  BY <1>1, <1>2, InitFramed, PTL DEF PpsSpec
=============================================================================
