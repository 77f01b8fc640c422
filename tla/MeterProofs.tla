---------------------------- MODULE MeterProofs -----------------------------
(***************************************************************************)
(* Theorems about module Meters, for any powers, scan intervals, length of *)
(* the day and ways the clock is set.                                      *)
(***************************************************************************)
EXTENDS Meters, TLAPS

Energies == [total : Nat, tick : Nat \cup {None}, power : Nat \cup {None}]
Runtimes == [today : Nat, tick : Nat \cup {None}, date : Nat \cup {None}]

LEMMA UsableIsNat ==
  ASSUME NEW power \in Readings, Usable(power)
  PROVE  power \in Nat
BY MetersAssumption DEF Readings, Usable

(* The energy total never falls, and grows only over a gap that is not too *)
(* long between two readings.                                              *)
LEMMA EnergyStep ==
  ASSUME energy \in Energies, energy.tick = None <=> energy.power = None,
         Now \in Nat, maxGap \in Nat, NEW power \in Readings
  PROVE  LET e == AccumulateEnergy(power)
         IN /\ e \in Energies /\ (e.tick = None <=> e.power = None)
            /\ energy.total <= e.total
            /\ e.tick # None => Usable(power) /\ e.tick = Now
            /\ energy.total < e.total =>
                 Usable(power) /\ energy.tick # None /\ Now - energy.tick \in 1 .. maxGap
<1>. DEFINE e == AccumulateEnergy(power)
<1>1. energy.total \in Nat /\ energy.tick \in Nat \cup {None} /\ energy.power \in Nat \cup {None}
  BY DEF Energies
<1>2. CASE ~Usable(power)
  <2>1. e = [energy EXCEPT !.tick = None, !.power = None]
    BY <1>2 DEF AccumulateEnergy
  <2>2. e.total = energy.total /\ e.tick = None /\ e.power = None /\ e \in Energies
    BY <2>1 DEF Energies
  <2>. QED  BY <1>1, <2>2
<1>3. CASE Usable(power) /\ energy.tick = None
  <2>1. e = [energy EXCEPT !.tick = Now, !.power = power]
    BY <1>3 DEF AccumulateEnergy
  <2>2. power \in Nat /\ Now # None /\ power # None
    BY <1>3, UsableIsNat, MetersAssumption
  <2>3. e.total = energy.total /\ e.tick = Now /\ e.power = power /\ e \in Energies
    BY <2>1, <2>2 DEF Energies
  <2>. QED  BY <1>1, <1>3, <2>2, <2>3
<1>4. CASE Usable(power) /\ energy.tick # None
  <2>. DEFINE more == (energy.power + power) * (Now - energy.tick)
              total == IF Now - energy.tick \in 1 .. maxGap THEN energy.total + more
                                                           ELSE energy.total
  <2>1. e = [total |-> total, tick |-> Now, power |-> power]
    BY <1>4 DEF AccumulateEnergy
  <2>2. power \in Nat /\ Now # None /\ power # None
    BY <1>4, UsableIsNat, MetersAssumption
  <2>3. energy.tick \in Nat /\ energy.power \in Nat
    BY <1>1, <1>4
  <2>4. Now - energy.tick \in 1 .. maxGap => more \in Nat
    <3>1. ASSUME NEW x \in Nat, NEW y \in Nat PROVE x * y \in Nat
      OBVIOUS
    <3>2. energy.power + power \in Nat
      BY <2>2, <2>3
    <3>. QED  BY <2>3, <3>1, <3>2
  <2>5. total \in Nat /\ energy.total <= total
        /\ (energy.total < total => Now - energy.tick \in 1 .. maxGap)
    <3>. HIDE DEF more
    <3>. QED  BY <1>1, <2>4
  <2>. HIDE DEF total
  <2>6. e.total = total /\ e.tick = Now /\ e.power = power /\ e \in Energies
    BY <2>1, <2>2, <2>5 DEF Energies
  <2>. QED  BY <1>4, <2>2, <2>5, <2>6
<1>. QED  BY <1>2, <1>3, <1>4

-----------------------------------------------------------------------------
(* The invariant in four parts: types; where the sensor is and what it has *)
(* shown; today's runtime, with what the next state may add; and what the  *)
(* energy meter's anchor is.                                               *)

EnergyInv ==
  /\ sensor => entry = "up" /\ peak <= Rounded(energy.total)
  /\ ~sensor => peak <= IF stored = None THEN 0 ELSE stored

RuntimeInv ==
  runtime.tick # None =>
    /\ runtime.today <= time + ahead - since
    /\ runtime.today + (Now - runtime.tick) <= time + ahead - since

AnchorInv ==
  energy.tick # None =>
    latest # None /\ Usable(latest.power) /\ latest.at = energy.tick

Inv == TypeOK /\ EnergyInv /\ RuntimeInv /\ AnchorInv

LEMMA InvInit == Init => Inv
<1>. SUFFICES ASSUME Init PROVE Inv
  OBVIOUS
<1>1. maxGap \in Nat
  BY MetersAssumption DEF Init, MaxGap
<1>2. TypeOK
  <2>1. energy \in Energies /\ energy.tick = None /\ energy.power = None
    BY DEF Init, Energies
  <2>2. runtime \in Runtimes /\ runtime.tick = None /\ runtime.date = None
    BY DEF Init, Runtimes
  <2>3. time \in Nat /\ clock \in Int /\ Now \in Nat /\ peak \in Nat /\ ahead \in Nat /\ since \in Nat
    BY DEF Init, Now
  <2>4. entry \in {"down", "starting", "up"} /\ sensor \in BOOLEAN /\ stored \in Nat \cup {None}
    BY DEF Init
  <2>5. latest = None /\ shifts \in 0 .. MaxShifts
    BY MetersAssumption DEF Init
  <2>. QED  BY <1>1, <2>1, <2>2, <2>3, <2>4, <2>5, Zenon DEF TypeOK, Energies, Runtimes
<1>. QED  BY <1>2 DEF Init, Inv, EnergyInv, RuntimeInv, AnchorInv

LEMMA TypeStep ==
  ASSUME Inv, [Next]_vars
  PROVE  TypeOK'
<1>. USE DEF Inv
<1>1. CASE \E interval \in Intervals : Setup(interval)
  <2>1. PICK interval \in Intervals : Setup(interval)
    BY <1>1
  <2>2. maxGap' \in Nat
    BY <2>1, MetersAssumption DEF Setup, MaxGap
  <2>. QED  BY <2>1, <2>2, MetersAssumption DEF Setup, TypeOK, Now
<1>2. CASE \E action \in Actions, power \in Readings : Process(action, power)
  <2>1. PICK action \in Actions, power \in Readings : Process(action, power)
    BY <1>2
  <2>2. energy' \in Energies /\ (energy'.tick = None <=> energy'.power = None)
    BY <2>1, EnergyStep DEF Process, TypeOK, Energies
  <2>3. Date(Now) \in Nat
    BY MetersAssumption DEF TypeOK, Date
  <2>4. runtime' \in Runtimes /\ runtime'.tick = Now /\ runtime'.date = Date(Now)
    <3>1. runtime.today \in Nat /\ (~NewDay => runtime.tick \in Nat)
      BY DEF TypeOK, NewDay
    <3>2. AccumulateRuntime(action).today \in Nat
      BY <3>1 DEF AccumulateRuntime, TypeOK
    <3>. QED  BY <2>1, <2>3, <3>2 DEF Process, AccumulateRuntime, Runtimes, TypeOK
  <2>5. peak' \in Nat /\ since' \in Nat
    <3>1. Rounded(energy'.total) \in Nat
      BY <2>2 DEF Rounded, Energies
    <3>. QED  BY <2>1, <3>1 DEF Process, Show, TypeOK
  <2>6. latest' \in [power : Readings, at : Nat]
    BY <2>1 DEF Process, TypeOK
  <2>. QED  BY <2>1, <2>2, <2>3, <2>4, <2>5, <2>6, MetersAssumption
            DEF Process, TypeOK, Energies, Runtimes, Now
<1>3. CASE AddEntities
  <2>1. Restored \in Nat
    BY DEF TypeOK, Restored
  <2>2. energy' \in Energies /\ energy'.tick = energy.tick /\ energy'.power = energy.power
    BY <1>3, <2>1 DEF AddEntities, TypeOK, Energies
  <2>3. peak' \in Nat /\ sensor' \in BOOLEAN
    <3>1. Rounded(energy'.total) \in Nat
      BY <2>2 DEF Rounded, Energies
    <3>. QED  BY <1>3, <3>1 DEF AddEntities, Show, TypeOK
  <2>. QED  BY <1>3, <2>2, <2>3 DEF AddEntities, TypeOK, Energies, Now
<1>4. CASE Unload
  <2>1. stored' \in Nat \cup {None}
    BY <1>4 DEF Unload, Store, TypeOK, Rounded
  <2>. QED  BY <1>4, <2>1 DEF Unload, TypeOK, Now
<1>5. CASE Dump
  <2>1. stored' \in Nat \cup {None}
    BY <1>5 DEF Dump, Store, TypeOK, Rounded
  <2>. QED  BY <1>5, <2>1 DEF Dump, TypeOK, Now
<1>6. CASE Crash
  BY <1>6 DEF Crash, TypeOK, Now
<1>7. CASE Pass
  BY <1>7, MetersAssumption DEF Pass, TypeOK, Now
<1>8. CASE \E shift \in Shifts : SetClock(shift) \/ SetClock(-shift)
  BY <1>8, MetersAssumption DEF SetClock, TypeOK, Now
<1>9. CASE UNCHANGED vars
  BY <1>9 DEF vars, TypeOK, Now
<1>. QED  BY <1>1, <1>2, <1>3, <1>4, <1>5, <1>6, <1>7, <1>8, <1>9 DEF Next

(* The sensor has never shown more than it shows, and while it is away     *)
(* Home Assistant has what it showed.                                      *)
LEMMA EnergyStays ==
  ASSUME Inv, [Next]_vars
  PROVE  EnergyInv'
<1>. USE DEF Inv
<1>0. ASSUME NEW m \in Nat, NEW n \in Nat, m <= n
      PROVE  Rounded(m) \in Nat /\ Rounded(m) <= Rounded(n) /\ Rounded(2 * m) = m
  BY <1>0 DEF Rounded
<1>1. CASE \E interval \in Intervals : Setup(interval)
  BY <1>1 DEF Setup, EnergyInv
<1>2. CASE \E action \in Actions, power \in Readings : Process(action, power)
  <2>1. PICK action \in Actions, power \in Readings : Process(action, power)
    BY <1>2
  <2>2. energy.total \in Nat /\ energy'.total \in Nat /\ energy.total <= energy'.total
    BY <2>1, EnergyStep DEF Process, TypeOK, Energies
  <2>3. Rounded(energy.total) <= Rounded(energy'.total) /\ Rounded(energy'.total) \in Nat
    BY <1>0, <2>2
  <2>4. sensor' = sensor /\ entry' = entry /\ stored' = stored
    BY <2>1 DEF Process
  <2>5. CASE sensor
    <3>1. sensor' /\ entry' = "up" /\ peak \in Nat
      BY <2>4, <2>5 DEF EnergyInv, TypeOK
    <3>2. peak' = IF Rounded(energy'.total) > peak THEN Rounded(energy'.total) ELSE peak
      BY <2>1, <3>1 DEF Process, Show
    <3>3. peak' <= Rounded(energy'.total)
      <4>1. peak \in Nat /\ peak <= Rounded(energy.total) /\ Rounded(energy.total) \in Nat
        BY <1>0, <2>2, <2>5 DEF EnergyInv, TypeOK
      <4>. QED  BY <2>3, <3>2, <4>1
    <3>. QED  BY <3>1, <3>3 DEF EnergyInv
  <2>6. CASE ~sensor
    BY <2>1, <2>4, <2>6 DEF Process, Show, EnergyInv
  <2>. QED  BY <2>5, <2>6
<1>3. CASE AddEntities
  <2>1. ~sensor /\ peak <= IF stored = None THEN 0 ELSE stored
    BY <1>3 DEF AddEntities, EnergyInv
  <2>2. CASE UNCHANGED <<energy, sensor, peak>>
    BY <1>3, <2>1, <2>2 DEF AddEntities, EnergyInv
  <2>3. CASE sensor' = TRUE /\ energy' = [energy EXCEPT !.total = Restored] /\ Show
    <3>1. Restored \in Nat /\ (stored # None => 2 * stored <= Restored)
      BY DEF TypeOK, Restored
    <3>2. energy'.total = Restored
      BY <2>3 DEF TypeOK
    <3>3. stored # None => stored <= Rounded(energy'.total)
      <4>1. CASE stored # None
        <5>1. stored \in Nat
          BY <4>1 DEF TypeOK
        <5>2. Rounded(2 * stored) = stored
          BY <1>0, <5>1
        <5>3. Rounded(2 * stored) <= Rounded(Restored)
          BY <1>0, <3>1, <4>1, <5>1
        <5>. QED  BY <3>2, <5>2, <5>3
      <4>. QED  BY <4>1
    <3>4. Rounded(energy'.total) \in Nat
      BY <1>0, <3>1, <3>2
    <3>5. peak' <= Rounded(energy'.total)
      BY <2>1, <2>3, <3>3, <3>4 DEF Show, TypeOK
    <3>. QED  BY <1>3, <2>3, <3>5 DEF AddEntities, EnergyInv
  <2>. QED  BY <1>3, <2>2, <2>3 DEF AddEntities
<1>4. CASE Unload
  <2>1. sensor => Rounded(energy.total) \in Nat /\ peak <= Rounded(energy.total)
    BY <1>0 DEF EnergyInv, TypeOK
  <2>2. sensor' = FALSE /\ peak' = peak /\ stored' = IF sensor THEN Rounded(energy.total) ELSE stored
    BY <1>4 DEF Unload, Store
  <2>. QED  BY <2>1, <2>2, MetersAssumption DEF EnergyInv
<1>5. CASE Dump
  BY <1>5 DEF Dump, EnergyInv
<1>6. CASE Crash
  BY <1>6 DEF Crash, EnergyInv, TypeOK
<1>7. CASE Pass
  BY <1>7 DEF Pass, EnergyInv
<1>8. CASE \E shift \in Shifts : SetClock(shift) \/ SetClock(-shift)
  BY <1>8 DEF SetClock, EnergyInv
<1>9. CASE UNCHANGED vars
  BY <1>9 DEF vars, EnergyInv
<1>. QED  BY <1>1, <1>2, <1>3, <1>4, <1>5, <1>6, <1>7, <1>8, <1>9 DEF Next

(* Whatever the next state would add to today's runtime still fits.        *)
LEMMA RuntimeStays ==
  ASSUME Inv, [Next]_vars
  PROVE  RuntimeInv'
<1>. USE DEF Inv
<1>1. CASE \E interval \in Intervals : Setup(interval)
  BY <1>1 DEF Setup, RuntimeInv
<1>2. CASE \E action \in Actions, power \in Readings : Process(action, power)
  <2>1. PICK action \in Actions, power \in Readings : Process(action, power)
    BY <1>2
  <2>2. /\ runtime' = AccumulateRuntime(action) /\ since' = (IF NewDay THEN time + ahead ELSE since)
        /\ UNCHANGED <<time, clock, ahead>>
    BY <2>1 DEF Process
  <2>3. Now' = Now /\ runtime'.tick = Now /\ Now \in Nat
    BY <2>2 DEF Now, AccumulateRuntime, TypeOK
  <2>4. CASE NewDay
    <3>1. runtime'.today = 0 /\ since' = time + ahead
      BY <2>2, <2>4 DEF AccumulateRuntime
    <3>. QED  BY <2>2, <2>3, <3>1 DEF RuntimeInv, TypeOK
  <2>5. CASE ~NewDay
    <3>1. runtime.tick # None /\ runtime.tick \in Nat /\ runtime.today \in Nat
      BY <2>5 DEF NewDay, TypeOK
    <3>2. /\ since' = since
          /\ \/ runtime'.today = runtime.today + (Now - runtime.tick)
             \/ runtime'.today = runtime.today
      BY <2>2, <2>5 DEF AccumulateRuntime
    <3>. QED  BY <2>2, <2>3, <3>1, <3>2 DEF RuntimeInv, TypeOK
  <2>. QED  BY <2>4, <2>5
<1>3. CASE AddEntities
  BY <1>3 DEF AddEntities, RuntimeInv, Now
<1>4. CASE Unload
  BY <1>4 DEF Unload, RuntimeInv, Now
<1>5. CASE Dump
  BY <1>5 DEF Dump, RuntimeInv, Now
<1>6. CASE Crash
  BY <1>6 DEF Crash, RuntimeInv, Now
<1>7. CASE Pass
  <2>1. Now' = Now + 1 /\ time' = time + 1 /\ UNCHANGED <<runtime, ahead, since>>
    BY <1>7 DEF Pass, Now, TypeOK
  <2>. QED  BY <2>1 DEF RuntimeInv, TypeOK
<1>8. CASE \E shift \in Shifts : SetClock(shift) \/ SetClock(-shift)
  <2>1. PICK shift \in Shifts : SetClock(shift) \/ SetClock(-shift)
    BY <1>8
  <2>2. shift \in Nat /\ UNCHANGED <<time, runtime, since>>
    BY <2>1, MetersAssumption DEF SetClock
  <2>3. CASE SetClock(shift)
    <3>1. Now' = Now + shift /\ ahead' = ahead + shift
      BY <2>2, <2>3 DEF SetClock, Now, TypeOK
    <3>. QED  BY <2>2, <3>1 DEF RuntimeInv, TypeOK
  <2>4. CASE SetClock(-shift)
    <3>1. Now' = Now - shift /\ ahead' = ahead
      BY <2>2, <2>4 DEF SetClock, Now, TypeOK
    <3>. QED  BY <2>2, <3>1 DEF RuntimeInv, TypeOK
  <2>. QED  BY <2>1, <2>3, <2>4
<1>9. CASE UNCHANGED vars
  BY <1>9 DEF vars, RuntimeInv, Now
<1>. QED  BY <1>1, <1>2, <1>3, <1>4, <1>5, <1>6, <1>7, <1>8, <1>9 DEF Next

(* The anchor of the energy meter is the last state, if that had power.    *)
LEMMA AnchorStays ==
  ASSUME Inv, [Next]_vars
  PROVE  AnchorInv'
<1>. USE DEF Inv
<1>1. CASE \E interval \in Intervals : Setup(interval)
  BY <1>1 DEF Setup, AnchorInv
<1>2. CASE \E action \in Actions, power \in Readings : Process(action, power)
  <2>1. PICK action \in Actions, power \in Readings : Process(action, power)
    BY <1>2
  <2>2. energy'.tick # None => Usable(power) /\ energy'.tick = Now
    BY <2>1, EnergyStep DEF Process, TypeOK, Energies
  <2>3. latest' = [power |-> power, at |-> Now]
    BY <2>1 DEF Process
  <2>4. latest' # None
    BY <2>1, <2>3, MetersAssumption DEF Readings, TypeOK
  <2>. QED  BY <2>2, <2>3, <2>4 DEF AnchorInv, Usable
<1>3. CASE AddEntities
  <2>1. energy'.tick = energy.tick /\ latest' = latest
    BY <1>3 DEF AddEntities, TypeOK
  <2>. QED  BY <2>1 DEF AnchorInv, Usable
<1>4. CASE Unload
  BY <1>4 DEF Unload, AnchorInv, Usable
<1>5. CASE Dump
  BY <1>5 DEF Dump, AnchorInv, Usable
<1>6. CASE Crash
  BY <1>6 DEF Crash, AnchorInv, Usable
<1>7. CASE Pass
  BY <1>7 DEF Pass, AnchorInv, Usable
<1>8. CASE \E shift \in Shifts : SetClock(shift) \/ SetClock(-shift)
  BY <1>8 DEF SetClock, AnchorInv, Usable
<1>9. CASE UNCHANGED vars
  BY <1>9 DEF vars, AnchorInv, Usable
<1>. QED  BY <1>1, <1>2, <1>3, <1>4, <1>5, <1>6, <1>7, <1>8, <1>9 DEF Next

-----------------------------------------------------------------------------
THEOREM Safety == Spec => []Inv
<1>1. Inv /\ [Next]_vars => Inv'
  BY TypeStep, EnergyStays, RuntimeStays, AnchorStays DEF Inv
<1>. QED  BY InvInit, <1>1, PTL DEF Spec

(* The variables keep their types.                                         *)
THEOREM TypeCorrect == Spec => []TypeOK
<1>1. Inv => TypeOK
  BY DEF Inv
<1>. QED  BY <1>1, Safety, PTL

(* The energy sensor never falls, over reloads, restores, crashes and      *)
(* whatever is done to the clock.                                          *)
THEOREM NeverFalls == Spec => []MeterNeverFalls
<1>1. Inv => MeterNeverFalls
  <2>. SUFFICES ASSUME Inv, sensor PROVE Rounded(energy.total) >= peak
    BY DEF MeterNeverFalls
  <2>1. Rounded(energy.total) \in Nat /\ peak \in Nat /\ peak <= Rounded(energy.total)
    BY DEF Inv, EnergyInv, TypeOK, Rounded
  <2>. QED  BY <2>1
<1>. QED  BY <1>1, Safety, PTL

(* Today's runtime fits into the day.                                      *)
THEOREM RuntimeFitsDay == Spec => []RuntimeFits
<1>1. Inv => RuntimeFits
  BY DEF Inv, RuntimeInv, RuntimeFits
<1>. QED  BY <1>1, Safety, PTL

(* Energy is billed between two good readings of successive states only.   *)
THEOREM HolesAreFree == Spec => HoleNotBilled
<1>. DEFINE Billed ==
       energy.total < energy'.total /\ sensor' = sensor =>
         /\ latest # None /\ Usable(latest.power) /\ Usable(latest'.power)
         /\ Now - latest.at \in 1 .. maxGap
<1>1. ASSUME Inv, [Next]_vars PROVE Billed
  <2>. USE <1>1 DEF Inv
  <2>0. energy.total \in Nat
    BY DEF TypeOK
  <2>1. CASE \E action \in Actions, power \in Readings : Process(action, power)
    <3>1. PICK action \in Actions, power \in Readings : Process(action, power)
      BY <2>1
    <3>2. energy.total < energy'.total =>
             Usable(power) /\ energy.tick # None /\ Now - energy.tick \in 1 .. maxGap
      BY <3>1, EnergyStep DEF Process, TypeOK, Energies
    <3>3. latest'.power = power
      BY <3>1 DEF Process
    <3>. QED  BY <3>2, <3>3 DEF AnchorInv
  <2>2. CASE AddEntities
    BY <2>0, <2>2 DEF AddEntities, EnergyInv, TypeOK
  <2>3. CASE \E interval \in Intervals : Setup(interval)
    BY <2>0, <2>3 DEF Setup
  <2>4. CASE UNCHANGED energy
    BY <2>0, <2>4
  <2>5. [Next]_vars =>
          \/ \E action \in Actions, power \in Readings : Process(action, power)
          \/ AddEntities \/ (\E interval \in Intervals : Setup(interval)) \/ UNCHANGED energy
    BY DEF Next, vars, Unload, Dump, Crash, Pass, SetClock
  <2>. QED  BY <1>1, <2>1, <2>2, <2>3, <2>4, <2>5
<1>2. Inv /\ [Next]_vars => [Billed]_vars
  BY <1>1
<1>. QED  BY <1>2, Safety, PTL DEF Spec, HoleNotBilled
=============================================================================
