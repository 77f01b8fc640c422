-------------------------------- MODULE Meters --------------------------------
(***************************************************************************)
(* The two meters that the coordinator feeds with every state it gets: the *)
(* energy total (_energy.py), which the sensor entity restores when it is  *)
(* added, and today's runtime (_runtime.py), which nobody does.            *)
(*                                                                         *)
(* Both live on a clock that may be set. Time is counted in units of 150   *)
(* seconds and scan intervals in units of 30, so that five intervals of    *)
(* the one are as many units of the other. Energy is counted in units in   *)
(* which the trapezoidal rule needs no halves, the sensor's in twice those.*)
(***************************************************************************)
EXTENDS Integers

CONSTANTS
  Powers,    \* what the line's voltage and current may amount to
  Intervals, \* scan intervals of the options
  MinMaxGap, \* MIN_MAX_GAP
  Day,       \* the length of a day
  Shifts,    \* by how much the clock is set, forward or back
  MaxTime,   \* bound: the time
  MaxShifts, \* bound: how often the clock is set
  NaN, None

ASSUME MetersAssumption ==
  /\ Powers \subseteq Nat /\ Intervals \subseteq Nat /\ Shifts \subseteq Nat
  /\ MinMaxGap \in Nat /\ Day \in Nat \ {0} /\ MaxTime \in Nat /\ MaxShifts \in Nat
  /\ None \notin Int /\ NaN \notin Int /\ NaN # None
  /\ None \notin [power : Powers \cup {-1, NaN, None}, at : Nat]

VARIABLES
  time,    \* time that really passes
  clock,   \* what utcnow() is ahead of it
  entry,   \* where the config entry is: "down", "starting" (no entities yet)
           \*   or "up"
  maxGap,  \* _energy_max_gap
  energy,  \* _energy_total_kwh, _energy_last_tick, _energy_last_power_w
  runtime, \* _runtime_today_seconds, _runtime_last_tick, _runtime_local_date
  sensor,  \* the energy sensor is there
  stored,  \* its value in Home Assistant's restore data, or None
  peak,    \* history: the highest value it has shown; of those before a
           \*   crash, the stored one
  ahead,   \* history: by how much the clock was set forward, in all
  since,   \* history: time + ahead at the first state of the day
  latest,  \* history: the power in the last state, and the clock then
  shifts   \* bound: how often the clock was set

vars == <<time, clock, entry, maxGap, energy, runtime, sensor, stored, peak,
          ahead, since, latest, shifts>>

Now == time + clock
Date(t) == t \div Day

-----------------------------------------------------------------------------
(* util.py: what the compressor does, from a state s. The offset is that   *)
(* of the water's temperature from the setpoint.                           *)

States ==
  [power : BOOLEAN \cup {None}, mode : {"heat", "cool", "heat_cool", "unknown"},
   frequency : {0, 1, None}, offset : {-1, 0, 1, None}]

(* compute_hvac_action.                                                    *)
HvacAction(s) ==
  LET direct(running, wanted) ==
        IF s.frequency # None
        THEN IF s.frequency > 0 THEN running ELSE "idle"
        ELSE IF s.offset = wanted THEN running ELSE "idle"
  IN CASE s.power = None  -> "unknown"
       [] s.power = FALSE -> "off"
       [] OTHER ->
          CASE s.mode = "heat" -> direct("heating", -1)
            [] s.mode = "cool" -> direct("cooling", 1)
            [] s.mode = "heat_cool" /\ s.frequency # 0 /\ s.offset = -1 -> "heating"
            [] s.mode = "heat_cool" /\ s.frequency # 0 /\ s.offset = 1 -> "cooling"
            [] OTHER -> "idle"

Actions == {HvacAction(s) : s \in States}

-----------------------------------------------------------------------------
(* _energy.py and _runtime.py.                                             *)

(* max_energy_gap.                                                         *)
MaxGap(interval) == IF interval > MinMaxGap THEN interval ELSE MinMaxGap

(* Readings: also none, and such as the layout does not promise.           *)
Readings == Powers \cup {-1, NaN, None}

(* electrical_power_w and is_usable_power.                                 *)
Usable(power) == power \notin {None, NaN} /\ power >= 0

(* Mutant of AccumulateEnergy: a state without power keeps the anchor.      *)
AccumulateBridging(power) ==
  IF ~Usable(power) THEN energy
  ELSE IF energy.tick = None THEN [energy EXCEPT !.tick = Now, !.power = power]
  ELSE [total |-> IF Now - energy.tick \in 1 .. maxGap
                  THEN energy.total + (energy.power + power) * (Now - energy.tick)
                  ELSE energy.total,
        tick |-> Now, power |-> power]

(* accumulate_energy.                                                      *)
AccumulateEnergy(power) ==
  IF ~Usable(power) THEN [energy EXCEPT !.tick = None, !.power = None]
  ELSE IF energy.tick = None THEN [energy EXCEPT !.tick = Now, !.power = power]
  ELSE [total |-> IF Now - energy.tick \in 1 .. maxGap
                  THEN energy.total + (energy.power + power) * (Now - energy.tick)
                  ELSE energy.total,
        tick |-> Now, power |-> power]

(* energy_consumption_kwh: to the nearest of the sensor's units.           *)
Rounded(total) == (total + 1) \div 2

(* What the sensor, if there is one now, writes (history).                 *)
Show ==
  peak' = IF sensor' /\ Rounded(energy'.total) > peak
          THEN Rounded(energy'.total) ELSE peak

NewDay == runtime.tick = None \/ runtime.date # Date(Now)
Running(action) == action \in {"heating", "cooling"}

(* Mutant of AccumulateRuntime: midnight is not looked at.                 *)
AccumulateOverMidnight(action) ==
  [today |-> IF runtime.tick # None /\ Running(action) /\ Now > runtime.tick
             THEN runtime.today + (Now - runtime.tick) ELSE runtime.today,
   tick |-> Now, date |-> Date(Now)]

(* accumulate_runtime.                                                     *)
AccumulateRuntime(action) ==
  [today |-> IF NewDay THEN 0
             ELSE IF Running(action) /\ Now > runtime.tick
             THEN runtime.today + (Now - runtime.tick)
             ELSE runtime.today,
   tick |-> Now, date |-> Date(Now)]

-----------------------------------------------------------------------------
(* The coordinator.                                                        *)

(* async_setup_entry: a new coordinator.                                   *)
Setup(interval) ==
  /\ entry = "down" /\ entry' = "starting"
  /\ maxGap' = MaxGap(interval)
  /\ energy' = [total |-> 0, tick |-> None, power |-> None]
  /\ runtime' = [today |-> 0, tick |-> None, date |-> None]
  /\ latest' = None
  /\ UNCHANGED <<time, clock, sensor, stored, peak, ahead, since, shifts>>

(* _process_state, by a push or a poll: both meters tick, and the entities *)
(* write what they show.                                                   *)
Process(action, power) ==
  /\ entry # "down"
  /\ energy' = AccumulateEnergy(power)
  /\ runtime' = AccumulateRuntime(action)
  /\ sensor' = sensor /\ Show
  /\ since' = IF NewDay THEN time + ahead ELSE since
  /\ latest' = [power |-> power, at |-> Now]
  /\ UNCHANGED <<time, clock, entry, maxGap, stored, ahead, shifts>>

(* Mutant of Restored: the sensor starts where the coordinator is.         *)
RestoredNot == energy.total

(* restore_energy_consumption_kwh: only ever forward.                      *)
Restored ==
  IF stored # None /\ 2 * stored > energy.total THEN 2 * stored ELSE energy.total

(* The entities are added. There is no energy sensor when the firmware has *)
(* not reported voltage and current this time.                             *)
AddEntities ==
  /\ entry = "starting" /\ entry' = "up"
  /\ \/ UNCHANGED <<energy, sensor, peak>>
     \/ /\ sensor' = TRUE
        /\ energy' = [energy EXCEPT !.total = Restored]
        /\ Show
  /\ UNCHANGED <<time, clock, maxGap, runtime, stored, ahead, since, latest, shifts>>

Store == stored' = IF sensor THEN Rounded(energy.total) ELSE stored

(* Setup failed, or the entry is unloaded: an entity that goes is stored.  *)
Unload ==
  /\ entry # "down" /\ entry' = "down"
  /\ Store /\ sensor' = FALSE
  /\ UNCHANGED <<time, clock, maxGap, energy, runtime, peak, ahead, since,
                 latest, shifts>>

(* Home Assistant stores what it may have to restore every 15 minutes.     *)
Dump ==
  /\ sensor /\ Store
  /\ UNCHANGED <<time, clock, entry, maxGap, energy, runtime, sensor, peak,
                 ahead, since, latest, shifts>>

(* It crashes: what was not stored is lost.                                *)
Crash ==
  /\ entry # "down" /\ entry' = "down" /\ sensor' = FALSE
  /\ peak' = IF stored = None THEN 0 ELSE stored
  /\ UNCHANGED <<time, clock, maxGap, energy, runtime, stored, ahead, since,
                 latest, shifts>>

-----------------------------------------------------------------------------
(* Time and the clock.                                                     *)

Pass ==
  /\ time < MaxTime /\ time' = time + 1
  /\ UNCHANGED <<clock, entry, maxGap, energy, runtime, sensor, stored, peak,
                 ahead, since, latest, shifts>>

SetClock(shift) ==
  /\ shifts < MaxShifts /\ shifts' = shifts + 1
  /\ Now + shift >= 0 /\ clock' = clock + shift
  /\ ahead' = IF shift > 0 THEN ahead + shift ELSE ahead
  /\ UNCHANGED <<time, entry, maxGap, energy, runtime, sensor, stored, peak,
                 since, latest>>

-----------------------------------------------------------------------------
Init ==
  /\ time = 0 /\ clock = 0 /\ shifts = 0
  /\ entry = "down" /\ maxGap \in {MaxGap(interval) : interval \in Intervals}
  /\ energy = [total |-> 0, tick |-> None, power |-> None]
  /\ runtime = [today |-> 0, tick |-> None, date |-> None]
  /\ sensor = FALSE /\ stored = None
  /\ peak = 0 /\ ahead = 0 /\ since = 0 /\ latest = None

Next ==
  \/ \E interval \in Intervals : Setup(interval)
  \/ \E action \in Actions, power \in Readings : Process(action, power)
  \/ AddEntities \/ Unload \/ Dump \/ Crash
  \/ Pass \/ \E shift \in Shifts : SetClock(shift) \/ SetClock(-shift)

Spec == Init /\ [][Next]_vars

-----------------------------------------------------------------------------
(* Properties.                                                             *)

(* Every variable keeps its type; in particular no meter is negative.      *)
TypeOK ==
  /\ time \in Nat /\ clock \in Int /\ Now \in Nat
  /\ entry \in {"down", "starting", "up"} /\ maxGap \in Nat
  /\ energy \in [total : Nat, tick : Nat \cup {None}, power : Nat \cup {None}]
  /\ (energy.tick = None <=> energy.power = None)
  /\ runtime \in [today : Nat, tick : Nat \cup {None}, date : Nat \cup {None}]
  /\ (runtime.tick = None <=> runtime.date = None)
  /\ sensor \in BOOLEAN /\ stored \in Nat \cup {None}
  /\ peak \in Nat /\ ahead \in Nat /\ since \in Nat
  /\ latest = None \/ latest \in [power : Readings, at : Nat]
  /\ shifts \in 0 .. MaxShifts

(* What the energy sensor shows never falls: not by a clock that is set,   *)
(* not over reloads with another interval or without the sensor; after a   *)
(* crash not below what Home Assistant had stored (coordinator.py:119-133, *)
(* sensor.py:82-89).                                                       *)
MeterNeverFalls == sensor => Rounded(energy.total) >= peak

(* Energy is only added between two usable readings of successive states,  *)
(* not more than the gap apart by the clock, however the clock was set and *)
(* whatever lay between (_energy.py:45-50).                                *)
HoleNotBilled ==
  [][energy.total < energy'.total /\ sensor' = sensor =>
       /\ latest # None /\ Usable(latest.power) /\ Usable(latest'.power)
       /\ Now - latest.at \in 1 .. maxGap]_vars

(* Today's runtime fits into the time since the day's first state, plus    *)
(* what the clock was set forward: no time is counted twice or carried     *)
(* over midnight (_runtime.py:27-34).                                      *)
RuntimeFits ==
  runtime.tick # None => runtime.today <= time + ahead - since

=============================================================================
