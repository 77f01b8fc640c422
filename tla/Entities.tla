------------------------------- MODULE Entities -------------------------------
(***************************************************************************)
(* The control entities: climate (climate.py), the operating-mode and      *)
(* preset selects (select.py), the setpoint number (number.py) and the     *)
(* power switch (switch.py), with the writes they share (entity.py) and    *)
(* the readings of the state they start from (util.py).                    *)
(*                                                                         *)
(* A service decides everything before its first await, so it is the       *)
(* sequence of frames it will write, with pauses between them. The         *)
(* device is modelled from docs/silverline-fe-specs.md (section 11):       *)
(* a setpoint per direction, restored after a change of direction;         *)
(* setpoints clipped; power and mode in one frame revert to off.           *)
(***************************************************************************)
EXTENDS Integers, Sequences

CONSTANTS
  Temps,   \* setpoints that are asked for
  Spoken,  \* presets the model's DP-4 vocabulary has strings for
  MaxCalls \* bound: services, uses of the panel and restarts

(* Every table of the profiles has a string for "none".                    *)
ASSUME EntitiesAssumption ==
  /\ Temps \subseteq Int /\ MaxCalls \in Nat
  /\ "none" \in Spoken /\ Spoken \subseteq {"none", "boost", "eco"}

VARIABLES
  dev,        \* the device's data points: power (1), mode (4), set (2)
  mem,        \* its setpoint per direction
  keeps,      \* its firmware reports the mode while off
  restoring,  \* platforms whose change of direction it has yet to follow
              \*   with the new direction's setpoint
  data,       \* coordinator.data
  last,       \* climate's _last_direction and _last_preset
  plan,       \* per platform, the frames and pauses its service has left
  want,       \* history: what the services that ended mean the device to be
  calls       \* bound: services, uses of the panel and restarts so far

vars == <<dev, mem, keeps, restoring, data, last, plan, want, calls>>

Platforms == {"climate", "select", "number", "switch"}
Directions == {"heat", "cool", "heat_cool"}
Presets == {"none", "boost", "eco"}

Mode(dir, preset) == [dir |-> dir, preset |-> preset]
AutoMode == Mode("heat_cool", "none")
Modes == {Mode(dir, p) : dir \in {"heat", "cool"}, p \in Spoken} \cup {AutoMode}

(* No DP 4. A string nothing decodes, which async_turn_on would resume, is *)
(* not modelled.                                                           *)
Unknown == Mode("unknown", "none")

-----------------------------------------------------------------------------
(* util.py and the tables of const.py.                                     *)

(* mode_temp_range: what a direction allows, "heat" standing in for an     *)
(* unknown one.                                                            *)
Low(dir) == IF dir \in {"cool", "heat_cool"} THEN 8 ELSE 15
High(dir) == IF dir = "cool" THEN 28 ELSE 40
InRange(temp, dir) == Low(dir) <= temp /\ temp <= High(dir)

Clip(temp, dir) ==
  CASE temp < Low(dir) -> Low(dir)
    [] temp > High(dir) -> High(dir)
    [] OTHER -> temp

Setpoints == Temps \cup {Clip(temp, dir) : temp \in Temps, dir \in Directions}

(* derive_hvac_mode.                                                       *)
HvacMode == IF data.power THEN data.mode.dir ELSE "off"

(* Mutant of ModeString: the profile is not asked.                         *)
ModeStringUnspoken(dir, preset) == Mode(dir, preset)

(* The table of resolve_heat_map or resolve_cool_map at the preset, or at  *)
(* "none" where the profile has no string for it.                          *)
ModeString(dir, preset) ==
  Mode(dir, IF preset \in Spoken THEN preset ELSE "none")

-----------------------------------------------------------------------------
(* Frames: the data points they write. A pause is a frame with none.       *)

Power(on) == [power |-> on]
WriteDp4(mode) == [mode |-> mode]
Set(temp) == [set |-> temp]
Settle == <<>>

IsFrame(f) == DOMAIN f # {}

(* DeviceState.merge: a frame's data points over those of a state.         *)
Merge(state, f) ==
  [dp \in DOMAIN state |-> IF dp \in DOMAIN f THEN f[dp] ELSE state[dp]]

(* Mutant of WriteMode: one frame for both.                                *)
WriteModeBundled(mode) ==
  <<IF data.power THEN WriteDp4(mode) ELSE [power |-> TRUE, mode |-> mode]>>

(* _write_mode: powers the unit on first, in a frame of its own.           *)
WriteMode(mode) ==
  (IF data.power THEN <<>> ELSE <<Power(TRUE), Settle>>) \o <<WriteDp4(mode)>>

(* Mutant of Synced: the preset in any mode, as preset_mode reports it.     *)
SyncedAlways(l, d) ==
  [dir |-> IF d.power /\ d.mode.dir \in Directions THEN d.mode.dir ELSE l.dir,
   preset |-> IF d.power THEN d.mode.preset ELSE "none"]

(* Climate's memory l after an update with state d (_sync_from_state).     *)
Synced(l, d) ==
  [dir |-> IF d.power /\ d.mode.dir \in Directions THEN d.mode.dir ELSE l.dir,
   preset |-> IF d.power /\ d.mode.dir \in {"heat", "cool"}
              THEN d.mode.preset ELSE l.preset]

(* The preset that climate, with memory l, carries into another direction: *)
(* the remembered one, or the one that state d tells (async_set_hvac_mode).*)
Carried(l, d) == IF l.preset = "none" THEN d.mode.preset ELSE l.preset

(* What a push or a poll makes of coordinator.data: the device's data      *)
(* points merged over it.                                                  *)
Reported ==
  IF dev.power \/ keeps THEN dev ELSE [dev EXCEPT !.mode = data.mode]

-----------------------------------------------------------------------------
(* What the services mean (history): the acceptable values.                *)

Anything ==
  [power |-> BOOLEAN, dir |-> Directions, preset |-> Presets,
   set |-> [dir \in Directions |-> Setpoints], clamped |-> {}]

Idle == \A p \in Platforms : plan[p] = <<>>

(* Nothing is under way, and Home Assistant has heard of every change.     *)
Calm ==
  Idle /\ restoring = {} /\ data = Reported /\ last = Synced(last, data)

Call == calls < MaxCalls /\ calls' = calls + 1

ToPower(on) == [want EXCEPT !.power = {on}]

(* Auto has no preset: after it comes plain, or the preset from before, if *)
(* climate still remembers it. Its own switch to Auto forgets the preset,  *)
(* but an update of the old mode before the write brings it back.          *)
OrNone(presets) == presets \cup {"none"}

ToMode(dir) ==
  [want EXCEPT !.power = {TRUE}, !.dir = {dir},
               !.preset = IF dir = "heat_cool" THEN OrNone(@) ELSE @]

(* While off, a preset is what the next mode service carries, but the unit *)
(* may be powered on without one.                                          *)
ToPreset(preset) ==
  [want EXCEPT !.preset = IF dev.power THEN {preset} ELSE @ \cup {preset}]

(* After a start with a memory l that is not the last one.                 *)
Recalled(l, d) ==
  LET presets == want.preset \cup {ModeString("heat", Carried(l, d)).preset} IN
  IF d.mode = Unknown
  THEN [want EXCEPT !.dir = @ \cup {l.dir}, !.preset = OrNone(presets)]
  ELSE [want EXCEPT !.preset = presets]

(* A setpoint is meant for the direction the unit runs in. What it makes   *)
(* of one out of range, or while off, is its own affair.                   *)
ToSet(w, on, dir, temp) ==
  IF on /\ dir \in Directions
  THEN [w EXCEPT !.set[dir] = IF InRange(temp, dir) THEN {temp} ELSE Setpoints,
                 !.clamped = @ \ {dir}]
  ELSE [w EXCEPT !.set = Anything.set]

-----------------------------------------------------------------------------
(* The services: all up to their first await.                              *)

(* The service of platform p that has these frames to write. What it means *)
(* counts if it has the device to itself.                                  *)
Begin(p, frames, memory, goal) ==
  /\ Call /\ plan[p] = <<>>
  /\ plan' = [plan EXCEPT ![p] = frames]
  /\ last' = memory
  /\ want' = IF Calm THEN goal ELSE Anything
  /\ UNCHANGED <<dev, mem, keeps, restoring, data>>

(* The preset encoded in DP 4, running or not (retained_preset).           *)
RetainedPreset == data.mode.preset

(* Mutant of HvacFrames: without the pause after the mode.                 *)
HvacFramesUnsettled(dir) ==
  LET mode == IF dir = "heat_cool" THEN AutoMode
              ELSE ModeString(dir, Carried(last, data))
      target == Clip(data.set, dir)
  IN  WriteMode(mode) \o (IF target = data.set THEN <<>> ELSE <<Set(target)>>)

(* async_set_hvac_mode in climate.py: its frames, and its memory.          *)
HvacFrames(dir) ==
  LET mode == IF dir = "heat_cool" THEN AutoMode
              ELSE ModeString(dir, Carried(last, data))
      target == Clip(data.set, dir)
  IN  WriteMode(mode) \o <<Settle>>
        \o (IF target = data.set THEN <<>> ELSE <<Set(target)>>)

HvacMemory(dir) ==
  [dir |-> dir, preset |-> IF dir = "heat_cool" THEN "none" ELSE last.preset]

(* The setpoint shown is written over the direction's own if it had to be  *)
(* clamped for it.                                                         *)
ToCarried(w, dir) ==
  IF InRange(data.set, dir) THEN w ELSE [w EXCEPT !.clamped = @ \cup {dir}]

HvacGoal(dir) == ToCarried(ToMode(dir), dir)

ClimateSetHvacMode(dir) ==
  Begin("climate", HvacFrames(dir), HvacMemory(dir), HvacGoal(dir))

ClimateTurnOff == Begin("climate", <<Power(FALSE)>>, last, ToPower(FALSE))

(* async_turn_on: power alone, so that the unit resumes its own mode; the  *)
(* remembered mode only where the device holds none.                       *)
ClimateTurnOn ==
  \/ /\ data.mode # Unknown
     /\ Begin("climate", <<Power(TRUE)>>, last, ToPower(TRUE))
  \/ /\ data.mode = Unknown
     /\ Begin("climate", HvacFrames(last.dir), HvacMemory(last.dir),
              ToCarried(ToPower(TRUE), last.dir))

(* async_set_preset_mode: refused in Auto, only remembered while off.      *)
ClimateSetPreset(preset) ==
  LET mode == ModeString(data.mode.dir, preset) IN
  /\ HvacMode # "heat_cool"
  /\ Begin("climate",
           IF HvacMode \in {"heat", "cool"} THEN <<WriteDp4(mode)>> ELSE <<>>,
           [last EXCEPT !.preset = preset], ToPreset(mode.preset))

(* async_set_temperature, after Home Assistant's check against the range   *)
(* shown; the mode that may come with it is set first.                     *)
ClimateSetTemperature(temp) ==
  /\ InRange(temp, IF HvacMode = "off" THEN last.dir ELSE HvacMode)
  /\ \/ Begin("climate", <<Set(temp)>>, last,
              ToSet(want, data.power, data.mode.dir, temp))
     \/ /\ HvacMode # "off"
        /\ Begin("climate", <<Power(FALSE), Set(temp)>>, last,
                 ToSet(ToPower(FALSE), FALSE, data.mode.dir, temp))
     \/ \E dir \in Directions \ {HvacMode} :
          Begin("climate", Append(HvacFrames(dir), Set(temp)), HvacMemory(dir),
                ToSet(HvacGoal(dir), TRUE, dir, temp))

(* SilverlineOperatingModeSelect has no memory: the preset comes from the  *)
(* device's state, and is lost where that has none (off, after a restart). *)
SelectGoal(dir) ==
  IF data.mode = Unknown
  THEN [ToMode(dir) EXCEPT !.preset = OrNone(@)] ELSE ToMode(dir)

SelectMode(dir) ==
  LET mode == IF dir = "heat_cool" THEN AutoMode ELSE ModeString(dir, RetainedPreset)
  IN  Begin("select", Append(WriteMode(mode), Settle), last, SelectGoal(dir))

SelectOff == Begin("select", <<Power(FALSE)>>, last, ToPower(FALSE))

(* SilverlinePresetSelect: nothing while off or in a mode it cannot read,  *)
(* refused in Auto.                                                        *)
SelectPreset(preset) ==
  LET mode == ModeString(data.mode.dir, preset) IN
  /\ HvacMode \in {"heat", "cool"}
  /\ Begin("select", <<WriteDp4(mode)>>, last, ToPreset(mode.preset))

(* async_set_native_value, after Home Assistant's check against the range  *)
(* shown, that of heating while off.                                       *)
NumberSet(temp) ==
  /\ InRange(temp, HvacMode)
  /\ Begin("number", <<Set(temp)>>, last,
           ToSet(want, data.power, data.mode.dir, temp))

SwitchPower(on) == Begin("switch", <<Power(on)>>, last, ToPower(on))

-----------------------------------------------------------------------------
(* _write_dps: a frame, and its ack.                                       *)

(* The device takes a frame in: it clips the setpoint, and goes off again  *)
(* if power and mode come in one frame.                                    *)
Written(f) ==
  LET merged == Merge(dev, f)
  IN  [merged EXCEPT !.power = @ /\ ~({"power", "mode"} \subseteq DOMAIN f),
                     !.set = Clip(@, merged.mode.dir)]

Turns(f) == "mode" \in DOMAIN f /\ f.mode.dir # dev.mode.dir

(* A setpoint is the direction's unless it is about to be restored.        *)
Stored(f) ==
  IF "set" \in DOMAIN f /\ restoring = {}
  THEN [mem EXCEPT ![dev.mode.dir] = Clip(f.set, dev.mode.dir)] ELSE mem

Sending(p) == plan[p] # <<>> /\ IsFrame(Head(plan[p]))

(* The write is acknowledged and merged into coordinator.data.             *)
WriteSucceeds(p) ==
  LET f == Head(plan[p]) IN
  /\ Sending(p)
  /\ dev' = Written(f) /\ mem' = Stored(f)
  /\ restoring' = IF Turns(f) THEN restoring \cup {p} ELSE restoring
  /\ data' = Merge(data, f) /\ last' = Synced(last, data')
  /\ plan' = [plan EXCEPT ![p] = Tail(@)]
  /\ UNCHANGED <<keeps, want, calls>>

(* It is not, whether or not the device took it in: the service ends with  *)
(* an error.                                                               *)
WriteFails(p) ==
  LET f == Head(plan[p]) IN
  /\ Sending(p)
  /\ \/ UNCHANGED <<dev, mem>>
     \/ /\ mem' = Stored(f)
        /\ dev' = IF Turns(f) THEN [Written(f) EXCEPT !.set = mem[f.mode.dir]]
                  ELSE Written(f)
  /\ plan' = [plan EXCEPT ![p] = <<>>]
  /\ want' = Anything
  /\ UNCHANGED <<keeps, restoring, data, last, calls>>

(* The pause is over. It is longer than the device takes to restore a      *)
(* setpoint (MODE_TRANSITION_SETTLE).                                      *)
SettleEnds(p) ==
  /\ plan[p] # <<>> /\ ~IsFrame(Head(plan[p]))
  /\ p \notin restoring
  /\ plan' = [plan EXCEPT ![p] = Tail(@)]
  /\ UNCHANGED <<dev, mem, keeps, restoring, data, last, want, calls>>

-----------------------------------------------------------------------------
(* The device, and Home Assistant.                                         *)

(* The setpoint of the new direction comes back.                           *)
Restore(p) ==
  /\ p \in restoring
  /\ restoring' = restoring \ {p}
  /\ dev' = [dev EXCEPT !.set = mem[dev.mode.dir]]
  /\ UNCHANGED <<mem, keeps, data, last, plan, want, calls>>

(* A push, or a poll: the coordinator has the device's state.              *)
Update ==
  /\ data' = Reported /\ last' = Synced(last, data')
  /\ UNCHANGED <<dev, mem, keeps, restoring, plan, want, calls>>

(* Somebody uses the panel or the vendor's app, no faster than the device  *)
(* pushes.                                                                 *)
Panel ==
  /\ Call /\ restoring = {} /\ data = Reported
  /\ \/ /\ dev' = [dev EXCEPT !.power = ~@]
        /\ want' = IF Idle THEN ToPower(dev'.power) ELSE Anything
        /\ mem' = mem
     \/ \E mode \in Modes \ {dev.mode} :
          /\ dev' = [dev EXCEPT !.mode = mode, !.set = mem[mode.dir]]
          /\ want' = IF Idle
                     THEN [want EXCEPT
                            !.dir = IF dev.power THEN {mode.dir} ELSE @ \cup {mode.dir},
                            !.preset = IF dev.power /\ mode # AutoMode THEN {mode.preset}
                                       ELSE IF mode = AutoMode THEN OrNone(@)
                                       ELSE @ \cup {mode.preset}]
                     ELSE Anything
          /\ mem' = mem
  /\ UNCHANGED <<keeps, restoring, data, last, plan>>

(* Home Assistant starts again: services under way are gone, and climate   *)
(* finds its memory, or an older one if it was killed, or, as after a      *)
(* first installation, none. What it finds is what it then goes by.        *)
Restart ==
  /\ Call /\ restoring = {}
  /\ plan' = [p \in Platforms |-> <<>>]
  /\ data' = IF dev.power \/ keeps THEN dev ELSE [dev EXCEPT !.mode = Unknown]
  /\ \E memory \in [dir : Directions, preset : Presets] :
       /\ last' = Synced(memory, data')
       /\ want' = IF ~Idle THEN Anything
                  ELSE IF memory = last THEN want
                  ELSE Recalled(last', data')
  /\ UNCHANGED <<dev, mem, keeps, restoring>>

-----------------------------------------------------------------------------
Init ==
  /\ keeps \in BOOLEAN
  /\ \E temp \in Temps : mem = [dir \in Directions |-> Clip(temp, dir)]
  /\ dev = [power |-> TRUE, mode |-> Mode("heat", "none"), set |-> mem["heat"]]
  /\ data = dev /\ last = Mode("heat", "none")
  /\ restoring = {} /\ plan = [p \in Platforms |-> <<>>]
  /\ want = [power |-> {TRUE}, dir |-> {"heat"}, preset |-> {"none"},
             set |-> [dir \in Directions |-> {mem[dir]}], clamped |-> {}]
  /\ calls = 0

Next ==
  \/ \E dir \in Directions : ClimateSetHvacMode(dir) \/ SelectMode(dir)
  \/ ClimateTurnOff \/ ClimateTurnOn \/ SelectOff
  \/ \E preset \in Presets : ClimateSetPreset(preset) \/ SelectPreset(preset)
  \/ \E temp \in Temps : ClimateSetTemperature(temp) \/ NumberSet(temp)
  \/ \E on \in BOOLEAN : SwitchPower(on)
  \/ \E p \in Platforms :
       WriteSucceeds(p) \/ WriteFails(p) \/ SettleEnds(p) \/ Restore(p)
  \/ Update \/ Panel \/ Restart

Spec == Init /\ [][Next]_vars

-----------------------------------------------------------------------------
(* Properties. They are about the times when all is quiet.                 *)

(* Every variable keeps its type.                                          *)
TypeOK ==
  /\ dev \in [power : BOOLEAN, mode : Modes, set : Setpoints]
  /\ data \in [power : BOOLEAN, mode : Modes \cup {Unknown}, set : Setpoints]
  /\ mem \in [Directions -> Setpoints] /\ keeps \in BOOLEAN
  /\ restoring \subseteq Platforms
  /\ last \in [dir : Directions, preset : Presets]
  /\ DOMAIN plan = Platforms
  /\ DOMAIN want = DOMAIN Anything /\ calls \in 0 .. MaxCalls

(* A service that had the device to itself and ended without an error has  *)
(* brought it where it was meant to: on or off, heating or cooling, in     *)
(* spite of firmware that reverts a frame with both (entity.py:77-113).    *)
ModeLands == Calm => dev.power \in want.power /\ dev.mode.dir \in want.dir

(* The user's preset survives a change between heating and cooling, a      *)
(* switch-off and a restart, whichever entity makes it, on firmware that   *)
(* reports the mode while off and on firmware that does not                *)
(* (climate.py:184-217, select.py:174-205). It may be plain after a stay   *)
(* in Auto, but nothing else (OrNone); a preset set while off may be taken *)
(* up or not (ToPreset); the operating-mode select has none to carry where *)
(* the mode is unknown (SelectGoal); and after a start with another memory *)
(* than the last, what it says counts as well (Recalled).                  *)
PresetCarried ==
  Calm /\ dev.mode.dir # "heat_cool" => dev.mode.preset \in want.preset

(* A setpoint that was set, alone or with a mode, is what the direction    *)
(* keeps: the device's own restoring does not undo it (climate.py:222-226, *)
(* 270-288).                                                               *)
SetpointKept ==
  Calm =>
    /\ dev.set = mem[dev.mode.dir]
    /\ \A dir \in Directions \ want.clamped : mem[dir] \in want.set[dir]

(* The device restores a mode's last setpoint when switched into it        *)
(* (docs/configuration.md:43-44), whatever the setpoint was before.        *)
SetpointRestored ==
  Calm => \A dir \in Directions : mem[dir] \in want.set[dir]

=============================================================================
