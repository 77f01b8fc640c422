-------------------------- MODULE EntitiesProofs ----------------------------
(***************************************************************************)
(* Theorems about module Entities, for any setpoints, any vocabulary of    *)
(* presets and any number of services, uses of the panel and restarts.     *)
(***************************************************************************)
EXTENDS Entities, SequenceTheorems, TLAPS

-----------------------------------------------------------------------------
(* Types, and what is always so of the device.                             *)

Frames ==
  {Settle} \cup {Power(on) : on \in BOOLEAN} \cup {WriteDp4(mode) : mode \in Modes}
           \cup {Set(temp) : temp \in Setpoints}

States(modes) == [power : BOOLEAN, mode : modes, set : Setpoints]
Memories == [dir : Directions, preset : Presets]
Wants ==
  [power : SUBSET BOOLEAN, dir : SUBSET Directions, preset : SUBSET Presets,
   set : [Directions -> SUBSET Setpoints], clamped : SUBSET Directions]

Types ==
  /\ dev \in States(Modes) /\ data \in States(Modes \cup {Unknown})
  /\ mem \in [Directions -> Setpoints] /\ keeps \in BOOLEAN
  /\ restoring \subseteq Platforms
  /\ last \in Memories /\ plan \in [Platforms -> Seq(Frames)]
  /\ want \in Wants /\ calls \in 0 .. MaxCalls

(* A direction's setpoint is in its range and, once restored, the          *)
(* device's; firmware that reports the mode while off never leaves it      *)
(* unknown.                                                                *)
DeviceInv ==
  /\ \A dir \in Directions : InRange(mem[dir], dir)
  /\ restoring = {} => dev.set = mem[dev.mode.dir]
  /\ keeps => data.mode # Unknown

-----------------------------------------------------------------------------
(* The invariant: what the device will be when the frames left are written.*)

Norm(preset) == IF preset \in Spoken THEN preset ELSE "none"

(* A mode the services may have meant.                                     *)
Meant(mode) ==
  mode \in Modes /\ mode.dir \in want.dir /\ mode.preset \in want.preset

(* The preset climate remembers, if any, is one that may be meant; so is   *)
(* whatever it may come to remember.                                       *)
Recalls == last.preset # "none" => Norm(last.preset) \in want.preset
Remembers ==
  /\ Recalls /\ dev.mode.preset \in want.preset
  /\ data.mode # Unknown => data.mode.preset \in want.preset

(* What the next service may start from while the unit is off.             *)
OffMemory ==
  /\ data.mode # Unknown => data.mode.preset \in want.preset
  /\ Recalls
  /\ ~keeps => /\ Norm(last.preset) \in want.preset
               /\ last.dir \in want.dir
               /\ last.dir = "heat_cool" => "none" \in want.preset
               /\ data.power /\ data.mode # Unknown => data.mode.dir \in want.dir

Heard == data.power /\ data.mode = dev.mode
InStep == last = Synced(last, data)
Open == want.dir = Directions /\ want.preset = Presets

Memory ==
  /\ ~dev.power => OffMemory
  /\ dev.power /\ Heard => InStep \/ Open
  /\ dev.power /\ dev.mode.dir = "heat_cool" => Remembers

(* The directions' setpoints, all but dir's.                               *)
KeptBut(dir) ==
  \A d \in Directions \ (want.clamped \cup {dir}) : mem[d] \in want.set[d]
Kept == \A d \in Directions \ want.clamped : mem[d] \in want.set[d]

(* The writes of setpoints a service may end with, for direction dir: the  *)
(* last one counts.                                                        *)
Pair(c, t) == <<Set(c)>> \o <<Set(t)>>
KeptAfter(r, dir) ==
  \/ r = <<>> /\ Kept
  \/ \E t \in Setpoints :
       /\ r = <<Set(t)>> \/ \E c \in Setpoints : r = Pair(c, t)
       /\ KeptBut(dir)
       /\ dir \notin want.clamped => Clip(t, dir) \in want.set[dir]

Lands == dev.power \in want.power /\ Meant(dev.mode) /\ Memory

(* The write of a mode, with what comes after it.                          *)
ThenMode(mode, r) == <<WriteDp4(mode)>> \o (<<Settle>> \o r)
Turning(mode, r) ==
  /\ want.power = {TRUE} /\ Meant(mode) /\ Remembers /\ KeptAfter(r, mode.dir)

Ready(q) == restoring = {} /\ Lands /\ KeptAfter(q, dev.mode.dir)
Switching(q) ==
  \E on \in BOOLEAN : \E r \in Seq(Frames) :
    /\ q = <<Power(on)>> \o r /\ want.power = {on}
    /\ restoring = {} /\ Meant(dev.mode) /\ Memory
    /\ dev.power => Heard /\ InStep
    /\ KeptAfter(r, dev.mode.dir)
Presetting(q) ==
  \E mode \in Modes :
    /\ q = <<WriteDp4(mode)>>
    /\ dev.power /\ data.power /\ TRUE \in want.power
    /\ mode.dir = dev.mode.dir /\ mode.dir # "heat_cool" /\ Meant(mode)
    /\ restoring = {} /\ Kept
PoweringOn(q) ==
  \E mode \in Modes, r \in Seq(Frames) :
    /\ Turning(mode, r) /\ restoring = {}
    /\ q = <<Power(TRUE)>> \o (<<Settle>> \o ThenMode(mode, r))
PoweredOn(q) ==
  \E mode \in Modes, r \in Seq(Frames) :
    /\ Turning(mode, r) /\ restoring = {} /\ dev.power /\ data.power
    /\ q = <<Settle>> \o ThenMode(mode, r) \/ q = ThenMode(mode, r)
Turned(q) ==
  \E r \in Seq(Frames) :
    /\ q = <<Settle>> \o r /\ Turning(dev.mode, r)
    /\ dev.power /\ Heard /\ InStep

Course(q) ==
  \/ Ready(q) \/ Switching(q) \/ Presetting(q)
  \/ PoweringOn(q) \/ PoweredOn(q) \/ Turned(q)

Alone(p) == restoring \subseteq {p} /\ \A o \in Platforms \ {p} : plan[o] = <<>>

OnCourse == want = Anything \/ \E p \in Platforms : Alone(p) /\ Course(plan[p])

Inv == Types /\ DeviceInv /\ OnCourse

-----------------------------------------------------------------------------
(* Frames, and what they make of a state.                                  *)

LEMMA FrameIs ==
  ASSUME NEW r \in States(Modes \cup {Unknown}), NEW on, NEW mode, NEW temp
  PROVE  /\ Merge(r, Power(on)) = [r EXCEPT !.power = on]
         /\ Merge(r, WriteDp4(mode)) = [r EXCEPT !.mode = mode]
         /\ Merge(r, Set(temp)) = [r EXCEPT !.set = temp]
<1>1. DOMAIN r = {"power", "mode", "set"} /\ r = [x \in {"power", "mode", "set"} |-> r[x]]
  BY DEF States
<1>2. Merge(r, Power(on)) = [r EXCEPT !.power = on]
  BY <1>1 DEF Power, Merge
<1>3. Merge(r, WriteDp4(mode)) = [r EXCEPT !.mode = mode]
  BY <1>1 DEF WriteDp4, Merge
<1>4. Merge(r, Set(temp)) = [r EXCEPT !.set = temp]
  BY <1>1 DEF Set, Merge
<1>. QED  BY <1>2, <1>3, <1>4

LEMMA FrameDomains ==
  /\ \A on : DOMAIN Power(on) = {"power"} /\ Power(on).power = on
  /\ \A mode : DOMAIN WriteDp4(mode) = {"mode"} /\ WriteDp4(mode).mode = mode
  /\ \A temp : DOMAIN Set(temp) = {"set"} /\ Set(temp).set = temp
  /\ DOMAIN Settle = {}
BY DEF Power, WriteDp4, Set, Settle

(* A frame at the front of what is left.                                   *)
LEMMA FirstFrame ==
  ASSUME NEW f \in Frames, NEW r \in Seq(Frames)
  PROVE  /\ <<f>> \o r \in Seq(Frames) /\ <<f>> \o r # <<>>
         /\ Head(<<f>> \o r) = f /\ Tail(<<f>> \o r) = r
<1>. DEFINE q == <<f>> \o r
<1>1. <<f>> \in Seq(Frames) /\ Len(<<f>>) = 1 /\ <<f>>[1] = f
  OBVIOUS
<1>2. /\ q \in Seq(Frames) /\ Len(q) = 1 + Len(r)
      /\ \A i \in 1 .. 1 + Len(r) : q[i] = IF i <= 1 THEN <<f>>[i] ELSE r[i - 1]
  BY <1>1, ConcatProperties
<1>3. Len(r) \in Nat
  BY LenProperties
<1>. HIDE DEF q
<1>4. q # <<>>
  BY <1>2, <1>3, EmptySeq
<1>5. Head(q) = f
  BY <1>1, <1>2, <1>3, <1>4
<1>6. /\ Tail(q) \in Seq(Frames) /\ Len(Tail(q)) = Len(r)
      /\ \A i \in 1 .. Len(Tail(q)) : Tail(q)[i] = q[i + 1]
  BY <1>2, <1>3, <1>4, HeadTailProperties
<1>7. \A i \in 1 .. Len(r) : Tail(q)[i] = r[i]
  BY <1>2, <1>3, <1>6
<1>8. Tail(q) = r
  BY <1>6, <1>7, SeqEqual
<1>. QED  BY <1>2, <1>4, <1>5, <1>8 DEF q

LEMMA OneFrame ==
  ASSUME NEW f \in Frames
  PROVE  /\ <<f>> \in Seq(Frames) /\ <<f>> # <<>>
         /\ Head(<<f>>) = f /\ Tail(<<f>>) = <<>> /\ <<f>> = <<f>> \o <<>>
<1>1. <<>> \in Seq(Frames) /\ <<f>> \in Seq(Frames)
  OBVIOUS
<1>2. <<f>> \o <<>> = <<f>>
  BY <1>1, ConcatEmptySeq
<1>. QED  BY <1>1, <1>2, FirstFrame

LEMMA TwoFrames == ASSUME NEW f, NEW g PROVE <<f, g>> = <<f>> \o <<g>>
<1>1. <<f>> \in Seq({f, g}) /\ <<g>> \in Seq({f, g}) /\ <<f, g>> \in Seq({f, g})
  OBVIOUS
<1>. DEFINE a == <<f>>
            b == <<g>>
<1>2. Len(a) = 1 /\ Len(b) = 1 /\ a[1] = f /\ b[1] = g
  OBVIOUS
<1>. HIDE DEF a, b
<1>3. a \in Seq({f, g}) /\ b \in Seq({f, g})
  BY <1>1 DEF a, b
<1>4. /\ a \o b \in Seq({f, g}) /\ Len(a \o b) = 2
      /\ (a \o b)[1] = f /\ (a \o b)[2] = g
  BY <1>2, <1>3, ConcatProperties
<1>. DEFINE c == <<f, g>>
<1>5. c \in Seq({f, g}) /\ Len(c) = 2 /\ c[1] = f /\ c[2] = g
  OBVIOUS
<1>. HIDE DEF c
<1>6. \A i \in 1 .. 2 : c[i] = (a \o b)[i]
  BY <1>4, <1>5
<1>7. c = a \o b
  BY <1>4, <1>5, <1>6, SeqEqual
<1>. QED  BY <1>7 DEF a, b, c

-----------------------------------------------------------------------------
(* Modes and setpoints.                                                    *)

LEMMA NormSpoken ==
  /\ \A preset : Norm(preset) \in Spoken /\ Norm(preset) \in Presets
  /\ \A preset \in Spoken : Norm(preset) = preset
  /\ Norm("none") = "none" /\ Spoken \subseteq Presets
BY EntitiesAssumption DEF Norm, Presets

LEMMA AutoFacts ==
  /\ AutoMode \in Modes /\ AutoMode.dir = "heat_cool" /\ AutoMode.preset = "none"
  /\ Unknown.dir = "unknown" /\ Unknown.preset = "none"
BY DEF AutoMode, Unknown, Mode, Modes

LEMMA ModeFacts ==
  ASSUME NEW mode \in Modes
  PROVE  /\ mode.dir \in Directions /\ mode.preset \in Spoken
         /\ mode.dir = "heat_cool" <=> mode = AutoMode
         /\ mode # Unknown /\ mode.dir # "unknown"
<1>1. CASE mode = AutoMode
  BY <1>1, EntitiesAssumption DEF Directions, AutoMode, Unknown, Mode
<1>2. CASE \E dir \in {"heat", "cool"}, p \in Spoken : mode = Mode(dir, p)
  <2>1. PICK dir \in {"heat", "cool"}, p \in Spoken : mode = Mode(dir, p)
    BY <1>2
  <2>. QED  BY <2>1 DEF Directions, AutoMode, Unknown, Mode
<1>. QED  BY <1>1, <1>2 DEF Modes

LEMMA ModeStringFacts ==
  ASSUME NEW preset, NEW dir \in {"heat", "cool"}
  PROVE  /\ ModeString(dir, preset) \in Modes /\ ModeString(dir, preset) # AutoMode
         /\ ModeString(dir, preset).dir = dir
         /\ ModeString(dir, preset).preset = Norm(preset)
<1>1. ModeString(dir, preset) = Mode(dir, Norm(preset))
  BY DEF ModeString, Norm
<1>2. Mode(dir, Norm(preset)) \in Modes
  BY NormSpoken DEF Modes
<1>. QED  BY <1>1, <1>2 DEF Mode, AutoMode

LEMMA ModeStringPreset ==
  \A dir, preset : ModeString(dir, preset).preset = Norm(preset)
BY DEF ModeString, Mode, Norm

LEMMA ClipFacts ==
  ASSUME NEW temp \in Int, NEW dir \in Directions
  PROVE  /\ Clip(temp, dir) \in Int /\ InRange(Clip(temp, dir), dir)
         /\ InRange(temp, dir) <=> Clip(temp, dir) = temp
BY DEF Clip, InRange, Low, High, Directions

LEMMA SetpointFacts ==
  ASSUME NEW temp \in Setpoints, NEW dir \in Directions
  PROVE  temp \in Int /\ Clip(temp, dir) \in Setpoints
<1>1. CASE temp \in Temps
  BY <1>1, EntitiesAssumption DEF Setpoints
<1>2. CASE \E t \in Temps, d \in Directions : temp = Clip(t, d)
  <2>1. PICK t \in Temps, d \in Directions : temp = Clip(t, d)
    BY <1>2
  <2>2. t \in Int
    BY EntitiesAssumption
  <2>3. Clip(temp, dir) \in {Clip(t, d), Clip(t, dir)}
    BY <2>1, <2>2 DEF Clip, Low, High, Directions
  <2>4. Clip(t, d) \in Setpoints /\ Clip(t, dir) \in Setpoints
    BY DEF Setpoints
  <2>. QED  BY <2>1, <2>2, <2>3, <2>4, ClipFacts
<1>. QED  BY <1>1, <1>2 DEF Setpoints

LEMMA FrameTypes ==
  /\ Settle \in Frames /\ ~IsFrame(Settle)
  /\ \A on \in BOOLEAN : Power(on) \in Frames
  /\ \A mode \in Modes : WriteDp4(mode) \in Frames
  /\ \A temp \in Setpoints : Set(temp) \in Frames
  /\ \A on : IsFrame(Power(on))
  /\ \A mode : IsFrame(WriteDp4(mode))
  /\ \A temp : IsFrame(Set(temp))
BY FrameDomains DEF Frames, IsFrame

LEMMA Associative ==
  ASSUME NEW T
  PROVE  /\ \A f, g \in Seq(T) : f \o g \in Seq(T)
         /\ \A f, g, h \in Seq(T) : (f \o g) \o h = f \o (g \o h)
BY ConcatAssociative, ConcatProperties

(* What _write_mode and the pause after it leave to be written.            *)
LEMMA ModePlan ==
  ASSUME NEW mode \in Modes, NEW r \in Seq(Frames), NEW q,
         q = (WriteMode(mode) \o <<Settle>>) \o r
  PROVE  /\ ThenMode(mode, r) \in Seq(Frames) /\ q \in Seq(Frames)
         /\ data.power => q = ThenMode(mode, r)
         /\ ~data.power => q = <<Power(TRUE)>> \o (<<Settle>> \o ThenMode(mode, r))
<1>. DEFINE w == <<WriteDp4(mode)>>
            s == <<Settle>>
            p == <<Power(TRUE)>>
<1>1. w \in Seq(Frames) /\ s \in Seq(Frames) /\ p \in Seq(Frames)
  <2>1. WriteDp4(mode) \in Frames /\ Settle \in Frames /\ Power(TRUE) \in Frames
    BY FrameTypes
  <2>. QED  BY <2>1, OneFrame
<1>2. <<Power(TRUE), Settle>> = p \o s /\ <<>> \o w = w
  <2>1. <<Power(TRUE), Settle>> = p \o s
    BY TwoFrames
  <2>2. <<>> \o w = w
    BY <1>1, ConcatEmptySeq
  <2>. QED  BY <2>1, <2>2
<1>3. ThenMode(mode, r) = w \o (s \o r)
  BY DEF ThenMode
<1>4. WriteMode(mode) = IF data.power THEN w ELSE (p \o s) \o w
  BY <1>2 DEF WriteMode
<1>. HIDE DEF w, s, p
<1>5. s \o r \in Seq(Frames) /\ w \o (s \o r) \in Seq(Frames)
      /\ s \o (w \o (s \o r)) \in Seq(Frames) /\ p \o s \in Seq(Frames)
      /\ w \o s \in Seq(Frames)
  BY <1>1, ConcatProperties
<1>6. (w \o s) \o r = w \o (s \o r)
  BY <1>1, ConcatAssociative
<1>7. (((p \o s) \o w) \o s) \o r = p \o (s \o (w \o (s \o r)))
  <2>1. /\ \A x, y \in Seq(Frames) : x \o y \in Seq(Frames)
        /\ \A x, y, z \in Seq(Frames) : (x \o y) \o z = x \o (y \o z)
    BY Associative
  <2>2. ((p \o s) \o w) \o s = (p \o s) \o (w \o s)
    BY <1>1, <1>5, <2>1, SMTT(30)
  <2>3. ((p \o s) \o (w \o s)) \o r = (p \o s) \o ((w \o s) \o r)
    BY <1>5, <2>1, SMTT(30)
  <2>4. (p \o s) \o (w \o (s \o r)) = p \o (s \o (w \o (s \o r)))
    BY <1>1, <1>5, <2>1, SMTT(30)
  <2>. QED  BY <1>6, <2>2, <2>3, <2>4
<1>8. p \o (s \o (w \o (s \o r))) \in Seq(Frames)
  BY <1>1, <1>5, ConcatProperties
<1>. QED  BY <1>3, <1>4, <1>5, <1>6, <1>7, <1>8 DEF w, s, p

-----------------------------------------------------------------------------
(* The goals of the services, and what they write.                         *)

LEMMA AnythingTypes == Anything \in Wants
BY DEF Anything, Wants

LEMMA OrNoneFacts ==
  \A presets \in SUBSET Presets :
    /\ OrNone(presets) \in SUBSET Presets /\ presets \subseteq OrNone(presets)
    /\ "none" \in OrNone(presets)
BY DEF OrNone, Presets

LEMMA GoalTypes ==
  ASSUME Types, NEW w \in Wants
  PROVE  /\ \A on \in BOOLEAN : ToPower(on) \in Wants
         /\ \A dir \in Directions : ToMode(dir) \in Wants
         /\ \A dir \in Directions : ToCarried(w, dir) \in Wants
         /\ \A dir \in Directions : SelectGoal(dir) \in Wants
         /\ \A preset \in Presets : ToPreset(preset) \in Wants
         /\ \A on, dir, temp : temp \in Setpoints => ToSet(w, on, dir, temp) \in Wants
<1>1. \A on \in BOOLEAN : ToPower(on) \in Wants
  BY DEF ToPower, Wants, Types
<1>2. \A dir \in Directions : ToMode(dir) \in Wants
  BY OrNoneFacts DEF ToMode, Wants, Types
<1>3. \A dir \in Directions : ToCarried(w, dir) \in Wants
  BY DEF ToCarried, Wants
<1>4. \A dir \in Directions : SelectGoal(dir) \in Wants
  BY <1>2, OrNoneFacts DEF SelectGoal, Wants
<1>5. \A preset \in Presets : ToPreset(preset) \in Wants
  BY DEF ToPreset, Wants, Types
<1>6. ASSUME NEW on, NEW dir, NEW temp \in Setpoints
      PROVE  ToSet(w, on, dir, temp) \in Wants
  <2>1. CASE on /\ dir \in Directions
    <3>1. PICK v \in SUBSET Setpoints :
            ToSet(w, on, dir, temp)
              = [w EXCEPT !.set[dir] = v, !.clamped = w.clamped \ {dir}]
      BY <2>1 DEF ToSet
    <3>2. [w.set EXCEPT ![dir] = v] \in [Directions -> SUBSET Setpoints]
      BY <2>1 DEF Wants
    <3>3. ToSet(w, on, dir, temp)
            = [w EXCEPT !.set = [w.set EXCEPT ![dir] = v], !.clamped = w.clamped \ {dir}]
      BY <3>1
    <3>4. w.clamped \ {dir} \in SUBSET Directions
      BY DEF Wants
    <3>. QED  BY <3>2, <3>3, <3>4 DEF Wants
  <2>2. CASE ~(on /\ dir \in Directions)
    BY <2>2 DEF ToSet, Wants, Anything
  <2>. QED  BY <2>1, <2>2
<1>. QED  BY <1>1, <1>2, <1>3, <1>4, <1>5, <1>6

(* The clamped setpoint, if it had to be.                                  *)
ClampFrames(dir) ==
  IF Clip(data.set, dir) = data.set THEN <<>> ELSE <<Set(Clip(data.set, dir))>>

LEMMA ClampTypes ==
  ASSUME Types, NEW dir \in Directions
  PROVE  /\ ClampFrames(dir) \in Seq(Frames) /\ Clip(data.set, dir) \in Setpoints
         /\ Set(Clip(data.set, dir)) \in Frames
<1>1. data.set \in Setpoints
  BY DEF Types, States
<1>2. Clip(data.set, dir) \in Setpoints
  BY <1>1, SetpointFacts
<1>3. Set(Clip(data.set, dir)) \in Frames
  BY <1>2, FrameTypes
<1>. QED  BY <1>2, <1>3, OneFrame, EmptySeq DEF ClampFrames

(* The mode async_set_hvac_mode writes: the preset remembered or, failing  *)
(* that, reported.                                                         *)
HvacMode4(dir) ==
  IF dir = "heat_cool" THEN AutoMode ELSE ModeString(dir, Carried(last, data))

LEMMA HvacPlan ==
  ASSUME Types, NEW dir \in Directions
  PROVE  /\ HvacMode4(dir) \in Modes
         /\ HvacFrames(dir) = (WriteMode(HvacMode4(dir)) \o <<Settle>>) \o ClampFrames(dir)
         /\ HvacFrames(dir) \in Seq(Frames)
         /\ HvacMemory(dir) \in Memories
<1>1. HvacMode4(dir) \in Modes
  BY AutoFacts, ModeStringFacts DEF HvacMode4, Directions
<1>2. HvacFrames(dir) = (WriteMode(HvacMode4(dir)) \o <<Settle>>) \o ClampFrames(dir)
  BY DEF HvacFrames, HvacMode4, ClampFrames
<1>3. HvacMemory(dir) \in Memories
  BY DEF HvacMemory, Memories, Types, Presets
<1>. QED  BY <1>1, <1>2, <1>3, ModePlan, ClampTypes

-----------------------------------------------------------------------------
(* Types are kept.                                                         *)

LEMMA BeginTypes ==
  ASSUME Types, NEW p \in Platforms, NEW q \in Seq(Frames), NEW m \in Memories,
         NEW g \in Wants, Begin(p, q, m, g)
  PROVE  Types'
<1>1. want' \in Wants
  BY AnythingTypes DEF Begin
<1>2. calls' \in 0 .. MaxCalls
  BY EntitiesAssumption DEF Begin, Call, Types
<1>. QED  BY <1>1, <1>2 DEF Begin, Types

-----------------------------------------------------------------------------
(* Where a service starts from.                                            *)

LEMMA StateFacts ==
  ASSUME Types
  PROVE  /\ dev.power \in BOOLEAN /\ dev.mode \in Modes /\ dev.set \in Setpoints
         /\ dev.mode.dir \in Directions /\ dev.mode.preset \in Presets
         /\ dev.mode.preset \in Spoken
         /\ dev.mode.dir = "heat_cool" <=> dev.mode = AutoMode
         /\ data.power \in BOOLEAN /\ data.set \in Setpoints
         /\ data.mode \in Modes \cup {Unknown} /\ data.mode.preset \in Presets
         /\ data.mode.preset \in Spoken
         /\ data.mode # Unknown <=> data.mode.dir \in Directions
         /\ last.dir \in Directions /\ last.preset \in Presets
<1>1. /\ dev.power \in BOOLEAN /\ dev.mode \in Modes /\ dev.set \in Setpoints
      /\ data.power \in BOOLEAN /\ data.set \in Setpoints
      /\ data.mode \in Modes \cup {Unknown}
      /\ last.dir \in Directions /\ last.preset \in Presets
  BY DEF Types, States, Memories
<1>2. /\ dev.mode.dir \in Directions /\ dev.mode.preset \in Spoken
      /\ dev.mode.dir = "heat_cool" <=> dev.mode = AutoMode
  BY <1>1, ModeFacts
<1>3. data.mode.preset \in Spoken
  BY <1>1, ModeFacts, AutoFacts, EntitiesAssumption
<1>4. data.mode # Unknown <=> data.mode.dir \in Directions
  <2>1. Unknown.dir \notin Directions
    BY AutoFacts DEF Directions
  <2>. QED  BY <1>1, <2>1, ModeFacts
<1>. QED  BY <1>1, <1>2, <1>3, <1>4, NormSpoken

(* Nothing left to write is the end of a course.                           *)
LEMMA CourseEmpty ==
  ASSUME Types, Course(<<>>)
  PROVE  Ready(<<>>)
<1>1. ASSUME NEW r \in Seq(Frames), NEW mode \in Modes
      PROVE  /\ \A on \in BOOLEAN : <<Power(on)>> \o r # <<>>
             /\ <<Settle>> \o r # <<>> /\ <<WriteDp4(mode)>> # <<>>
             /\ <<Power(TRUE)>> \o (<<Settle>> \o ThenMode(mode, r)) # <<>>
             /\ <<Settle>> \o ThenMode(mode, r) # <<>> /\ ThenMode(mode, r) # <<>>
  <2>1. <<Settle>> \o r \in Seq(Frames) /\ WriteDp4(mode) \in Frames
    BY FrameTypes, FirstFrame
  <2>2. ThenMode(mode, r) \in Seq(Frames) /\ ThenMode(mode, r) # <<>>
    BY <2>1, FirstFrame DEF ThenMode
  <2>3. <<Settle>> \o ThenMode(mode, r) \in Seq(Frames)
    BY <2>2, FrameTypes, FirstFrame
  <2>. QED  BY <2>1, <2>2, <2>3, FrameTypes, FirstFrame, OneFrame
<1>2. ~Switching(<<>>) /\ ~Presetting(<<>>) /\ ~PoweringOn(<<>>)
      /\ ~PoweredOn(<<>>) /\ ~Turned(<<>>)
  <2>1. ~Switching(<<>>)
    BY <1>1, AutoFacts, Zenon DEF Switching
  <2>2. ~Presetting(<<>>)
    BY <1>1, EmptySeq, Zenon DEF Presetting
  <2>3. ~PoweringOn(<<>>)
    BY <1>1, Zenon DEF PoweringOn
  <2>4. ~PoweredOn(<<>>)
    BY <1>1, Zenon DEF PoweredOn
  <2>5. ~Turned(<<>>)
    BY <1>1, AutoFacts, Zenon DEF Turned
  <2>. QED  BY <2>1, <2>2, <2>3, <2>4, <2>5
<1>. QED  BY <1>2 DEF Course

LEMMA PairIs ==
  ASSUME NEW c \in Setpoints, NEW t \in Setpoints
  PROVE  /\ Pair(c, t) \in Seq(Frames) /\ Pair(c, t) # <<>>
         /\ Head(Pair(c, t)) = Set(c) /\ Tail(Pair(c, t)) = <<Set(t)>>
         /\ <<Set(t)>> \in Seq(Frames) /\ <<Set(t)>> # <<>>
         /\ Head(<<Set(t)>>) = Set(t) /\ Tail(<<Set(t)>>) = <<>>
BY FrameTypes, OneFrame, FirstFrame DEF Pair

LEMMA KeptAfterEmpty == ASSUME NEW dir PROVE KeptAfter(<<>>, dir) <=> Kept
BY PairIs DEF KeptAfter

(* Between services the device is as it is meant to be, whatever that is,  *)
(* and in the calm Home Assistant knows.                                   *)
LEMMA IdleFacts ==
  ASSUME Inv, Idle, restoring = {}
  PROVE  Lands /\ Kept /\ dev.set = mem[dev.mode.dir]
<1>1. CASE want = Anything
  <2>1. dev.power \in want.power /\ Kept
    BY <1>1 DEF Inv, Types, States, Anything, Kept
  <2>2. Meant(dev.mode)
    BY <1>1, StateFacts DEF Inv, Anything, Meant
  <2>3. Memory
    BY <1>1, StateFacts, NormSpoken DEF Inv, Anything, Memory, OffMemory, Recalls,
       Remembers, Open, Presets
  <2>. QED  BY <1>1, <2>1, <2>2, <2>3 DEF Lands, Inv, DeviceInv
<1>2. CASE \E p \in Platforms : Alone(p) /\ Course(plan[p])
  <2>1. Ready(<<>>)
    BY <1>2, CourseEmpty DEF Idle, Inv
  <2>. QED  BY <2>1, KeptAfterEmpty DEF Ready, Inv, DeviceInv
<1>. QED  BY <1>1, <1>2 DEF Inv, OnCourse

LEMMA CalmFacts ==
  ASSUME Inv, Calm
  PROVE  /\ Idle /\ restoring = {} /\ Lands /\ Kept
         /\ data.power = dev.power /\ data.set = dev.set
         /\ dev.set = mem[dev.mode.dir] /\ InRange(dev.set, dev.mode.dir)
         /\ dev.power => data.mode = dev.mode
         /\ keeps => data.mode = dev.mode
         /\ InStep
<1>1. data = Reported /\ Idle /\ restoring = {} /\ InStep
  BY DEF Calm, InStep
<1>2. data.power = dev.power /\ data.set = dev.set
      /\ (dev.power \/ keeps => data.mode = dev.mode)
  <2>1. CASE dev.power \/ keeps
    BY <1>1, <2>1 DEF Reported
  <2>2. CASE ~(dev.power \/ keeps)
    <3>1. data = [dev EXCEPT !.mode = data.mode]
      BY <1>1, <2>2 DEF Reported
    <3>2. DOMAIN dev = {"power", "mode", "set"}
      BY DEF Inv, Types, States
    <3>. QED  BY <2>2, <3>1, <3>2
  <2>. QED  BY <2>1, <2>2
<1>3. InRange(dev.set, dev.mode.dir)
  BY <1>1, StateFacts DEF Inv, DeviceInv
<1>. QED  BY <1>1, <1>2, <1>3, IdleFacts

LEMMA BeginStep ==
  ASSUME Inv, NEW p \in Platforms, NEW q \in Seq(Frames), NEW m \in Memories,
         NEW g \in Wants, Begin(p, q, m, g), Calm => Course(q)'
  PROVE  Inv'
<1>1. Types'
  BY BeginTypes DEF Inv
<1>2. DeviceInv'
  BY DEF Begin, Inv, DeviceInv
<1>3. ASSUME Calm PROVE OnCourse'
  <2>1. plan' = [plan EXCEPT ![p] = q] /\ restoring' = {} /\ Idle
    BY <1>3, CalmFacts DEF Begin
  <2>2. plan'[p] = q /\ \A o \in Platforms \ {p} : plan'[o] = <<>>
    BY <2>1 DEF Idle, Inv, Types
  <2>. QED  BY <1>3, <2>1, <2>2 DEF OnCourse, Alone
<1>4. ASSUME ~Calm PROVE OnCourse'
  <2>1. want' = Anything
    BY <1>4 DEF Begin
  <2>. QED  BY <2>1 DEF OnCourse, Anything
<1>. QED  BY <1>1, <1>2, <1>3, <1>4 DEF Inv

-----------------------------------------------------------------------------
(* The services. In the calm each sets out on a course; otherwise nothing  *)
(* is expected of it.                                                      *)

(* What climate remembers and Home Assistant has heard may be meant, and   *)
(* so may the preset a service carries over.                               *)
LEMMA CarriedMeant ==
  ASSUME Inv, Calm
  PROVE  Remembers /\ Norm(Carried(last, data)) \in want.preset
<1>1. /\ Meant(dev.mode) /\ Memory /\ InStep
      /\ dev.power => data.mode = dev.mode
      /\ keeps => data.mode = dev.mode
      /\ data.power = dev.power
  BY CalmFacts DEF Lands
<1>2. /\ Norm(data.mode.preset) = data.mode.preset
      /\ dev.mode.dir \in Directions /\ dev.mode.preset \in Spoken
      /\ Norm(dev.mode.preset) = dev.mode.preset
  BY StateFacts, NormSpoken DEF Inv
<1>3. /\ Unknown.preset = "none" /\ dev.mode # Unknown
      /\ dev.mode.dir = "heat_cool" => dev.mode.preset = "none"
  BY AutoFacts, StateFacts, ModeFacts DEF Inv
<1>4. dev.mode.preset \in want.preset
  BY <1>1 DEF Meant
<1>5. CASE dev.power
  <2>1. dev.mode.dir \in {"heat", "cool"} => last.preset = dev.mode.preset
    BY <1>1, <1>5 DEF InStep, Synced
  <2>2. Recalls
    <3>1. CASE dev.mode.dir = "heat_cool"
      BY <1>1, <1>5, <3>1 DEF Memory, Remembers
    <3>2. CASE dev.mode.dir \in {"heat", "cool"}
      BY <1>2, <1>4, <2>1, <3>2 DEF Recalls
    <3>. QED  BY <1>2, <3>1, <3>2 DEF Directions
  <2>. QED  BY <1>1, <1>2, <1>4, <1>5, <2>2 DEF Remembers, Recalls, Carried
<1>6. CASE ~dev.power
  <2>1. OffMemory
    BY <1>1, <1>6 DEF Memory
  <2>. QED  BY <1>1, <1>2, <1>3, <1>4, <2>1 DEF OffMemory, Remembers, Recalls, Carried
<1>. QED  BY <1>5, <1>6, StateFacts DEF Inv

LEMMA TurnStep ==
  ASSUME Inv, NEW p \in Platforms, NEW mode \in Modes, NEW r \in Seq(Frames), NEW q,
         q = (WriteMode(mode) \o <<Settle>>) \o r,
         NEW m \in Memories, NEW g \in Wants, Begin(p, q, m, g),
         m.preset \in {last.preset, "none"}, want.preset \subseteq g.preset,
         Calm => /\ g.power = {TRUE} /\ mode.dir \in g.dir /\ mode.preset \in g.preset
                 /\ KeptAfter(r, mode.dir)'
  PROVE  Inv'
<1>1. q \in Seq(Frames)
  BY ModePlan
<1>2. ASSUME Calm PROVE Course(q)'
  <2>1. want' = g /\ UNCHANGED <<dev, mem, keeps, restoring, data>>
    BY <1>2 DEF Begin
  <2>2. Turning(mode, r)'
    <3>1. Remembers /\ last' = m
      BY <1>2, CarriedMeant DEF Begin
    <3>2. Remembers'
      BY <2>1, <3>1 DEF Remembers, Recalls
    <3>. QED  BY <1>2, <2>1, <3>2 DEF Turning, Meant
  <2>3. restoring = {} /\ data.power = dev.power
    BY <1>2, CalmFacts
  <2>4. CASE data.power
    <3>1. q = ThenMode(mode, r)
      BY <2>4, ModePlan
    <3>2. PoweredOn(q)'
      BY <2>1, <2>2, <2>3, <2>4, <3>1 DEF PoweredOn
    <3>. QED  BY <3>2 DEF Course
  <2>5. CASE ~data.power
    <3>1. q = <<Power(TRUE)>> \o (<<Settle>> \o ThenMode(mode, r))
      BY <2>5, ModePlan
    <3>2. PoweringOn(q)'
      BY <2>1, <2>2, <2>3, <3>1 DEF PoweringOn
    <3>. QED  BY <3>2 DEF Course
  <2>. QED  BY <2>4, <2>5
<1>. QED  BY <1>1, <1>2, BeginStep

LEMMA ClampKept ==
  ASSUME Inv, Calm, NEW dir \in Directions, NEW r, r = ClampFrames(dir), mem' = mem,
         want'.set = want.set,
         want'.clamped = IF InRange(data.set, dir) THEN want.clamped
                         ELSE want.clamped \cup {dir}
  PROVE  KeptAfter(r, dir)'
<1>1. Kept /\ data.set \in Setpoints
  BY CalmFacts, StateFacts DEF Inv
<1>2. CASE Clip(data.set, dir) = data.set
  BY <1>1, <1>2, SetpointFacts, ClipFacts DEF KeptAfter, Kept, ClampFrames
<1>3. CASE Clip(data.set, dir) # data.set
  <2>1. Clip(data.set, dir) \in Setpoints /\ ~InRange(data.set, dir)
    BY <1>1, <1>3, SetpointFacts, ClipFacts
  <2>2. PICK t \in Setpoints : t = Clip(data.set, dir)
    BY <2>1
  <2>3. r = <<Set(t)>>
    BY <1>3, <2>2 DEF ClampFrames
  <2>4. KeptBut(dir)' /\ dir \in want'.clamped
    BY <1>1, <2>1 DEF Kept, KeptBut
  <2>. QED  BY <2>3, <2>4 DEF KeptAfter
<1>. QED  BY <1>2, <1>3

(* The fields of the goals.                                                *)
LEMMA GoalIs ==
  ASSUME Types, NEW dir \in Directions, NEW w \in Wants
  PROVE  /\ \A on : /\ ToPower(on).power = {on} /\ ToPower(on).dir = want.dir
                    /\ ToPower(on).preset = want.preset /\ ToPower(on).set = want.set
                    /\ ToPower(on).clamped = want.clamped
         /\ ToMode(dir).power = {TRUE} /\ ToMode(dir).dir = {dir}
         /\ ToMode(dir).preset = (IF dir = "heat_cool" THEN OrNone(want.preset) ELSE want.preset)
         /\ ToMode(dir).set = want.set /\ ToMode(dir).clamped = want.clamped
         /\ ToCarried(w, dir).power = w.power /\ ToCarried(w, dir).dir = w.dir
         /\ ToCarried(w, dir).preset = w.preset /\ ToCarried(w, dir).set = w.set
         /\ ToCarried(w, dir).clamped = (IF InRange(data.set, dir) THEN w.clamped
                                         ELSE w.clamped \cup {dir})
         /\ \A on, temp : /\ ToSet(w, on, dir, temp).power = w.power
                          /\ ToSet(w, on, dir, temp).dir = w.dir
                          /\ ToSet(w, on, dir, temp).preset = w.preset
<1>1. \A on : /\ ToPower(on).power = {on} /\ ToPower(on).dir = want.dir
              /\ ToPower(on).preset = want.preset /\ ToPower(on).set = want.set
              /\ ToPower(on).clamped = want.clamped
  BY DEF ToPower, Types, Wants
<1>2. /\ ToMode(dir).power = {TRUE} /\ ToMode(dir).dir = {dir}
      /\ ToMode(dir).preset = (IF dir = "heat_cool" THEN OrNone(want.preset) ELSE want.preset)
      /\ ToMode(dir).set = want.set /\ ToMode(dir).clamped = want.clamped
  BY DEF ToMode, Types, Wants
<1>3. /\ ToCarried(w, dir).power = w.power /\ ToCarried(w, dir).dir = w.dir
      /\ ToCarried(w, dir).preset = w.preset /\ ToCarried(w, dir).set = w.set
      /\ ToCarried(w, dir).clamped = (IF InRange(data.set, dir) THEN w.clamped
                                      ELSE w.clamped \cup {dir})
  BY DEF ToCarried, Wants
<1>4. \A on, temp : /\ ToSet(w, on, dir, temp).power = w.power
                    /\ ToSet(w, on, dir, temp).dir = w.dir
                    /\ ToSet(w, on, dir, temp).preset = w.preset
  BY DEF ToSet, Wants
<1>. QED  BY <1>1, <1>2, <1>3, <1>4

LEMMA HvacModeFacts ==
  ASSUME Inv, NEW dir \in Directions
  PROVE  /\ HvacMode4(dir) \in Modes /\ HvacMode4(dir).dir = dir
         /\ HvacMode4(dir) = AutoMode <=> dir = "heat_cool"
         /\ dir # "heat_cool" => HvacMode4(dir).preset = Norm(Carried(last, data))
         /\ HvacMode4(dir).preset \in Presets
<1>1. CASE dir = "heat_cool"
  BY <1>1, AutoFacts DEF HvacMode4, Presets
<1>2. CASE dir \in {"heat", "cool"}
  BY <1>2, ModeStringFacts, NormSpoken DEF HvacMode4
<1>. QED  BY <1>1, <1>2 DEF Directions

LEMMA HvacGoalIs ==
  ASSUME Inv, NEW dir \in Directions
  PROVE  /\ HvacGoal(dir) \in Wants
         /\ HvacGoal(dir).power = {TRUE} /\ HvacGoal(dir).dir = {dir}
         /\ HvacGoal(dir).preset = (IF dir = "heat_cool" THEN OrNone(want.preset) ELSE want.preset)
         /\ HvacGoal(dir).set = want.set
         /\ HvacGoal(dir).clamped = (IF InRange(data.set, dir) THEN want.clamped
                                     ELSE want.clamped \cup {dir})
<1>1. Types /\ want \in Wants
  BY DEF Inv, Types
<1>2. PICK w \in Wants : w = ToMode(dir)
  BY <1>1, GoalTypes
<1>3. /\ w.power = {TRUE} /\ w.dir = {dir} /\ w.set = want.set
      /\ w.preset = (IF dir = "heat_cool" THEN OrNone(want.preset) ELSE want.preset)
      /\ w.clamped = want.clamped
  BY <1>1, <1>2, GoalIs
<1>4. ToCarried(w, dir) \in Wants
  BY <1>1, GoalTypes
<1>5. /\ ToCarried(w, dir).power = w.power /\ ToCarried(w, dir).dir = w.dir
      /\ ToCarried(w, dir).preset = w.preset /\ ToCarried(w, dir).set = w.set
      /\ ToCarried(w, dir).clamped = (IF InRange(data.set, dir) THEN w.clamped
                                      ELSE w.clamped \cup {dir})
  BY <1>1, GoalIs
<1>6. HvacGoal(dir) = ToCarried(w, dir)
  BY <1>2 DEF HvacGoal
<1>. QED  BY <1>3, <1>4, <1>5, <1>6

LEMMA SetHvacModeStep ==
  ASSUME Inv, NEW dir \in Directions, ClimateSetHvacMode(dir)
  PROVE  Inv'
<1>1. PICK q, mode, r, m, g :
        /\ q = HvacFrames(dir) /\ mode = HvacMode4(dir) /\ r = ClampFrames(dir)
        /\ m = HvacMemory(dir) /\ g = HvacGoal(dir)
  OBVIOUS
<1>2. Begin("climate", q, m, g)
  BY <1>1 DEF ClimateSetHvacMode
<1>3. /\ mode \in Modes /\ r \in Seq(Frames) /\ m \in Memories
      /\ q = (WriteMode(mode) \o <<Settle>>) \o r
  BY <1>1, HvacPlan, ClampTypes DEF Inv
<1>4. g \in Wants
  BY <1>1, HvacGoalIs
<1>5. /\ g.power = {TRUE} /\ g.dir = {dir} /\ g.set = want.set
      /\ g.preset = (IF dir = "heat_cool" THEN OrNone(want.preset) ELSE want.preset)
      /\ g.clamped = IF InRange(data.set, dir) THEN want.clamped
                     ELSE want.clamped \cup {dir}
  BY <1>1, HvacGoalIs
<1>6. /\ mode.dir = dir
      /\ mode = AutoMode <=> dir = "heat_cool"
      /\ dir # "heat_cool" => mode.preset = Norm(Carried(last, data))
      /\ mode.preset \in Presets
  BY <1>1, HvacModeFacts
<1>7. /\ want.preset \subseteq OrNone(want.preset)
      /\ "none" \in OrNone(want.preset)
  BY OrNoneFacts DEF Inv, Types, Wants
<1>8. ASSUME Calm
      PROVE  /\ g.power = {TRUE} /\ mode.dir \in g.dir /\ mode.preset \in g.preset
             /\ KeptAfter(r, mode.dir)'
  <2>1. want' = g /\ mem' = mem
    BY <1>2, <1>8 DEF Begin
  <2>2. KeptAfter(r, dir)'
    BY <1>1, <1>5, <1>8, <2>1, ClampKept
  <2>3. mode.preset \in g.preset
    <3>1. CASE dir = "heat_cool"
      BY <1>5, <1>6, <1>7, <3>1, AutoFacts
    <3>2. CASE dir # "heat_cool"
      BY <1>5, <1>6, <1>8, <3>2, CarriedMeant
    <3>. QED  BY <3>1, <3>2
  <2>. QED  BY <1>5, <1>6, <2>2, <2>3
<1>9. m.preset \in {last.preset, "none"} /\ want.preset \subseteq g.preset
  BY <1>1, <1>5, <1>7 DEF HvacMemory
<1>. QED  BY <1>2, <1>3, <1>4, <1>8, <1>9, TurnStep DEF Platforms

LEMMA SelectModeStep ==
  ASSUME Inv, NEW dir \in Directions, SelectMode(dir)
  PROVE  Inv'
<1>1. PICK q, mode, m, g :
        /\ mode = (IF dir = "heat_cool" THEN AutoMode ELSE ModeString(dir, RetainedPreset))
        /\ q = Append(WriteMode(mode), Settle) /\ m = last /\ g = SelectGoal(dir)
  OBVIOUS
<1>2. Begin("select", q, m, g)
  BY <1>1 DEF SelectMode
<1>3. /\ mode \in Modes /\ mode.dir = dir
      /\ mode = AutoMode <=> dir = "heat_cool"
      /\ mode.preset \in Presets
      /\ dir # "heat_cool" => mode.preset = Norm(data.mode.preset)
  <2>1. CASE dir = "heat_cool"
    BY <1>1, <2>1, AutoFacts DEF Presets
  <2>2. CASE dir \in {"heat", "cool"}
    BY <1>1, <2>2, ModeStringFacts, NormSpoken DEF RetainedPreset
  <2>. QED  BY <2>1, <2>2 DEF Directions
<1>4. <<>> \in Seq(Frames) /\ q = (WriteMode(mode) \o <<Settle>>) \o <<>>
  <2>1. /\ Settle \in Frames /\ WriteDp4(mode) \in Frames /\ Power(TRUE) \in Frames
        /\ <<>> \in Seq(Frames)
    BY <1>3, FrameTypes, EmptySeq
  <2>2. /\ <<WriteDp4(mode)>> \in Seq(Frames) /\ <<Settle>> \in Seq(Frames)
        /\ <<Power(TRUE), Settle>> \in Seq(Frames)
    <3>1. /\ <<WriteDp4(mode)>> \in Seq(Frames) /\ <<Settle>> \in Seq(Frames)
      BY <2>1, OneFrame
    <3>2. <<Power(TRUE), Settle>> = <<Power(TRUE)>> \o <<Settle>>
      BY TwoFrames
    <3>. QED  BY <2>1, <3>1, <3>2, FirstFrame
  <2>3. WriteMode(mode) \in Seq(Frames)
    BY <2>1, <2>2, ConcatProperties DEF WriteMode
  <2>4. q = WriteMode(mode) \o <<Settle>>
    BY <1>1, <2>1, <2>3, AppendIsConcat
  <2>5. WriteMode(mode) \o <<Settle>> \in Seq(Frames)
    BY <2>2, <2>3, ConcatProperties
  <2>. QED  BY <2>1, <2>4, <2>5, ConcatEmptySeq
<1>5. g \in Wants /\ m \in Memories
  BY <1>1, GoalTypes DEF Inv, Types
<1>6. /\ g.power = {TRUE} /\ g.dir = {dir} /\ g.set = want.set
      /\ g.clamped = want.clamped
      /\ want.preset \subseteq g.preset
      /\ dir = "heat_cool" \/ data.mode = Unknown => "none" \in g.preset
  <2>1. Types /\ want \in Wants
    BY DEF Inv, Types
  <2>2. PICK w \in Wants : w = ToMode(dir)
    BY <2>1, GoalTypes
  <2>3. /\ w.power = {TRUE} /\ w.dir = {dir} /\ w.set = want.set
        /\ w.preset = (IF dir = "heat_cool" THEN OrNone(want.preset) ELSE want.preset)
        /\ w.clamped = want.clamped
    BY <2>1, <2>2, GoalIs
  <2>4. g = IF data.mode = Unknown
            THEN [w EXCEPT !.preset = OrNone(w.preset)] ELSE w
    BY <1>1, <2>2 DEF SelectGoal
  <2>5. /\ want.preset \subseteq w.preset /\ (dir = "heat_cool" => "none" \in w.preset)
        /\ w.preset \subseteq OrNone(w.preset) /\ "none" \in OrNone(w.preset)
    BY <2>1, <2>3, OrNoneFacts DEF Wants
  <2>6. CASE data.mode = Unknown
    <3>1. /\ g.power = w.power /\ g.dir = w.dir /\ g.set = w.set
          /\ g.clamped = w.clamped /\ g.preset = OrNone(w.preset)
      BY <2>4, <2>6 DEF Wants
    <3>. QED  BY <2>3, <2>5, <2>6, <3>1
  <2>7. CASE data.mode # Unknown
    BY <2>3, <2>4, <2>5, <2>7
  <2>. QED  BY <2>6, <2>7
<1>7. ASSUME Calm
      PROVE  /\ g.power = {TRUE} /\ mode.dir \in g.dir /\ mode.preset \in g.preset
             /\ KeptAfter(<<>>, mode.dir)'
  <2>1. want' = g /\ mem' = mem
    BY <1>2, <1>7 DEF Begin
  <2>2. KeptAfter(<<>>, mode.dir)'
    BY <1>6, <1>7, <2>1, CalmFacts DEF KeptAfter, Kept
  <2>3. dir # "heat_cool" => mode.preset \in g.preset
    <3>1. CASE data.mode = Unknown
      BY <1>3, <1>6, <3>1, AutoFacts, NormSpoken
    <3>2. CASE data.mode # Unknown
      BY <1>3, <1>6, <1>7, <3>2, CarriedMeant, NormSpoken, StateFacts
         DEF Inv, Remembers
    <3>. QED  BY <3>1, <3>2
  <2>4. CASE dir = "heat_cool"
    BY <1>3, <1>6, <2>2, <2>4, AutoFacts
  <2>5. CASE dir # "heat_cool"
    BY <1>3, <1>6, <2>2, <2>3, <2>5
  <2>. QED  BY <2>4, <2>5
<1>. QED  BY <1>1, <1>2, <1>3, <1>4, <1>5, <1>6, <1>7, TurnStep DEF Platforms

LEMMA LandsKept ==
  ASSUME Lands, UNCHANGED <<dev, keeps, data, last>>,
         want'.power = want.power, want'.dir = want.dir,
         want'.preset = want.preset
  PROVE  Lands'
BY DEF Lands, Meant, Memory, OffMemory, Recalls, Remembers, Heard, InStep, Open

(* A switch that sets out on its course, with what comes after it.         *)
LEMMA PowerCourse ==
  ASSUME Inv, Calm, NEW on \in BOOLEAN, NEW q, NEW r \in Seq(Frames),
         q = <<Power(on)>> \o r, UNCHANGED <<dev, keeps, data, last, restoring>>,
         want'.power = {on}, want'.dir = want.dir, want'.preset = want.preset,
         KeptAfter(r, dev.mode.dir)'
  PROVE  Course(q)'
<1>1. /\ restoring = {} /\ Meant(dev.mode) /\ Memory
      /\ dev.power => Heard /\ InStep
  BY CalmFacts DEF Lands, Heard
<1>2. Meant(dev.mode)' /\ Memory' /\ (dev.power => Heard /\ InStep)'
  BY <1>1 DEF Meant, Memory, OffMemory, Recalls, Remembers, Heard, InStep, Open
<1>3. Switching(q)'
  BY <1>1, <1>2 DEF Switching
<1>. QED  BY <1>3 DEF Course

LEMMA PowerStep ==
  ASSUME Inv, NEW p \in Platforms, NEW on \in BOOLEAN,
         Begin(p, <<Power(on)>>, last, ToPower(on))
  PROVE  Inv'
<1>1. PICK q, g : q = <<Power(on)>> /\ g = ToPower(on)
  OBVIOUS
<1>2. Types /\ want \in Wants /\ last \in Memories
  BY DEF Inv, Types
<1>3. g \in Wants /\ q \in Seq(Frames) /\ <<>> \in Seq(Frames) /\ q = <<Power(on)>> \o <<>>
  <2>1. Power(on) \in Frames
    BY FrameTypes
  <2>. QED  BY <1>1, <1>2, <2>1, GoalTypes, OneFrame, EmptySeq
<1>4. Begin(p, q, last, g)
  BY <1>1
<1>5. ASSUME Calm PROVE Course(q)'
  <2>1. want' = g /\ UNCHANGED <<dev, mem, keeps, restoring, data, last>>
    BY <1>4, <1>5 DEF Begin
  <2>2. PICK dir \in Directions : TRUE
    BY DEF Directions
  <2>3. /\ g.power = {on} /\ g.dir = want.dir /\ g.preset = want.preset
        /\ g.set = want.set /\ g.clamped = want.clamped
    BY <1>1, <1>2, GoalIs, <2>2
  <2>4. Kept'
    BY <1>5, <2>1, <2>3, CalmFacts DEF Kept
  <2>5. KeptAfter(<<>>, dev.mode.dir)'
    BY <2>4 DEF KeptAfter
  <2>. QED  BY <1>3, <1>5, <2>1, <2>3, <2>5, PowerCourse
<1>. QED  BY <1>2, <1>3, <1>4, <1>5, BeginStep

LEMMA PowerGoalIs ==
  ASSUME Inv, NEW dir \in Directions, NEW g, g = ToCarried(ToPower(TRUE), dir)
  PROVE  /\ g \in Wants
         /\ g.power = {TRUE} /\ g.dir = want.dir /\ g.preset = want.preset
         /\ g.set = want.set
         /\ g.clamped = (IF InRange(data.set, dir) THEN want.clamped
                         ELSE want.clamped \cup {dir})
<1>1. Types /\ want \in Wants
  BY DEF Inv, Types
<1>2. PICK w \in Wants : w = ToPower(TRUE)
  BY <1>1, GoalTypes
<1>3. /\ w.power = {TRUE} /\ w.dir = want.dir /\ w.preset = want.preset
      /\ w.set = want.set /\ w.clamped = want.clamped
  BY <1>1, <1>2, GoalIs
<1>4. g = ToCarried(w, dir) /\ ToCarried(w, dir) \in Wants
  BY <1>1, <1>2, GoalTypes
<1>5. /\ ToCarried(w, dir).power = w.power /\ ToCarried(w, dir).dir = w.dir
      /\ ToCarried(w, dir).preset = w.preset /\ ToCarried(w, dir).set = w.set
      /\ ToCarried(w, dir).clamped = (IF InRange(data.set, dir) THEN w.clamped
                                      ELSE w.clamped \cup {dir})
  BY <1>1, GoalIs
<1>. QED  BY <1>3, <1>4, <1>5

LEMMA TurnOnStep ==
  ASSUME Inv, ClimateTurnOn
  PROVE  Inv'
<1>1. CASE Begin("climate", <<Power(TRUE)>>, last, ToPower(TRUE))
  BY <1>1, PowerStep DEF Platforms
<1>2. CASE /\ data.mode = Unknown
           /\ Begin("climate", HvacFrames(last.dir), HvacMemory(last.dir),
                    ToCarried(ToPower(TRUE), last.dir))
  <2>1. PICK dir \in Directions : dir = last.dir
    BY StateFacts DEF Inv
  <2>2. PICK q, mode, r, m, g :
          /\ q = HvacFrames(dir) /\ mode = HvacMode4(dir) /\ r = ClampFrames(dir)
          /\ m = HvacMemory(dir) /\ g = ToCarried(ToPower(TRUE), dir)
    OBVIOUS
  <2>3. Begin("climate", q, m, g)
    BY <1>2, <2>1, <2>2
  <2>4. /\ mode \in Modes /\ r \in Seq(Frames) /\ m \in Memories
        /\ q = (WriteMode(mode) \o <<Settle>>) \o r
    BY <2>2, HvacPlan, ClampTypes DEF Inv
  <2>5. /\ g \in Wants /\ g.power = {TRUE} /\ g.dir = want.dir
        /\ g.preset = want.preset /\ g.set = want.set
        /\ g.clamped = IF InRange(data.set, dir) THEN want.clamped
                       ELSE want.clamped \cup {dir}
    BY <2>2, PowerGoalIs
  <2>6. /\ mode.dir = dir
        /\ mode = AutoMode <=> dir = "heat_cool"
        /\ dir # "heat_cool" => mode.preset = Norm(Carried(last, data))
        /\ mode.preset \in Presets
    BY <2>2, HvacModeFacts
  <2>7. ASSUME Calm
        PROVE  /\ g.power = {TRUE} /\ mode.dir \in g.dir /\ mode.preset \in g.preset
               /\ KeptAfter(r, mode.dir)'
    <3>1. want' = g /\ mem' = mem
      BY <2>3, <2>7 DEF Begin
    <3>2. KeptAfter(r, dir)'
      BY <2>2, <2>5, <2>7, <3>1, ClampKept
    <3>3. dev.mode # Unknown
      BY StateFacts, ModeFacts DEF Inv
    <3>4. OffMemory /\ ~keeps
      BY <1>2, <2>7, <3>3, CalmFacts DEF Lands, Memory
    <3>5. dir \in want.dir /\ (dir = "heat_cool" => "none" \in want.preset)
      BY <2>1, <3>4 DEF OffMemory
    <3>6. Norm(Carried(last, data)) \in want.preset
      BY <2>7, CarriedMeant
    <3>7. mode.preset \in want.preset
      <4>1. CASE dir = "heat_cool"
        BY <2>6, <3>5, <4>1, AutoFacts
      <4>2. CASE dir # "heat_cool"
        BY <2>6, <3>6, <4>2
      <4>. QED  BY <4>1, <4>2
    <3>. QED  BY <2>5, <2>6, <3>2, <3>5, <3>7
  <2>8. m.preset \in {last.preset, "none"}
    BY <2>2 DEF HvacMemory
  <2>. QED  BY <2>3, <2>4, <2>5, <2>7, <2>8, TurnStep DEF Platforms
<1>. QED  BY <1>1, <1>2 DEF ClimateTurnOn

LEMMA PresetGoalIs ==
  ASSUME Inv, NEW preset \in Presets, NEW g, g = ToPreset(preset)
  PROVE  /\ g \in Wants
         /\ g.power = want.power /\ g.dir = want.dir /\ g.set = want.set
         /\ g.clamped = want.clamped
         /\ g.preset = (IF dev.power THEN {preset} ELSE want.preset \cup {preset})
<1>1. Types /\ want \in Wants
  BY DEF Inv, Types
<1>2. g \in Wants
  BY <1>1, GoalTypes
<1>. QED  BY <1>1, <1>2 DEF ToPreset, Wants

(* A preset written while the unit runs.                                   *)
LEMMA PresetStep ==
  ASSUME Inv, NEW p \in Platforms, NEW preset \in Presets, NEW mode,
         mode = ModeString(data.mode.dir, preset), HvacMode \in {"heat", "cool"},
         NEW m \in Memories, Begin(p, <<WriteDp4(mode)>>, m, ToPreset(mode.preset))
  PROVE  Inv'
<1>1. data.power /\ data.mode.dir \in {"heat", "cool"}
  BY DEF HvacMode
<1>2. /\ mode \in Modes /\ mode # AutoMode /\ mode.dir = data.mode.dir
      /\ mode.preset \in Presets
  BY <1>1, ModeStringFacts, NormSpoken
<1>3. PICK q, g : q = <<WriteDp4(mode)>> /\ g = ToPreset(mode.preset)
  OBVIOUS
<1>4. /\ g \in Wants
      /\ g.power = want.power /\ g.dir = want.dir /\ g.set = want.set
      /\ g.clamped = want.clamped
      /\ g.preset = (IF dev.power THEN {mode.preset} ELSE want.preset \cup {mode.preset})
  BY <1>2, <1>3, PresetGoalIs
<1>5. q \in Seq(Frames)
  <2>1. WriteDp4(mode) \in Frames
    BY <1>2, FrameTypes
  <2>. QED  BY <1>3, <2>1, OneFrame
<1>6. Begin(p, q, m, g)
  BY <1>3
<1>7. ASSUME Calm PROVE Course(q)'
  <2>1. want' = g /\ UNCHANGED <<dev, mem, keeps, restoring, data>>
    BY <1>6, <1>7 DEF Begin
  <2>2. /\ dev.power /\ data.mode = dev.mode /\ restoring = {}
        /\ dev.power \in want.power /\ Meant(dev.mode) /\ Kept
    BY <1>1, <1>7, CalmFacts DEF Lands
  <2>3. Meant(mode)'
    BY <1>2, <1>4, <2>1, <2>2 DEF Meant
  <2>4. Kept'
    BY <1>4, <2>1, <2>2 DEF Kept
  <2>5. Presetting(q)'
    BY <1>1, <1>2, <1>3, <1>4, <2>1, <2>2, <2>3, <2>4, ModeFacts DEF Presetting
  <2>. QED  BY <2>5 DEF Course
<1>. QED  BY <1>4, <1>5, <1>6, <1>7, BeginStep

LEMMA SetPresetStep ==
  ASSUME Inv, NEW preset \in Presets, ClimateSetPreset(preset)
  PROVE  Inv'
<1>1. PICK mode, m : /\ mode = ModeString(data.mode.dir, preset)
                     /\ m = [last EXCEPT !.preset = preset]
  OBVIOUS
<1>2. /\ HvacMode # "heat_cool"
      /\ Begin("climate",
               IF HvacMode \in {"heat", "cool"} THEN <<WriteDp4(mode)>> ELSE <<>>,
               m, ToPreset(mode.preset))
  BY <1>1 DEF ClimateSetPreset
<1>3. m \in Memories /\ m.preset = preset /\ m.dir = last.dir
  BY <1>1 DEF Inv, Types, Memories
<1>4. CASE HvacMode \in {"heat", "cool"}
  BY <1>1, <1>2, <1>3, <1>4, PresetStep DEF Platforms
<1>5. CASE HvacMode \notin {"heat", "cool"}
  <2>1. PICK q, g : q = <<>> /\ g = ToPreset(mode.preset)
    OBVIOUS
  <2>2. Begin("climate", q, m, g) /\ q \in Seq(Frames)
    BY <1>2, <1>5, <2>1, EmptySeq
  <2>3. mode.preset = Norm(preset) /\ mode.preset \in Presets
    BY <1>1, ModeStringPreset, NormSpoken
  <2>4. /\ g \in Wants
        /\ g.power = want.power /\ g.dir = want.dir /\ g.set = want.set
        /\ g.clamped = want.clamped
        /\ g.preset = (IF dev.power THEN {mode.preset} ELSE want.preset \cup {mode.preset})
    BY <2>1, <2>3, PresetGoalIs
  <2>5. ASSUME Calm PROVE Course(q)'
    <3>1. want' = g /\ last' = m /\ UNCHANGED <<dev, mem, keeps, restoring, data>>
      BY <2>2, <2>5 DEF Begin
    <3>2. /\ data.power = dev.power /\ restoring = {} /\ Lands /\ Kept
          /\ dev.power => data.mode = dev.mode
      BY <2>5, CalmFacts
    <3>3. ~dev.power
      BY <1>2, <1>5, <3>2, StateFacts DEF HvacMode, Inv, Directions
    <3>4. OffMemory'
      BY <1>3, <2>3, <2>4, <3>1, <3>2, <3>3 DEF Lands, Memory, OffMemory, Recalls
    <3>5. Meant(dev.mode)'
      BY <2>3, <2>4, <3>1, <3>2, <3>3 DEF Lands, Meant
    <3>6. Kept'
      BY <2>4, <3>1, <3>2 DEF Kept
    <3>7. Lands'
      BY <2>4, <3>1, <3>2, <3>3, <3>4, <3>5 DEF Lands, Memory
    <3>8. Ready(q)'
      BY <2>1, <3>1, <3>2, <3>6, <3>7 DEF Ready, KeptAfter
    <3>. QED  BY <3>8 DEF Course
  <2>. QED  BY <1>3, <2>2, <2>4, <2>5, BeginStep DEF Platforms
<1>. QED  BY <1>4, <1>5

LEMMA SelectPresetStep ==
  ASSUME Inv, NEW preset \in Presets, SelectPreset(preset)
  PROVE  Inv'
<1>1. PICK mode : mode = ModeString(data.mode.dir, preset)
  OBVIOUS
<1>2. /\ HvacMode \in {"heat", "cool"} /\ last \in Memories
      /\ Begin("select", <<WriteDp4(mode)>>, last, ToPreset(mode.preset))
  BY <1>1 DEF SelectPreset, Inv, Types
<1>. QED  BY <1>1, <1>2, PresetStep DEF Platforms

LEMMA SetGoalIs ==
  ASSUME NEW w \in Wants, NEW on, NEW dir, NEW temp, NEW g,
         g = ToSet(w, on, dir, temp)
  PROVE  g.power = w.power /\ g.dir = w.dir /\ g.preset = w.preset
BY DEF ToSet, Wants

(* The last setpoint a service writes is the one its direction keeps.      *)
LEMMA SetKept ==
  ASSUME Types, NEW dir \in Directions, NEW w \in Wants, NEW on \in BOOLEAN, NEW d0,
         NEW temp \in Setpoints, NEW r,
         r = <<Set(temp)>> \/ \E c \in Setpoints : r = Pair(c, temp),
         mem' = mem, want' = ToSet(w, on, d0, temp),
         on => /\ d0 = dir
               /\ \A d \in Directions \ (w.clamped \cup {dir}) : mem[d] \in w.set[d]
  PROVE  KeptAfter(r, dir)'
<1>1. PICK g : g = ToSet(w, on, d0, temp)
  OBVIOUS
<1>2. want' = g
  BY <1>1
<1>3. Clip(temp, dir) \in Setpoints /\ (InRange(temp, dir) => Clip(temp, dir) = temp)
  BY SetpointFacts, ClipFacts
<1>4. CASE on = TRUE
  <2>1. /\ g.set[dir] = (IF InRange(temp, dir) THEN {temp} ELSE Setpoints)
        /\ \A d \in Directions \ {dir} : g.set[d] = w.set[d]
        /\ g.clamped = w.clamped \ {dir}
    <3>1. PICK v : v = IF InRange(temp, dir) THEN {temp} ELSE Setpoints
      OBVIOUS
    <3>2. g = [w EXCEPT !.set = [w.set EXCEPT ![dir] = v],
                        !.clamped = w.clamped \ {dir}]
      BY <1>1, <1>4, <3>1 DEF ToSet
    <3>3. g.set = [w.set EXCEPT ![dir] = v] /\ DOMAIN w.set = Directions
      BY <3>2 DEF Wants
    <3>. QED  BY <3>1, <3>2, <3>3 DEF Wants
  <2>2. KeptBut(dir)'
    BY <1>2, <1>4, <2>1 DEF KeptBut
  <2>3. Clip(temp, dir) \in want'.set[dir]
    BY <1>2, <1>3, <2>1
  <2>. QED  BY <2>2, <2>3 DEF KeptAfter
<1>5. CASE on = FALSE
  <2>1. g.set = [d \in Directions |-> Setpoints]
    BY <1>1, <1>5 DEF ToSet, Wants, Anything
  <2>2. \A d \in Directions : mem[d] \in Setpoints
    BY DEF Types
  <2>3. KeptBut(dir)'
    BY <1>2, <2>1, <2>2 DEF KeptBut
  <2>4. Clip(temp, dir) \in want'.set[dir]
    BY <1>2, <1>3, <2>1
  <2>. QED  BY <2>3, <2>4 DEF KeptAfter
<1>. QED  BY <1>4, <1>5

(* A setpoint alone.                                                       *)
LEMMA SetStep ==
  ASSUME Inv, NEW p \in Platforms, NEW temp \in Setpoints,
         Begin(p, <<Set(temp)>>, last, ToSet(want, data.power, data.mode.dir, temp))
  PROVE  Inv'
<1>1. PICK q, g, on, d0 :
        /\ q = <<Set(temp)>> /\ g = ToSet(want, on, d0, temp)
        /\ on = data.power /\ d0 = data.mode.dir
  OBVIOUS
<1>2. Types /\ want \in Wants /\ last \in Memories
  BY DEF Inv, Types
<1>3. g \in Wants
  BY <1>1, <1>2, GoalTypes
<1>4. q \in Seq(Frames)
  <2>1. Set(temp) \in Frames
    BY FrameTypes
  <2>. QED  BY <1>1, <2>1, OneFrame
<1>5. Begin(p, q, last, g)
  BY <1>1
<1>6. ASSUME Calm PROVE Course(q)'
  <2>1. want' = g /\ UNCHANGED <<dev, mem, keeps, restoring, data, last>>
    BY <1>5, <1>6 DEF Begin
  <2>2. /\ restoring = {} /\ Lands /\ Kept /\ data.power = dev.power
        /\ dev.power => data.mode = dev.mode
    BY <1>6, CalmFacts
  <2>3. g.power = want.power /\ g.dir = want.dir /\ g.preset = want.preset
    BY <1>1, <1>2, SetGoalIs
  <2>4. Lands'
    BY <2>1, <2>2, <2>3, LandsKept
  <2>5. PICK dir \in Directions : dir = dev.mode.dir
    BY <1>2, StateFacts
  <2>6. /\ on \in BOOLEAN
        /\ on => /\ d0 = dir
                 /\ \A d \in Directions \ (want.clamped \cup {dir}) :
                      mem[d] \in want.set[d]
    BY <1>1, <1>2, <2>2, <2>5, StateFacts DEF Kept
  <2>7. KeptAfter(q, dir)'
    BY <1>1, <1>2, <2>1, <2>6, SetKept
  <2>8. Ready(q)'
    BY <2>1, <2>2, <2>4, <2>5, <2>7 DEF Ready
  <2>. QED  BY <2>8 DEF Course
<1>. QED  BY <1>2, <1>3, <1>4, <1>5, <1>6, BeginStep

(* Switched off, with a setpoint.                                          *)
LEMMA SetOffStep ==
  ASSUME Inv, NEW temp \in Setpoints,
         Begin("climate", <<Power(FALSE), Set(temp)>>, last,
               ToSet(ToPower(FALSE), FALSE, data.mode.dir, temp))
  PROVE  Inv'
<1>1. PICK q, r, w, g, d0 :
        /\ q = <<Power(FALSE), Set(temp)>> /\ r = <<Set(temp)>>
        /\ w = ToPower(FALSE) /\ g = ToSet(w, FALSE, d0, temp)
        /\ d0 = data.mode.dir
  OBVIOUS
<1>2. Types /\ want \in Wants /\ last \in Memories
  BY DEF Inv, Types
<1>3. w \in Wants
  BY <1>1, <1>2, GoalTypes
<1>4. g \in Wants
  BY <1>1, <1>2, <1>3, GoalTypes
<1>5. q = <<Power(FALSE)>> \o r /\ q \in Seq(Frames) /\ r \in Seq(Frames)
  <2>1. q = <<Power(FALSE)>> \o r
    BY <1>1, TwoFrames
  <2>2. Power(FALSE) \in Frames /\ Set(temp) \in Frames
    BY FrameTypes
  <2>3. r \in Seq(Frames)
    BY <1>1, <2>2, OneFrame
  <2>. QED  BY <2>1, <2>2, <2>3, FirstFrame
<1>6. Begin("climate", q, last, g)
  BY <1>1
<1>7. ASSUME Calm PROVE Course(q)'
  <2>1. want' = g /\ UNCHANGED <<dev, mem, keeps, restoring, data, last>>
    BY <1>6, <1>7 DEF Begin
  <2>2. PICK dir \in Directions : dir = dev.mode.dir
    BY <1>2, StateFacts
  <2>3. w.power = {FALSE} /\ w.dir = want.dir /\ w.preset = want.preset
    BY <1>1, <1>2, <2>2, GoalIs
  <2>4. g.power = {FALSE} /\ g.dir = want.dir /\ g.preset = want.preset
    BY <1>1, <1>3, <2>3 DEF ToSet, Wants
  <2>5. KeptAfter(r, dir)'
    BY <1>1, <1>2, <1>3, <2>1, SetKept
  <2>. QED  BY <1>5, <1>7, <2>1, <2>2, <2>4, <2>5, PowerCourse
<1>. QED  BY <1>2, <1>4, <1>5, <1>6, <1>7, BeginStep DEF Platforms

(* A mode, with a setpoint.                                                *)
LEMMA SetTurnStep ==
  ASSUME Inv, NEW temp \in Setpoints, NEW dir \in Directions,
         Begin("climate", Append(HvacFrames(dir), Set(temp)), HvacMemory(dir),
               ToSet(HvacGoal(dir), TRUE, dir, temp))
  PROVE  Inv'
<1>1. PICK q, mode, c, r, m, w, g :
        /\ q = Append(HvacFrames(dir), Set(temp)) /\ mode = HvacMode4(dir)
        /\ c = ClampFrames(dir) /\ r = c \o <<Set(temp)>>
        /\ m = HvacMemory(dir) /\ w = HvacGoal(dir)
        /\ g = ToSet(w, TRUE, dir, temp)
  OBVIOUS
<1>2. Begin("climate", q, m, g)
  BY <1>1
<1>3. Types /\ want \in Wants
  BY DEF Inv, Types
<1>4. /\ mode \in Modes /\ c \in Seq(Frames) /\ m \in Memories
      /\ HvacFrames(dir) = (WriteMode(mode) \o <<Settle>>) \o c
      /\ HvacFrames(dir) \in Seq(Frames)
  BY <1>1, <1>3, HvacPlan, ClampTypes
<1>5. Set(temp) \in Frames /\ <<Set(temp)>> \in Seq(Frames)
  <2>1. Set(temp) \in Frames
    BY FrameTypes
  <2>. QED  BY <2>1, OneFrame
<1>6. r \in Seq(Frames) /\ q = (WriteMode(mode) \o <<Settle>>) \o r
  <2>. DEFINE s == <<Set(temp)>>
              h == WriteMode(mode) \o <<Settle>>
  <2>1. s \in Seq(Frames) /\ q = HvacFrames(dir) \o s
    BY <1>1, <1>4, <1>5, AppendIsConcat
  <2>2. h \in Seq(Frames)
    <3>1. /\ Settle \in Frames /\ WriteDp4(mode) \in Frames /\ Power(TRUE) \in Frames
      BY <1>4, FrameTypes
    <3>2. /\ <<WriteDp4(mode)>> \in Seq(Frames) /\ <<Settle>> \in Seq(Frames)
          /\ <<>> \in Seq(Frames)
      BY <3>1, OneFrame, EmptySeq
    <3>3. <<Power(TRUE), Settle>> = <<Power(TRUE)>> \o <<Settle>>
      BY TwoFrames
    <3>4. <<Power(TRUE), Settle>> \in Seq(Frames)
      BY <3>1, <3>2, <3>3, FirstFrame
    <3>5. WriteMode(mode) \in Seq(Frames)
      BY <3>2, <3>4, ConcatProperties DEF WriteMode
    <3>. QED  BY <3>2, <3>5, ConcatProperties
  <2>. HIDE DEF s, h
  <2>3. r = c \o s /\ q = (h \o c) \o s
    BY <1>1, <1>4, <2>1 DEF s, h
  <2>4. c \in Seq(Frames)
    BY <1>4
  <2>5. (h \o c) \o s = h \o (c \o s) /\ c \o s \in Seq(Frames)
    BY <2>1, <2>2, <2>4, ConcatAssociative, ConcatProperties
  <2>. QED  BY <2>3, <2>5 DEF h
<1>7. r = <<Set(temp)>> \/ \E t \in Setpoints : r = Pair(t, temp)
  <2>1. CASE c = <<>>
    BY <1>1, <1>5, <2>1, ConcatEmptySeq
  <2>2. CASE c = <<Set(Clip(data.set, dir))>>
    BY <1>1, <1>3, <2>2, ClampTypes DEF Pair
  <2>. QED  BY <1>1, <2>1, <2>2 DEF ClampFrames
<1>8. /\ w \in Wants /\ w.power = {TRUE} /\ w.dir = {dir}
      /\ w.preset = (IF dir = "heat_cool" THEN OrNone(want.preset) ELSE want.preset)
      /\ w.set = want.set
      /\ w.clamped = IF InRange(data.set, dir) THEN want.clamped
                     ELSE want.clamped \cup {dir}
  BY <1>1, HvacGoalIs
<1>9. g \in Wants
  BY <1>1, <1>3, <1>8, GoalTypes
<1>10. /\ g.power = {TRUE} /\ g.dir = {dir}
       /\ g.preset = (IF dir = "heat_cool" THEN OrNone(want.preset) ELSE want.preset)
  BY <1>1, <1>8 DEF ToSet, Wants
<1>11. /\ mode.dir = dir
       /\ mode = AutoMode <=> dir = "heat_cool"
       /\ dir # "heat_cool" => mode.preset = Norm(Carried(last, data))
       /\ mode.preset \in Presets
  BY <1>1, HvacModeFacts
<1>12. /\ want.preset \subseteq OrNone(want.preset)
       /\ "none" \in OrNone(want.preset)
  BY <1>3, OrNoneFacts DEF Wants
<1>13. m.preset \in {last.preset, "none"} /\ want.preset \subseteq g.preset
  BY <1>1, <1>10, <1>12 DEF HvacMemory
<1>14. ASSUME Calm
       PROVE  /\ g.power = {TRUE} /\ mode.dir \in g.dir /\ mode.preset \in g.preset
              /\ KeptAfter(r, mode.dir)'
  <2>1. want' = g /\ mem' = mem
    BY <1>2, <1>14 DEF Begin
  <2>2. \A d \in Directions \ (w.clamped \cup {dir}) : mem[d] \in w.set[d]
    BY <1>8, <1>14, CalmFacts DEF Kept
  <2>3. KeptAfter(r, dir)'
    BY <1>1, <1>3, <1>7, <1>8, <2>1, <2>2, SetKept
  <2>4. CASE dir = "heat_cool"
    BY <1>10, <1>11, <1>12, <2>3, <2>4, AutoFacts
  <2>5. CASE dir # "heat_cool"
    BY <1>10, <1>11, <1>14, <2>3, <2>5, CarriedMeant
  <2>. QED  BY <2>4, <2>5
<1>. QED  BY <1>2, <1>4, <1>6, <1>9, <1>13, <1>14, TurnStep DEF Platforms

LEMMA SetTemperatureStep ==
  ASSUME Inv, NEW temp \in Temps, ClimateSetTemperature(temp)
  PROVE  Inv'
<1>1. temp \in Setpoints
  BY DEF Setpoints
<1>. QED  BY <1>1, SetStep, SetOffStep, SetTurnStep DEF ClimateSetTemperature, Platforms

LEMMA NumberSetStep ==
  ASSUME Inv, NEW temp \in Temps, NumberSet(temp)
  PROVE  Inv'
<1>1. temp \in Setpoints
  BY DEF Setpoints
<1>. QED  BY <1>1, SetStep DEF NumberSet, Platforms

-----------------------------------------------------------------------------
(* Frames, once written.                                                   *)

LEMMA SyncedTwice ==
  /\ \A l, d : Synced(Synced(l, d), d) = Synced(l, d)
  /\ \A l \in Memories : \A d : ~d.power => Synced(l, d) = l
<1>1. \A l, d : Synced(Synced(l, d), d) = Synced(l, d)
  BY DEF Synced
<1>2. \A l \in Memories : \A d : ~d.power => Synced(l, d) = l
  BY DEF Synced, Memories
<1>. QED  BY <1>1, <1>2

LEMMA SyncedTypes ==
  ASSUME NEW l \in Memories, NEW d \in States(Modes \cup {Unknown})
  PROVE  Synced(l, d) \in Memories
<1>1. d.mode.preset \in Presets
  <2>1. d.mode \in Modes \cup {Unknown}
    BY DEF States
  <2>. QED  BY <2>1, ModeFacts, AutoFacts, NormSpoken DEF Presets
<1>. QED  BY <1>1 DEF Synced, Memories

(* An update teaches climate nothing but the preset of the state heard.    *)
LEMMA SyncedRecalls ==
  ASSUME Types, last' = Synced(last, data'),
         data'.mode \in Modes \cup {Unknown},
         Recalls, data'.mode # Unknown => data'.mode.preset \in want'.preset,
         want.preset \subseteq want'.preset
  PROVE  Recalls'
<1>1. /\ Norm(data'.mode.preset) = data'.mode.preset
      /\ data'.mode = Unknown => data'.mode.dir \notin {"heat", "cool"}
  BY ModeFacts, AutoFacts, NormSpoken
<1>2. last'.preset = (IF data'.power /\ data'.mode.dir \in {"heat", "cool"}
                      THEN data'.mode.preset ELSE last.preset)
  BY DEF Synced
<1>. QED  BY <1>1, <1>2 DEF Recalls

LEMMA RemembersKept ==
  ASSUME Types, last' = Synced(last, data'), data'.mode = data.mode, Recalls,
         data.mode # Unknown => data.mode.preset \in want.preset,
         dev'.mode.preset \in want'.preset, want' = want
  PROVE  Remembers'
<1>1. data'.mode \in Modes \cup {Unknown}
  BY StateFacts
<1>. QED  BY <1>1, SyncedRecalls DEF Remembers

LEMMA WrittenPower ==
  ASSUME Types, NEW on \in BOOLEAN, NEW f, f = Power(on)
  PROVE  /\ Written(f) \in States(Modes)
         /\ Written(f).power = on /\ Written(f).mode = dev.mode
         /\ Written(f).set = Clip(dev.set, dev.mode.dir)
         /\ Stored(f) = mem /\ ~Turns(f)
         /\ Merge(data, f) \in States(Modes \cup {Unknown})
         /\ Merge(data, f).power = on /\ Merge(data, f).mode = data.mode
<1>1. DOMAIN f = {"power"}
  BY FrameDomains
<1>2. dev \in States(Modes \cup {Unknown}) /\ data \in States(Modes \cup {Unknown})
  BY DEF Types, States
<1>3. /\ Merge(dev, f) = [dev EXCEPT !.power = on]
      /\ Merge(data, f) = [data EXCEPT !.power = on]
  BY <1>2, FrameIs
<1>4. Written(f) = [dev EXCEPT !.power = on, !.set = Clip(dev.set, dev.mode.dir)]
  BY <1>1, <1>2, <1>3 DEF Written, States
<1>5. Clip(dev.set, dev.mode.dir) \in Setpoints
  BY StateFacts, SetpointFacts
<1>. QED  BY <1>1, <1>2, <1>3, <1>4, <1>5 DEF Stored, Turns, Types, States

LEMMA WrittenMode ==
  ASSUME Types, NEW mode \in Modes, NEW f, f = WriteDp4(mode)
  PROVE  /\ Written(f) \in States(Modes)
         /\ Written(f).power = dev.power /\ Written(f).mode = mode
         /\ Written(f).set = Clip(dev.set, mode.dir)
         /\ Stored(f) = mem /\ f.mode = mode
         /\ Turns(f) <=> mode.dir # dev.mode.dir
         /\ Merge(data, f) \in States(Modes \cup {Unknown})
         /\ Merge(data, f).power = data.power /\ Merge(data, f).mode = mode
<1>1. DOMAIN f = {"mode"} /\ f.mode = mode
  BY FrameDomains
<1>2. dev \in States(Modes \cup {Unknown}) /\ data \in States(Modes \cup {Unknown})
  BY DEF Types, States
<1>3. /\ Merge(dev, f) = [dev EXCEPT !.mode = mode]
      /\ Merge(data, f) = [data EXCEPT !.mode = mode]
  BY <1>2, FrameIs
<1>4. Written(f) = [dev EXCEPT !.mode = mode, !.set = Clip(dev.set, mode.dir)]
  BY <1>1, <1>2, <1>3 DEF Written, States
<1>5. Clip(dev.set, mode.dir) \in Setpoints
  BY StateFacts, SetpointFacts, ModeFacts
<1>. QED  BY <1>1, <1>2, <1>3, <1>4, <1>5 DEF Stored, Turns, Types, States

LEMMA WrittenSet ==
  ASSUME Types, NEW temp \in Setpoints, NEW f, f = Set(temp)
  PROVE  /\ Written(f) \in States(Modes)
         /\ Written(f).power = dev.power /\ Written(f).mode = dev.mode
         /\ Written(f).set = Clip(temp, dev.mode.dir)
         /\ Clip(temp, dev.mode.dir) \in Setpoints
         /\ Stored(f) = (IF restoring = {}
                         THEN [mem EXCEPT ![dev.mode.dir] = Clip(temp, dev.mode.dir)]
                         ELSE mem)
         /\ ~Turns(f)
         /\ Merge(data, f) \in States(Modes \cup {Unknown})
         /\ Merge(data, f).power = data.power /\ Merge(data, f).mode = data.mode
<1>1. DOMAIN f = {"set"} /\ f.set = temp
  BY FrameDomains
<1>2. dev \in States(Modes \cup {Unknown}) /\ data \in States(Modes \cup {Unknown})
  BY DEF Types, States
<1>3. /\ Merge(dev, f) = [dev EXCEPT !.set = temp]
      /\ Merge(data, f) = [data EXCEPT !.set = temp]
  BY <1>2, FrameIs
<1>4. Written(f) = [dev EXCEPT !.set = Clip(temp, dev.mode.dir)]
  BY <1>1, <1>2, <1>3 DEF Written, States
<1>5. Clip(temp, dev.mode.dir) \in Setpoints
  BY StateFacts, SetpointFacts
<1>6. Stored(f) = (IF restoring = {}
                   THEN [mem EXCEPT ![dev.mode.dir] = Clip(temp, dev.mode.dir)]
                   ELSE mem)
  BY <1>1 DEF Stored
<1>7. ~Turns(f)
  BY <1>1 DEF Turns
<1>. QED  BY <1>2, <1>3, <1>4, <1>5, <1>6, <1>7 DEF Types, States

LEMMA FrameKinds ==
  ASSUME NEW f \in Frames, IsFrame(f)
  PROVE  \/ \E on \in BOOLEAN : f = Power(on)
         \/ \E mode \in Modes : f = WriteDp4(mode)
         \/ \E temp \in Setpoints : f = Set(temp)
BY FrameTypes DEF Frames

(* What a frame leaves of the device is as Types and DeviceInv say.        *)
LEMMA WrittenFacts ==
  ASSUME Types, DeviceInv, NEW f \in Frames, IsFrame(f)
  PROVE  /\ Written(f) \in States(Modes) /\ Stored(f) \in [Directions -> Setpoints]
         /\ \A dir \in Directions : InRange(Stored(f)[dir], dir)
         /\ restoring = {} /\ ~Turns(f) =>
              Written(f).set = Stored(f)[Written(f).mode.dir]
         /\ Turns(f) => /\ f.mode.dir \in Directions
                        /\ Written(f).mode.dir = f.mode.dir /\ Stored(f) = mem
         /\ Merge(data, f) \in States(Modes \cup {Unknown})
         /\ data.mode # Unknown => Merge(data, f).mode # Unknown
<1>1. /\ mem \in [Directions -> Setpoints] /\ dev.mode.dir \in Directions
      /\ \A dir \in Directions : InRange(mem[dir], dir) /\ mem[dir] \in Int
      /\ restoring = {} => dev.set = mem[dev.mode.dir]
  BY StateFacts, SetpointFacts DEF Types, DeviceInv
<1>2. restoring = {} => Clip(dev.set, dev.mode.dir) = dev.set
  BY <1>1, ClipFacts
<1>3. CASE \E on \in BOOLEAN : f = Power(on)
  BY <1>1, <1>2, <1>3, WrittenPower
<1>4. CASE \E mode \in Modes : f = WriteDp4(mode)
  <2>1. PICK mode \in Modes : f = WriteDp4(mode)
    BY <1>4
  <2>2. mode.dir \in Directions /\ mode # Unknown
    BY ModeFacts
  <2>3. /\ Written(f) \in States(Modes)
        /\ Written(f).power = dev.power /\ Written(f).mode = mode
        /\ Written(f).set = Clip(dev.set, mode.dir)
        /\ Stored(f) = mem /\ f.mode = mode
        /\ Turns(f) <=> mode.dir # dev.mode.dir
        /\ Merge(data, f) \in States(Modes \cup {Unknown})
        /\ Merge(data, f).mode = mode
    BY <2>1, WrittenMode
  <2>. QED  BY <1>1, <1>2, <2>2, <2>3
<1>5. CASE \E temp \in Setpoints : f = Set(temp)
  <2>1. PICK temp \in Setpoints : f = Set(temp)
    BY <1>5
  <2>2. InRange(Clip(temp, dev.mode.dir), dev.mode.dir)
    BY <1>1, SetpointFacts, ClipFacts
  <2>3. /\ Clip(temp, dev.mode.dir) \in Setpoints
        /\ Stored(f) = (IF restoring = {}
                        THEN [mem EXCEPT ![dev.mode.dir] = Clip(temp, dev.mode.dir)]
                        ELSE mem)
        /\ Written(f).set = Clip(temp, dev.mode.dir) /\ Written(f).mode = dev.mode
        /\ Written(f) \in States(Modes) /\ ~Turns(f)
        /\ Merge(data, f) \in States(Modes \cup {Unknown})
        /\ Merge(data, f).mode = data.mode
    BY <2>1, WrittenSet
  <2>4. Stored(f) \in [Directions -> Setpoints]
    BY <1>1, <2>3
  <2>5. \A dir \in Directions : InRange(Stored(f)[dir], dir)
    BY <1>1, <2>2, <2>3
  <2>6. restoring = {} => Written(f).set = Stored(f)[Written(f).mode.dir]
    BY <1>1, <2>3
  <2>. QED  BY <2>3, <2>4, <2>5, <2>6
<1>. QED  BY <1>3, <1>4, <1>5, FrameKinds

LEMMA SendingFacts ==
  ASSUME Types, NEW p \in Platforms, plan[p] # <<>>
  PROVE  /\ Head(plan[p]) \in Frames /\ plan[p] \in Seq(Frames)
         /\ Tail(plan[p]) \in Seq(Frames)
BY HeadTailProperties DEF Types

LEMMA WriteTypes ==
  ASSUME Types, DeviceInv, NEW p \in Platforms, WriteSucceeds(p)
  PROVE  Types' /\ DeviceInv' /\ InStep'
<1>1. PICK f \in Frames : f = Head(plan[p]) /\ IsFrame(f)
  BY SendingFacts DEF WriteSucceeds, Sending
<1>2. /\ dev' = Written(f) /\ mem' = Stored(f) /\ data' = Merge(data, f)
      /\ restoring' = (IF Turns(f) THEN restoring \cup {p} ELSE restoring)
      /\ last' = Synced(last, data') /\ plan' = [plan EXCEPT ![p] = Tail(@)]
      /\ UNCHANGED <<keeps, want, calls>>
  BY <1>1 DEF WriteSucceeds
<1>3. data' \in States(Modes \cup {Unknown}) /\ last \in Memories
  BY <1>1, <1>2, WrittenFacts DEF Types
<1>4. last' \in Memories
  BY <1>2, <1>3, SyncedTypes
<1>5. plan' \in [Platforms -> Seq(Frames)]
  BY <1>2, SendingFacts DEF Types, WriteSucceeds, Sending
<1>6. Types'
  BY <1>1, <1>2, <1>3, <1>4, <1>5, WrittenFacts DEF Types
<1>7. restoring' = {} => restoring = {} /\ ~Turns(f)
  BY <1>2
<1>8. DeviceInv'
  BY <1>1, <1>2, <1>7, WrittenFacts DEF DeviceInv
<1>9. InStep'
  BY <1>2, SyncedTwice DEF InStep
<1>. QED  BY <1>6, <1>8, <1>9

LEMMA FailTypes ==
  ASSUME Types, DeviceInv, NEW p \in Platforms, WriteFails(p)
  PROVE  Types' /\ DeviceInv'
<1>1. PICK f \in Frames : f = Head(plan[p]) /\ IsFrame(f)
  BY SendingFacts DEF WriteFails, Sending
<1>2. /\ \/ UNCHANGED <<dev, mem>>
         \/ /\ mem' = Stored(f)
            /\ dev' = IF Turns(f) THEN [Written(f) EXCEPT !.set = mem[f.mode.dir]]
                      ELSE Written(f)
      /\ plan' = [plan EXCEPT ![p] = <<>>] /\ want' = Anything
      /\ UNCHANGED <<keeps, restoring, data, last, calls>>
  BY <1>1 DEF WriteFails
<1>3. plan' \in [Platforms -> Seq(Frames)] /\ want' \in Wants
  BY <1>2, EmptySeq, AnythingTypes DEF Types
<1>4. CASE UNCHANGED <<dev, mem>>
  BY <1>2, <1>3, <1>4 DEF Types, DeviceInv
<1>5. CASE mem' = Stored(f) /\ ~Turns(f) /\ dev' = Written(f)
  BY <1>1, <1>2, <1>3, <1>5, WrittenFacts DEF Types, DeviceInv
<1>6. CASE /\ mem' = Stored(f) /\ Turns(f)
           /\ dev' = [Written(f) EXCEPT !.set = mem[f.mode.dir]]
  <2>1. /\ Written(f) \in States(Modes) /\ mem' = mem
        /\ f.mode.dir \in Directions /\ Written(f).mode.dir = f.mode.dir
    BY <1>1, <1>6, WrittenFacts
  <2>2. mem[f.mode.dir] \in Setpoints
    BY <2>1 DEF Types
  <2>3. /\ dev' \in States(Modes) /\ dev'.mode.dir = f.mode.dir
        /\ dev'.set = mem[f.mode.dir]
    BY <1>6, <2>1, <2>2 DEF States
  <2>. QED  BY <1>2, <1>3, <2>1, <2>3 DEF Types, DeviceInv
<1>. QED  BY <1>2, <1>4, <1>5, <1>6

-----------------------------------------------------------------------------
(* Courses: each write and each pause brings a course one step on.         *)

(* What is known of a platform's frames by their first one.                *)
LEMMA SequenceFacts ==
  ASSUME NEW mode \in Modes, NEW r \in Seq(Frames)
  PROVE  /\ <<WriteDp4(mode)>> \in Seq(Frames) /\ Head(<<WriteDp4(mode)>>) = WriteDp4(mode)
         /\ Tail(<<WriteDp4(mode)>>) = <<>>
         /\ <<Settle>> \o r \in Seq(Frames) /\ Head(<<Settle>> \o r) = Settle
         /\ Tail(<<Settle>> \o r) = r
         /\ ThenMode(mode, r) \in Seq(Frames) /\ Head(ThenMode(mode, r)) = WriteDp4(mode)
         /\ Tail(ThenMode(mode, r)) = <<Settle>> \o r
<1>1. WriteDp4(mode) \in Frames /\ Settle \in Frames
  BY FrameTypes
<1>2. /\ <<Settle>> \o r \in Seq(Frames) /\ Head(<<Settle>> \o r) = Settle
      /\ Tail(<<Settle>> \o r) = r
  BY <1>1, FirstFrame
<1>. QED  BY <1>1, <1>2, FirstFrame, OneFrame DEF ThenMode

LEMMA SwitchWritten ==
  ASSUME Inv, NEW p \in Platforms, WriteSucceeds(p), Switching(plan[p])
  PROVE  Ready(plan[p])'
<1>1. PICK on \in BOOLEAN, r \in Seq(Frames) :
        /\ plan[p] = <<Power(on)>> \o r /\ want.power = {on}
        /\ restoring = {} /\ Meant(dev.mode) /\ Memory
        /\ dev.power => Heard /\ InStep
        /\ KeptAfter(r, dev.mode.dir)
  BY DEF Switching
<1>2. PICK f : f = Power(on)
  OBVIOUS
<1>3. Head(plan[p]) = f /\ Tail(plan[p]) = r
  BY <1>1, <1>2, FrameTypes, FirstFrame
<1>4. /\ dev'.power = on /\ dev'.mode = dev.mode /\ mem' = mem /\ restoring' = {}
      /\ data'.power = on /\ data'.mode = data.mode /\ UNCHANGED <<keeps, want>>
      /\ last' = Synced(last, data')
  BY <1>1, <1>2, <1>3, WrittenPower DEF WriteSucceeds, Inv
<1>5. InStep' /\ plan'[p] = r
  BY <1>3, WriteTypes DEF WriteSucceeds, Inv, Types
<1>6. ASSUME ~on PROVE OffMemory'
  <2>1. last' = last
    BY <1>4, <1>6, SyncedTwice DEF Inv, Types
  <2>2. CASE ~dev.power
    BY <1>1, <1>4, <1>6, <2>1, <2>2 DEF Memory, OffMemory, Recalls
  <2>3. CASE dev.power
    <3>1. data.mode = dev.mode /\ data.power /\ last = Synced(last, data)
      BY <1>1, <2>3 DEF Heard, InStep
    <3>2. /\ dev.mode.dir \in Directions /\ dev.mode.preset \in Spoken
          /\ dev.mode.dir = "heat_cool" <=> dev.mode = AutoMode
          /\ last.preset \in Presets
      BY StateFacts DEF Inv
    <3>3. last.dir = dev.mode.dir
          /\ (dev.mode.dir \in {"heat", "cool"} => last.preset = dev.mode.preset)
      BY <3>1, <3>2 DEF Synced
    <3>4. Norm(last.preset) \in want.preset
      <4>1. CASE dev.mode.dir = "heat_cool"
        BY <1>1, <2>3, <3>2, <4>1, NormSpoken, AutoFacts DEF Meant, Memory, Remembers, Recalls
      <4>2. CASE dev.mode.dir \in {"heat", "cool"}
        BY <1>1, <3>2, <3>3, <4>2, NormSpoken DEF Meant
      <4>. QED  BY <3>2, <4>1, <4>2 DEF Directions
    <3>. QED  BY <1>1, <1>4, <1>6, <2>1, <3>1, <3>2, <3>3, <3>4, AutoFacts
              DEF OffMemory, Recalls, Meant
  <2>. QED  BY <2>2, <2>3
<1>7. Lands'
  <2>1. ASSUME dev.mode.dir = "heat_cool" PROVE Remembers'
    <3>1. Recalls /\ (data.mode # Unknown => data.mode.preset \in want.preset)
      BY <1>1, <2>1 DEF Memory, OffMemory, Remembers
    <3>. QED  BY <1>1, <1>4, <3>1, RemembersKept DEF Inv, Meant
  <2>. QED  BY <1>1, <1>4, <1>5, <1>6, <2>1 DEF Lands, Meant, Memory
<1>8. KeptAfter(r, dev.mode.dir)'
  BY <1>1, <1>4 DEF KeptAfter, KeptBut, Kept
<1>. QED  BY <1>4, <1>5, <1>7, <1>8 DEF Ready

LEMMA PresetWritten ==
  ASSUME Inv, NEW p \in Platforms, WriteSucceeds(p), Presetting(plan[p])
  PROVE  Ready(plan[p])'
<1>1. PICK mode \in Modes :
        /\ plan[p] = <<WriteDp4(mode)>>
        /\ dev.power /\ data.power /\ TRUE \in want.power
        /\ mode.dir = dev.mode.dir /\ mode.dir # "heat_cool" /\ Meant(mode)
        /\ restoring = {} /\ Kept
  BY DEF Presetting
<1>2. PICK f : f = WriteDp4(mode)
  OBVIOUS
<1>3. Head(plan[p]) = f /\ Tail(plan[p]) = <<>>
  BY <1>1, <1>2, FrameTypes, OneFrame
<1>4. /\ dev'.power = dev.power /\ dev'.mode = mode /\ mem' = mem /\ restoring' = {}
      /\ UNCHANGED want
  <2>1. /\ Written(f).power = dev.power /\ Written(f).mode = mode
        /\ Stored(f) = mem
        /\ Turns(f) <=> mode.dir # dev.mode.dir
    BY <1>2, WrittenMode DEF Inv
  <2>. QED  BY <1>1, <1>3, <2>1 DEF WriteSucceeds
<1>5. InStep' /\ plan'[p] = <<>>
  BY <1>3, WriteTypes DEF WriteSucceeds, Inv, Types
<1>6. dev.power \in BOOLEAN
  BY StateFacts DEF Inv
<1>7. Lands'
  BY <1>1, <1>4, <1>5, <1>6 DEF Lands, Meant, Memory
<1>8. Kept'
  BY <1>1, <1>4 DEF Kept
<1>. QED  BY <1>4, <1>5, <1>7, <1>8 DEF Ready, KeptAfter

(* A course towards a mode goes on, whatever Home Assistant hears.         *)
LEMMA TurningKept ==
  ASSUME Types, NEW mode \in Modes, NEW r, Turning(mode, r),
         last' = Synced(last, data'),
         dev'.mode \in {dev.mode, mode}, data'.mode \in {dev.mode, data.mode, mode},
         UNCHANGED <<mem, want>>
  PROVE  Turning(mode, r)'
<1>1. dev.mode \in Modes /\ data.mode \in Modes \cup {Unknown}
  BY StateFacts
<1>2. /\ dev'.mode.preset \in want'.preset
      /\ data'.mode # Unknown => data'.mode.preset \in want'.preset
  BY DEF Turning, Meant, Remembers
<1>3. Recalls'
  BY <1>1, <1>2, SyncedRecalls DEF Turning, Remembers
<1>. QED  BY <1>2, <1>3 DEF Turning, Meant, Remembers, KeptAfter, KeptBut, Kept

LEMMA PoweringWritten ==
  ASSUME Inv, NEW p \in Platforms, WriteSucceeds(p), PoweringOn(plan[p])
  PROVE  PoweredOn(plan[p])'
<1>1. PICK mode \in Modes, r \in Seq(Frames) :
        /\ Turning(mode, r) /\ restoring = {}
        /\ plan[p] = <<Power(TRUE)>> \o (<<Settle>> \o ThenMode(mode, r))
  BY DEF PoweringOn
<1>2. PICK f : f = Power(TRUE)
  OBVIOUS
<1>3. <<Settle>> \o ThenMode(mode, r) \in Seq(Frames) /\ f \in Frames
  BY <1>2, SequenceFacts, FrameTypes
<1>4. Head(plan[p]) = f /\ Tail(plan[p]) = <<Settle>> \o ThenMode(mode, r)
  BY <1>1, <1>2, <1>3, FirstFrame
<1>5. /\ dev'.power = TRUE /\ dev'.mode = dev.mode /\ mem' = mem /\ restoring' = {}
      /\ data'.power = TRUE /\ data'.mode = data.mode /\ UNCHANGED want
      /\ last' = Synced(last, data')
  BY <1>1, <1>2, <1>4, WrittenPower DEF WriteSucceeds, Inv
<1>6. plan'[p] = <<Settle>> \o ThenMode(mode, r)
  BY <1>4 DEF WriteSucceeds, Inv, Types
<1>7. Turning(mode, r)'
  BY <1>1, <1>5, TurningKept DEF Inv
<1>. QED  BY <1>5, <1>6, <1>7 DEF PoweredOn

LEMMA TurnWritten ==
  ASSUME Inv, NEW p \in Platforms, WriteSucceeds(p), PoweredOn(plan[p])
  PROVE  Turned(plan[p])' /\ restoring' \subseteq {p}
<1>1. PICK mode \in Modes, r \in Seq(Frames) :
        /\ Turning(mode, r) /\ restoring = {} /\ dev.power /\ data.power
        /\ plan[p] = <<Settle>> \o ThenMode(mode, r) \/ plan[p] = ThenMode(mode, r)
  BY DEF PoweredOn
<1>2. PICK f : f = WriteDp4(mode)
  OBVIOUS
<1>3. Head(<<Settle>> \o ThenMode(mode, r)) = Settle
  BY SequenceFacts
<1>4. IsFrame(Head(plan[p])) /\ ~IsFrame(Settle)
  BY FrameTypes DEF WriteSucceeds, Sending
<1>5. plan[p] = ThenMode(mode, r)
  BY <1>1, <1>3, <1>4
<1>6. Head(plan[p]) = f /\ Tail(plan[p]) = <<Settle>> \o r
  BY <1>2, <1>5, SequenceFacts
<1>7. /\ dev'.power = dev.power /\ dev'.mode = mode /\ mem' = mem
      /\ data'.power = data.power /\ data'.mode = mode /\ UNCHANGED want
      /\ restoring' \subseteq {p} /\ last' = Synced(last, data')
  <2>1. /\ Written(f).power = dev.power /\ Written(f).mode = mode
        /\ Stored(f) = mem
        /\ Merge(data, f).power = data.power /\ Merge(data, f).mode = mode
    BY <1>2, WrittenMode DEF Inv
  <2>. QED  BY <1>1, <1>6, <2>1 DEF WriteSucceeds
<1>8. InStep' /\ plan'[p] = <<Settle>> \o r
  BY <1>6, WriteTypes DEF WriteSucceeds, Inv, Types
<1>9. Turning(mode, r)'
  BY <1>1, <1>7, TurningKept DEF Inv
<1>. QED  BY <1>1, <1>7, <1>8, <1>9 DEF Turned, Heard

(* A setpoint: the direction the device runs in keeps it, clipped.         *)
LEMMA SetWritten ==
  ASSUME Inv, NEW p \in Platforms, WriteSucceeds(p), Ready(plan[p])
  PROVE  Ready(plan[p])'
<1>1. /\ restoring = {} /\ dev.power \in want.power /\ Meant(dev.mode) /\ Memory
      /\ KeptAfter(plan[p], dev.mode.dir) /\ plan[p] # <<>>
  BY DEF Ready, Lands, WriteSucceeds, Sending
<1>2. PICK t \in Setpoints :
        /\ plan[p] = <<Set(t)>> \/ \E c \in Setpoints : plan[p] = Pair(c, t)
        /\ KeptBut(dev.mode.dir)
        /\ dev.mode.dir \notin want.clamped =>
             Clip(t, dev.mode.dir) \in want.set[dev.mode.dir]
  BY <1>1 DEF KeptAfter
<1>3. PICK x \in Setpoints :
        /\ Head(plan[p]) = Set(x)
        /\ (Tail(plan[p]) = <<>> /\ x = t) \/ Tail(plan[p]) = <<Set(t)>>
  BY <1>2, PairIs
<1>4. PICK f : f = Set(x)
  OBVIOUS
<1>5. /\ dev'.power = dev.power /\ dev'.mode = dev.mode /\ restoring' = {}
      /\ mem' = [mem EXCEPT ![dev.mode.dir] = Clip(x, dev.mode.dir)]
      /\ data'.power = data.power /\ data'.mode = data.mode
      /\ UNCHANGED <<keeps, want>> /\ last' = Synced(last, data')
  BY <1>1, <1>3, <1>4, WrittenSet DEF WriteSucceeds, Inv
<1>6. InStep' /\ plan'[p] = Tail(plan[p])
  BY WriteTypes DEF WriteSucceeds, Inv, Types
<1>7. dev.mode.dir \in Directions /\ DOMAIN mem = Directions
  BY StateFacts DEF Inv, Types
<1>8. ASSUME ~dev.power PROVE OffMemory'
  <2>1. OffMemory
    BY <1>1, <1>8 DEF Memory
  <2>2. /\ last'.dir = (IF data.power /\ data.mode.dir \in Directions
                        THEN data.mode.dir ELSE last.dir)
        /\ last'.preset = (IF data.power /\ data.mode.dir \in {"heat", "cool"}
                           THEN data.mode.preset ELSE last.preset)
    BY <1>5 DEF Synced
  <2>3. /\ Norm(data.mode.preset) = data.mode.preset
        /\ data.mode # Unknown <=> data.mode.dir \in Directions
    BY StateFacts, NormSpoken DEF Inv
  <2>4. CASE data.power /\ data.mode # Unknown
    <3>1. data.mode.preset \in want.preset
      BY <2>1, <2>4 DEF OffMemory
    <3>2. Norm(last'.preset) \in want.preset \/ last'.preset = last.preset
      BY <2>2, <2>3, <3>1
    <3>3. data.mode.dir = "heat_cool" => data.mode.preset = "none"
      BY <2>4, StateFacts, ModeFacts, AutoFacts DEF Inv
    <3>. QED  BY <1>5, <2>1, <2>2, <2>3, <2>4, <3>1, <3>2, <3>3 DEF OffMemory, Recalls
  <2>5. CASE ~(data.power /\ data.mode # Unknown)
    <3>1. last'.dir = last.dir /\ last'.preset = last.preset
      BY <2>2, <2>3, <2>5 DEF Directions
    <3>. QED  BY <1>5, <2>1, <2>5, <3>1 DEF OffMemory, Recalls
  <2>. QED  BY <2>4, <2>5
<1>9. Lands'
  <2>1. ASSUME dev.power, dev.mode.dir = "heat_cool" PROVE Remembers'
    <3>1. Remembers
      BY <1>1, <2>1 DEF Memory
    <3>. QED  BY <1>5, <3>1, RemembersKept DEF Remembers, Inv
  <2>. QED  BY <1>1, <1>5, <1>6, <1>8, <2>1 DEF Lands, Meant, Memory
<1>10. KeptBut(dev.mode.dir)'
  BY <1>2, <1>5, <1>7 DEF KeptBut
<1>11. KeptAfter(plan[p], dev.mode.dir)'
  <2>1. CASE Tail(plan[p]) = <<>> /\ x = t
    <3>1. Kept'
      BY <1>2, <1>5, <1>7, <1>10, <2>1 DEF Kept, KeptBut
    <3>. QED  BY <1>6, <2>1, <3>1 DEF KeptAfter
  <2>2. CASE Tail(plan[p]) = <<Set(t)>>
    BY <1>2, <1>5, <1>6, <1>10, <2>2 DEF KeptAfter
  <2>. QED  BY <1>3, <2>1, <2>2
<1>. QED  BY <1>5, <1>9, <1>11 DEF Ready

(* A platform that is alone in having frames is the one that writes.       *)
LEMMA AloneIs ==
  ASSUME NEW p \in Platforms, NEW o \in Platforms, Alone(o), plan[p] # <<>>
  PROVE  p = o
BY DEF Alone

LEMMA WriteStep ==
  ASSUME Inv, NEW p \in Platforms, WriteSucceeds(p)
  PROVE  Inv'
<1>1. Types' /\ DeviceInv'
  BY WriteTypes DEF Inv
<1>2. CASE want = Anything
  BY <1>1, <1>2 DEF WriteSucceeds, Inv, OnCourse, Anything
<1>3. CASE \E o \in Platforms : Alone(o) /\ Course(plan[o])
  <2>1. Alone(p) /\ Course(plan[p])
    BY <1>3, AloneIs DEF WriteSucceeds, Sending
  <2>2. /\ plan' = [plan EXCEPT ![p] = Tail(@)]
        /\ restoring' = restoring \/ restoring' = restoring \cup {p}
    BY DEF WriteSucceeds
  <2>3. Alone(p)'
    BY <2>1, <2>2 DEF Alone, Inv, Types
  <2>4. ~Turned(plan[p])
    <3>1. IsFrame(Head(plan[p])) /\ ~IsFrame(Settle)
      BY FrameTypes DEF WriteSucceeds, Sending
    <3>2. \A r \in Seq(Frames) : Head(<<Settle>> \o r) = Settle
      BY FrameTypes, FirstFrame
    <3>. QED  BY <3>1, <3>2, Zenon DEF Turned
  <2>5. Course(plan[p])'
    BY <2>1, <2>4, SetWritten, SwitchWritten, PresetWritten, PoweringWritten,
       TurnWritten DEF Course
  <2>. QED  BY <1>1, <2>3, <2>5 DEF Inv, OnCourse
<1>. QED  BY <1>2, <1>3 DEF Inv, OnCourse

LEMMA FailStep ==
  ASSUME Inv, NEW p \in Platforms, WriteFails(p)
  PROVE  Inv'
<1>1. Types' /\ DeviceInv'
  BY FailTypes DEF Inv
<1>2. want' = Anything
  BY DEF WriteFails
<1>. QED  BY <1>1, <1>2 DEF Inv, OnCourse, Anything

LEMMA SettleStep ==
  ASSUME Inv, NEW p \in Platforms, SettleEnds(p)
  PROVE  Inv'
<1>1. /\ plan[p] # <<>> /\ ~IsFrame(Head(plan[p])) /\ p \notin restoring
      /\ plan' = [plan EXCEPT ![p] = Tail(@)]
      /\ UNCHANGED <<dev, mem, keeps, restoring, data, last, want, calls>>
  BY DEF SettleEnds
<1>2. plan' \in [Platforms -> Seq(Frames)] /\ plan'[p] = Tail(plan[p])
  BY <1>1, SendingFacts DEF Inv, Types
<1>3. Types' /\ DeviceInv'
  BY <1>1, <1>2 DEF Inv, Types, DeviceInv
<1>4. CASE want = Anything
  BY <1>1, <1>3, <1>4 DEF Inv, OnCourse, Anything
<1>5. CASE \E o \in Platforms : Alone(o) /\ Course(plan[o])
  <2>1. Alone(p) /\ Course(plan[p])
    BY <1>1, <1>5, AloneIs
  <2>2. Alone(p)' /\ restoring = {}
    BY <1>1, <2>1 DEF Alone, Inv, Types
  <2>3. /\ \A on : IsFrame(Power(on))
        /\ \A mode : IsFrame(WriteDp4(mode))
        /\ \A temp : IsFrame(Set(temp))
    BY FrameTypes
  <2>4. ~Ready(plan[p])
    <3>1. ASSUME KeptAfter(plan[p], dev.mode.dir) PROVE FALSE
      <4>1. PICK t \in Setpoints : \/ plan[p] = <<Set(t)>>
                                   \/ \E c \in Setpoints : plan[p] = Pair(c, t)
        BY <1>1, <3>1 DEF KeptAfter
      <4>. QED  BY <1>1, <2>3, <4>1, PairIs
    <3>. QED  BY <3>1 DEF Ready
  <2>5. ~Switching(plan[p])
    <3>1. \A on \in BOOLEAN, r \in Seq(Frames) : Head(<<Power(on)>> \o r) = Power(on)
      BY FrameTypes, FirstFrame
    <3>. QED  BY <1>1, <2>3, <3>1, Zenon DEF Switching
  <2>6. ~Presetting(plan[p])
    <3>1. \A mode \in Modes : Head(<<WriteDp4(mode)>>) = WriteDp4(mode)
      BY SequenceFacts, EmptySeq
    <3>. QED  BY <1>1, <2>3, <3>1, Zenon DEF Presetting
  <2>7. ~PoweringOn(plan[p])
    <3>1. \A mode \in Modes, r \in Seq(Frames) :
            Head(<<Power(TRUE)>> \o (<<Settle>> \o ThenMode(mode, r))) = Power(TRUE)
      <4>1. ASSUME NEW mode \in Modes, NEW r \in Seq(Frames)
            PROVE  Head(<<Power(TRUE)>> \o (<<Settle>> \o ThenMode(mode, r))) = Power(TRUE)
        <5>1. <<Settle>> \o ThenMode(mode, r) \in Seq(Frames) /\ Power(TRUE) \in Frames
          BY SequenceFacts, FrameTypes
        <5>. QED  BY <5>1, FirstFrame
      <4>. QED  BY <4>1
    <3>. QED  BY <1>1, <2>3, <3>1, Zenon DEF PoweringOn
  <2>8. CASE PoweredOn(plan[p])
    <3>1. PICK mode \in Modes, r \in Seq(Frames) :
            /\ Turning(mode, r) /\ restoring = {} /\ dev.power /\ data.power
            /\ plan[p] = <<Settle>> \o ThenMode(mode, r) \/ plan[p] = ThenMode(mode, r)
      BY <2>8 DEF PoweredOn
    <3>2. plan[p] = <<Settle>> \o ThenMode(mode, r)
      BY <1>1, <2>3, <3>1, SequenceFacts
    <3>3. plan'[p] = ThenMode(mode, r)
      BY <1>2, <3>2, SequenceFacts
    <3>4. Turning(mode, r)'
      BY <1>1, <3>1 DEF Turning, Meant, Remembers, Recalls, KeptAfter, KeptBut, Kept
    <3>5. PoweredOn(plan[p])'
      BY <1>1, <3>1, <3>3, <3>4 DEF PoweredOn
    <3>. QED  BY <1>3, <2>2, <3>5 DEF Inv, OnCourse, Course
  <2>9. CASE Turned(plan[p])
    <3>1. PICK r \in Seq(Frames) :
            /\ plan[p] = <<Settle>> \o r /\ Turning(dev.mode, r)
            /\ dev.power /\ Heard /\ InStep
      BY <2>9 DEF Turned
    <3>2. plan'[p] = r
      BY <1>2, <3>1, FrameTypes, FirstFrame
    <3>3. Lands /\ KeptAfter(r, dev.mode.dir)
      BY <3>1, StateFacts DEF Lands, Memory, Turning, Inv
    <3>4. Lands' /\ KeptAfter(r, dev.mode.dir)'
      BY <1>1, <3>3 DEF Lands, Meant, Memory, OffMemory, Recalls, Remembers, Heard,
         InStep, Open, KeptAfter, KeptBut, Kept
    <3>5. Ready(plan[p])'
      BY <1>1, <2>2, <3>2, <3>4 DEF Ready
    <3>. QED  BY <1>3, <2>2, <3>5 DEF Inv, OnCourse, Course
  <2>. QED  BY <2>1, <2>4, <2>5, <2>6, <2>7, <2>8, <2>9 DEF Course
<1>. QED  BY <1>4, <1>5 DEF Inv, OnCourse

-----------------------------------------------------------------------------
(* The device, and Home Assistant, while a course is under way.            *)

LEMMA RestoreStep ==
  ASSUME Inv, NEW p \in Platforms, Restore(p)
  PROVE  Inv'
<1>1. /\ p \in restoring /\ restoring' = restoring \ {p}
      /\ dev' = [dev EXCEPT !.set = mem[dev.mode.dir]]
      /\ UNCHANGED <<mem, keeps, data, last, plan, want, calls>>
  BY DEF Restore
<1>2. /\ dev' \in States(Modes) /\ dev'.power = dev.power /\ dev'.mode = dev.mode
      /\ dev'.set = mem[dev.mode.dir]
  BY <1>1, StateFacts DEF Inv, Types, States
<1>3. Types' /\ DeviceInv'
  BY <1>1, <1>2 DEF Inv, Types, DeviceInv
<1>4. CASE want = Anything
  BY <1>1, <1>3, <1>4 DEF Inv, OnCourse, Anything
<1>5. CASE \E o \in Platforms : Alone(o) /\ Course(plan[o])
  <2>1. PICK o \in Platforms : Alone(o) /\ Course(plan[o])
    BY <1>5
  <2>2. Turned(plan[o])
    BY <1>1, <2>1 DEF Course, Ready, Switching, Presetting, PoweringOn, PoweredOn
  <2>3. Alone(o)'
    BY <1>1, <2>1 DEF Alone
  <2>4. Turned(plan[o])'
    BY <1>1, <1>2, <2>2 DEF Turned, Turning, Meant, Recalls, Remembers, Heard, InStep,
       KeptAfter, KeptBut, Kept
  <2>. QED  BY <1>3, <2>3, <2>4 DEF Inv, OnCourse, Course
<1>. QED  BY <1>4, <1>5 DEF Inv, OnCourse

LEMMA ReportedFacts ==
  ASSUME Inv
  PROVE  /\ Reported \in States(Modes \cup {Unknown})
         /\ Reported.power = dev.power /\ Reported.set = dev.set
         /\ dev.power \/ keeps => Reported.mode = dev.mode
         /\ ~(dev.power \/ keeps) => Reported.mode = data.mode
<1>1. CASE dev.power \/ keeps
  BY <1>1 DEF Reported, Inv, Types, States
<1>2. CASE ~(dev.power \/ keeps)
  BY <1>2, StateFacts DEF Reported, Inv, Types, States
<1>. QED  BY <1>1, <1>2

(* What Home Assistant hears leaves Memory as it was: the device's mode is *)
(* one that was meant.                                                     *)
LEMMA HeardMemory ==
  ASSUME Inv, Meant(dev.mode), Memory, last' = Synced(last, data'),
         data'.power = dev.power, data'.mode \in {dev.mode, data.mode},
         UNCHANGED <<dev, keeps, want>>
  PROVE  Memory'
<1>1. InStep'
  BY SyncedTwice DEF InStep
<1>2. ASSUME ~dev.power PROVE OffMemory'
  <2>1. last' = last
    BY <1>2, SyncedTwice DEF Inv, Types
  <2>. QED  BY <1>2, <2>1 DEF Memory, OffMemory, Recalls, Meant
<1>3. ASSUME dev.power, dev.mode.dir = "heat_cool" PROVE Remembers'
  <2>1. Remembers /\ data'.mode \in Modes \cup {Unknown}
    BY <1>3, StateFacts DEF Memory, Inv
  <2>2. data'.mode # Unknown => data'.mode.preset \in want.preset
    BY <2>1 DEF Remembers
  <2>. QED  BY <2>1, <2>2, SyncedRecalls DEF Remembers, Inv
<1>. QED  BY <1>1, <1>2, <1>3 DEF Memory

LEMMA UpdateStep ==
  ASSUME Inv, Update
  PROVE  Inv'
<1>1. /\ data' = Reported /\ last' = Synced(last, data')
      /\ UNCHANGED <<dev, mem, keeps, restoring, plan, want, calls>>
  BY DEF Update
<1>2. /\ data' \in States(Modes \cup {Unknown}) /\ data'.power = dev.power
      /\ dev.power \/ keeps => data'.mode = dev.mode
      /\ data'.mode \in {dev.mode, data.mode}
  BY <1>1, ReportedFacts
<1>3. last' \in Memories /\ InStep'
  <2>1. last \in Memories
    BY DEF Inv, Types
  <2>2. last' \in Memories
    BY <1>1, <1>2, <2>1, SyncedTypes
  <2>. QED  BY <1>1, <2>2, SyncedTwice DEF InStep
<1>4. dev.mode # Unknown
  BY StateFacts, ModeFacts DEF Inv
<1>5. Types' /\ DeviceInv'
  BY <1>1, <1>2, <1>3, <1>4 DEF Inv, Types, DeviceInv
<1>6. CASE want = Anything
  BY <1>1, <1>5, <1>6 DEF Inv, OnCourse, Anything
<1>7. CASE \E o \in Platforms : Alone(o) /\ Course(plan[o])
  <2>1. PICK o \in Platforms : Alone(o) /\ Course(plan[o])
    BY <1>7
  <2>2. Alone(o)' /\ plan'[o] = plan[o]
    BY <1>1, <2>1 DEF Alone
  <2>3. PICK q : q = plan[o]
    OBVIOUS
  <2>4. \A r, d : KeptAfter(r, d) <=> KeptAfter(r, d)'
    BY <1>1 DEF KeptAfter, KeptBut, Kept
  <2>5. \A mode : Meant(mode) <=> Meant(mode)'
    BY <1>1 DEF Meant
  <2>6. Meant(dev.mode) /\ Memory => Memory'
    BY <1>1, <1>2, HeardMemory
  <2>7. dev.power => Heard' /\ InStep'
    BY <1>1, <1>2, <1>3 DEF Heard
  <2>8. Ready(q) => Ready(q)'
    BY <1>1, <2>4, <2>5, <2>6 DEF Ready, Lands
  <2>9. Switching(q) => Switching(q)'
    BY <1>1, <2>4, <2>5, <2>6, <2>7 DEF Switching
  <2>10. Presetting(q) => Presetting(q)'
    BY <1>1, <1>2, <2>5 DEF Presetting, Kept
  <2>11. \A mode \in Modes : \A r : Turning(mode, r) => Turning(mode, r)'
    BY <1>1, <1>2, TurningKept DEF Inv
  <2>12. PoweringOn(q) => PoweringOn(q)'
    BY <1>1, <2>11 DEF PoweringOn
  <2>13. PoweredOn(q) => PoweredOn(q)'
    BY <1>1, <1>2, <2>11 DEF PoweredOn
  <2>14. Turned(q) => Turned(q)'
    BY <1>1, <2>7, <2>11, StateFacts DEF Turned, Inv
  <2>15. Course(q)'
    BY <2>1, <2>3, <2>8, <2>9, <2>10, <2>12, <2>13, <2>14 DEF Course
  <2>. QED  BY <1>5, <2>2, <2>3, <2>15 DEF Inv, OnCourse
<1>. QED  BY <1>6, <1>7 DEF Inv, OnCourse

(* Nothing under way, before and after.                                    *)
LEMMA IdleCourse ==
  ASSUME Types', Idle', restoring' = {}, Lands', Kept'
  PROVE  OnCourse'
<1>1. PICK p \in Platforms : TRUE
  BY DEF Platforms
<1>2. plan'[p] = <<>> /\ Alone(p)'
  BY DEF Idle, Alone
<1>3. Ready(<<>>)'
  BY DEF Ready, KeptAfter
<1>. QED  BY <1>2, <1>3 DEF OnCourse, Course

(* The panel's switch.                                                     *)
LEMMA PanelPower ==
  ASSUME Inv, Panel, dev' = [dev EXCEPT !.power = ~dev.power],
         want' = IF Idle THEN ToPower(dev'.power) ELSE Anything, mem' = mem
  PROVE  Inv'
<1>1. /\ restoring = {} /\ data = Reported /\ calls < MaxCalls /\ calls' = calls + 1
      /\ UNCHANGED <<keeps, restoring, data, last, plan>>
  BY DEF Panel, Call
<1>2. /\ dev' \in States(Modes) /\ dev'.mode = dev.mode /\ dev'.set = dev.set
      /\ dev'.power = ~dev.power /\ dev.power \in BOOLEAN /\ dev'.power \in BOOLEAN
  BY StateFacts DEF Inv, Types, States
<1>3. Types /\ want \in Wants
  BY DEF Inv, Types
<1>4. ToPower(dev'.power) \in Wants
  BY <1>2, <1>3, GoalTypes
<1>5. want' \in Wants /\ calls' \in 0 .. MaxCalls
  BY <1>1, <1>4, AnythingTypes, EntitiesAssumption DEF Inv, Types
<1>6. Types' /\ DeviceInv'
  BY <1>1, <1>2, <1>5 DEF Inv, Types, DeviceInv
<1>7. CASE ~Idle
  BY <1>6, <1>7 DEF Inv, OnCourse, Anything
<1>8. CASE Idle
  <2>1. Lands /\ Kept
    BY <1>1, <1>8, IdleFacts
  <2>2. want' = ToPower(dev'.power)
    BY <1>8
  <2>3. PICK g : g = ToPower(dev'.power)
    OBVIOUS
  <2>4. PICK dir \in Directions : TRUE
    BY DEF Directions
  <2>5. /\ g.power = {dev'.power} /\ g.dir = want.dir /\ g.preset = want.preset
        /\ g.set = want.set /\ g.clamped = want.clamped
    BY <1>3, <2>3, <2>4, GoalIs
  <2>6. /\ want'.power = {dev'.power} /\ want'.dir = want.dir
        /\ want'.preset = want.preset
        /\ want'.set = want.set /\ want'.clamped = want.clamped
    BY <2>2, <2>3, <2>5
  <2>7. Meant(dev.mode)'
    BY <1>2, <2>1, <2>6 DEF Lands, Meant
  <2>8. data.power = dev.power /\ (dev.power => data.mode = dev.mode)
    BY <1>1, ReportedFacts
  <2>9. ASSUME dev.power PROVE OffMemory'
    <3>1. data.mode = dev.mode /\ data.power /\ Meant(dev.mode) /\ (InStep \/ Open)
      BY <2>1, <2>8, <2>9 DEF Lands, Memory, Heard
    <3>2. /\ dev.mode.dir \in Directions /\ dev.mode.preset \in Spoken
          /\ dev.mode.dir = "heat_cool" <=> dev.mode = AutoMode
          /\ last.preset \in Presets /\ last.dir \in Directions
      BY StateFacts DEF Inv
    <3>3. CASE Open
      BY <1>1, <2>6, <3>1, <3>2, <3>3, NormSpoken DEF Open, OffMemory, Recalls, Presets
    <3>4. CASE InStep
      <4>1. last.dir = dev.mode.dir
            /\ (dev.mode.dir \in {"heat", "cool"} => last.preset = dev.mode.preset)
        BY <3>1, <3>2, <3>4 DEF InStep, Synced
      <4>2. Norm(last.preset) \in want.preset
        <5>1. CASE dev.mode.dir = "heat_cool"
          BY <2>1, <2>9, <3>1, <3>2, <5>1, NormSpoken, AutoFacts
             DEF Meant, Lands, Memory, Remembers, Recalls
        <5>2. CASE dev.mode.dir \in {"heat", "cool"}
          BY <3>1, <3>2, <4>1, <5>2, NormSpoken DEF Meant
        <5>. QED  BY <3>2, <5>1, <5>2 DEF Directions
      <4>. QED  BY <1>1, <2>6, <3>1, <3>2, <4>1, <4>2, AutoFacts
                DEF OffMemory, Recalls, Meant
    <3>. QED  BY <3>1, <3>3, <3>4
  <2>10. Memory'
    <3>1. ASSUME ~dev.power, dev.mode.dir = "heat_cool" PROVE Remembers'
      BY <1>1, <1>2, <2>1, <2>6, <3>1
         DEF Lands, Meant, Memory, OffMemory, Recalls, Remembers
    <3>. QED  BY <1>1, <1>2, <2>8, <2>9, <3>1 DEF Memory, Heard
  <2>11. Lands'
    BY <2>6, <2>7, <2>10 DEF Lands
  <2>12. Kept'
    BY <2>1, <2>6 DEF Kept
  <2>13. Idle'
    BY <1>1, <1>8 DEF Idle
  <2>. QED  BY <1>1, <1>6, <2>11, <2>12, <2>13, IdleCourse DEF Inv
<1>. QED  BY <1>7, <1>8

(* The panel's modes.                                                      *)
LEMMA PanelMode ==
  ASSUME Inv, Panel, NEW mode \in Modes \ {dev.mode},
         dev' = [dev EXCEPT !.mode = mode, !.set = mem[mode.dir]],
         want' = IF Idle
                 THEN [want EXCEPT
                        !.dir = IF dev.power THEN {mode.dir} ELSE @ \cup {mode.dir},
                        !.preset = IF dev.power /\ mode # AutoMode THEN {mode.preset}
                                   ELSE IF mode = AutoMode THEN OrNone(@)
                                   ELSE @ \cup {mode.preset}]
                 ELSE Anything,
         mem' = mem
  PROVE  Inv'
<1>1. /\ restoring = {} /\ data = Reported /\ calls < MaxCalls /\ calls' = calls + 1
      /\ UNCHANGED <<keeps, restoring, data, last, plan>>
  BY DEF Panel, Call
<1>2. mode.dir \in Directions /\ mode.preset \in Presets /\ mode \in Modes
  BY ModeFacts, NormSpoken
<1>3. mem[mode.dir] \in Setpoints
  BY <1>2 DEF Inv, Types
<1>4. /\ dev' \in States(Modes) /\ dev'.mode = mode /\ dev'.set = mem[mode.dir]
      /\ dev'.power = dev.power
  BY <1>2, <1>3 DEF Inv, Types, States
<1>5. PICK d, s :
        /\ d = IF dev.power THEN {mode.dir} ELSE want.dir \cup {mode.dir}
        /\ s = IF dev.power /\ mode # AutoMode THEN {mode.preset}
               ELSE IF mode = AutoMode THEN OrNone(want.preset) ELSE want.preset \cup {mode.preset}
  OBVIOUS
<1>6. /\ want \in Wants /\ d \in SUBSET Directions /\ s \in SUBSET Presets
      /\ ~dev.power \/ mode = AutoMode => want.preset \subseteq s
      /\ mode.preset \in s
  <2>1. want \in Wants /\ want.preset \in SUBSET Presets
    BY DEF Inv, Types, Wants
  <2>2. /\ OrNone(want.preset) \in SUBSET Presets
        /\ want.preset \subseteq OrNone(want.preset)
        /\ "none" \in OrNone(want.preset)
    BY <2>1, OrNoneFacts
  <2>. QED  BY <1>2, <1>5, <2>1, <2>2, AutoFacts DEF Wants
<1>7. Idle => want' = [want EXCEPT !.dir = d, !.preset = s]
  BY <1>5
<1>8. want' \in Wants /\ calls' \in 0 .. MaxCalls
  <2>1. calls' \in 0 .. MaxCalls
    BY <1>1, EntitiesAssumption DEF Inv, Types
  <2>2. [want EXCEPT !.dir = d, !.preset = s] \in Wants
    BY <1>6 DEF Wants
  <2>3. want' \in Wants
    <3>1. CASE Idle
      BY <1>7, <2>2, <3>1
    <3>2. CASE ~Idle
      BY <3>2, AnythingTypes
    <3>. QED  BY <3>1, <3>2
  <2>. QED  BY <2>1, <2>3
<1>9. Types' /\ DeviceInv'
  BY <1>1, <1>4, <1>8 DEF Inv, Types, DeviceInv
<1>10. CASE ~Idle
  BY <1>9, <1>10 DEF Inv, OnCourse, Anything
<1>11. CASE Idle
  <2>1. Lands /\ Kept
    BY <1>1, <1>11, IdleFacts
  <2>2. /\ want'.power = want.power /\ want'.dir = d /\ want'.preset = s
        /\ want'.set = want.set /\ want'.clamped = want.clamped
    BY <1>6, <1>7, <1>11 DEF Wants
  <2>3. Meant(dev.mode)'
    BY <1>2, <1>4, <1>5, <1>6, <2>2 DEF Meant
  <2>4. data.power = dev.power /\ (dev.power => data.mode = dev.mode)
    BY <1>1, ReportedFacts
  <2>5. ASSUME ~dev.power PROVE OffMemory'
    <3>1. OffMemory /\ d = want.dir \cup {mode.dir} /\ ~data.power
      BY <1>5, <2>1, <2>4, <2>5 DEF Lands, Memory
    <3>. QED  BY <1>1, <1>6, <2>2, <2>5, <3>1 DEF OffMemory, Recalls
  <2>6. Memory'
    <3>1. ASSUME dev.power, mode.dir = "heat_cool" PROVE Remembers'
      <4>1. mode = AutoMode /\ dev.mode.dir \in {"heat", "cool"}
        BY <3>1, StateFacts, ModeFacts DEF Inv, Directions
      <4>2. data.mode = dev.mode /\ dev.mode.preset \in want.preset /\ (InStep \/ Open)
        BY <2>1, <2>4, <3>1 DEF Lands, Meant, Memory, Heard
      <4>3. Recalls
        BY <2>4, <3>1, <4>1, <4>2, StateFacts, NormSpoken
           DEF InStep, Synced, Open, Recalls, Inv
      <4>. QED  BY <1>1, <1>4, <1>6, <2>2, <4>1, <4>2, <4>3 DEF Remembers, Recalls
    <3>. QED  BY <1>1, <1>4, <2>4, <2>5, <3>1 DEF Memory, Heard
  <2>7. Lands'
    BY <1>4, <2>1, <2>2, <2>3, <2>6 DEF Lands
  <2>8. Kept'
    BY <2>1, <2>2 DEF Kept
  <2>9. Idle'
    BY <1>1, <1>11 DEF Idle
  <2>. QED  BY <1>1, <1>9, <2>7, <2>8, <2>9, IdleCourse DEF Inv
<1>. QED  BY <1>10, <1>11

LEMMA PanelStep ==
  ASSUME Inv, Panel
  PROVE  Inv'
BY PanelPower, PanelMode DEF Panel

(* A restart: the preset that the memory found leads to may be meant.      *)
LEMMA RecalledFacts ==
  ASSUME Types, NEW l \in Memories, NEW d \in States(Modes \cup {Unknown}), NEW w,
         w = Recalled(l, d)
  PROVE  /\ w \in Wants
         /\ w.power = want.power /\ w.set = want.set /\ w.clamped = want.clamped
         /\ want.dir \subseteq w.dir /\ want.preset \subseteq w.preset
         /\ l.preset # "none" => Norm(l.preset) \in w.preset
         /\ d.mode = Unknown => l.dir \in w.dir /\ "none" \in w.preset
<1>1. PICK x : x = want.preset \cup {Norm(Carried(l, d))}
  OBVIOUS
<1>2. /\ want \in Wants /\ x \in SUBSET Presets
      /\ OrNone(x) \in SUBSET Presets /\ x \subseteq OrNone(x) /\ "none" \in OrNone(x)
  <2>1. want \in Wants /\ x \in SUBSET Presets
    BY <1>1, NormSpoken DEF Types, Wants
  <2>. QED  BY <2>1, OrNoneFacts
<1>3. w = IF d.mode = Unknown
          THEN [want EXCEPT !.dir = want.dir \cup {l.dir}, !.preset = OrNone(x)]
          ELSE [want EXCEPT !.preset = x]
  BY <1>1, ModeStringPreset DEF Recalled
<1>4. l.preset # "none" => Norm(l.preset) \in x
  BY <1>1 DEF Carried
<1>5. l.dir \in Directions /\ want.preset \subseteq x
  BY <1>1 DEF Memories
<1>6. CASE d.mode = Unknown
  <2>1. PICK e, y : e = want.dir \cup {l.dir} /\ y = OrNone(x)
    OBVIOUS
  <2>2. /\ want.dir \subseteq e /\ l.dir \in e /\ e \in SUBSET Directions
        /\ want.preset \subseteq y /\ y \in SUBSET Presets /\ "none" \in y
        /\ l.preset # "none" => Norm(l.preset) \in y
    BY <1>2, <1>4, <1>5, <2>1 DEF Wants
  <2>3. w = [want EXCEPT !.dir = e, !.preset = y]
    BY <1>3, <1>6, <2>1
  <2>4. /\ w.power = want.power /\ w.set = want.set /\ w.clamped = want.clamped
        /\ w.dir = e /\ w.preset = y /\ w \in Wants
    BY <1>2, <2>2, <2>3 DEF Wants
  <2>. QED  BY <2>2, <2>4
<1>7. CASE d.mode # Unknown
  BY <1>2, <1>3, <1>4, <1>5, <1>7 DEF Wants
<1>. QED  BY <1>6, <1>7

LEMMA RestartStep ==
  ASSUME Inv, Restart
  PROVE  Inv'
<1>1. /\ restoring = {} /\ calls < MaxCalls /\ calls' = calls + 1
      /\ plan' = [p \in Platforms |-> <<>>]
      /\ data' = (IF dev.power \/ keeps THEN dev ELSE [dev EXCEPT !.mode = Unknown])
      /\ UNCHANGED <<dev, mem, keeps, restoring>>
  BY DEF Restart, Call
<1>2. PICK memory \in Memories :
        /\ last' = Synced(memory, data')
        /\ want' = IF ~Idle THEN Anything
                   ELSE IF memory = last THEN want ELSE Recalled(last', data')
  BY DEF Restart, Memories
<1>3. /\ data' \in States(Modes \cup {Unknown}) /\ data'.power = dev.power
      /\ data'.mode = IF dev.power \/ keeps THEN dev.mode ELSE Unknown
      /\ dev.mode # Unknown
  BY <1>1, StateFacts, ModeFacts DEF Inv, Types, States
<1>4. last' \in Memories /\ InStep' /\ (~dev.power => last' = memory)
  BY <1>2, <1>3, SyncedTypes, SyncedTwice DEF InStep
<1>5. PICK w : w = Recalled(last', data')
  OBVIOUS
<1>6. /\ w \in Wants
      /\ w.power = want.power /\ w.set = want.set /\ w.clamped = want.clamped
      /\ want.dir \subseteq w.dir /\ want.preset \subseteq w.preset
      /\ last'.preset # "none" => Norm(last'.preset) \in w.preset
      /\ data'.mode = Unknown => last'.dir \in w.dir /\ "none" \in w.preset
  BY <1>3, <1>4, <1>5, RecalledFacts DEF Inv
<1>7. want' \in Wants /\ calls' \in 0 .. MaxCalls
  BY <1>1, <1>2, <1>5, <1>6, AnythingTypes, EntitiesAssumption DEF Inv, Types
<1>8. plan' \in [Platforms -> Seq(Frames)] /\ Idle'
  BY <1>1, EmptySeq DEF Idle
<1>9. Types' /\ DeviceInv'
  BY <1>1, <1>3, <1>4, <1>7, <1>8 DEF Inv, Types, DeviceInv
<1>10. CASE ~Idle
  BY <1>2, <1>9, <1>10 DEF Inv, OnCourse, Anything
<1>11. CASE Idle
  <2>1. Lands /\ Kept /\ Meant(dev.mode) /\ Memory
    BY <1>1, <1>11, IdleFacts DEF Lands
  <2>2. CASE memory # last
    <3>1. want' = w
      BY <1>2, <1>5, <1>11, <2>2
    <3>2. Meant(dev.mode)'
      BY <1>1, <1>6, <2>1, <3>1 DEF Meant
    <3>3. Recalls' /\ (data'.mode # Unknown => data'.mode.preset \in want'.preset)
      BY <1>1, <1>3, <1>6, <3>1, <3>2 DEF Recalls, Meant
    <3>4. ASSUME ~dev.power PROVE OffMemory'
      BY <1>1, <1>3, <1>6, <3>1, <3>3, <3>4, NormSpoken DEF OffMemory, Recalls
    <3>5. Lands' /\ Kept'
      BY <1>1, <1>4, <1>6, <2>1, <3>1, <3>2, <3>3, <3>4
         DEF Lands, Meant, Memory, Remembers, Kept
    <3>. QED  BY <1>1, <1>8, <1>9, <3>5, IdleCourse DEF Inv
  <2>3. CASE memory = last
    <3>1. want' = want /\ last' = Synced(last, data')
      BY <1>2, <1>11, <2>3
    <3>2. ASSUME ~dev.power PROVE OffMemory'
      <4>1. OffMemory /\ last' = last
        BY <1>4, <2>1, <2>3, <3>2 DEF Memory
      <4>. QED  BY <1>1, <1>3, <2>1, <3>1, <3>2, <4>1 DEF OffMemory, Recalls, Meant
    <3>3. ASSUME dev.power, dev.mode.dir = "heat_cool" PROVE Remembers'
      <4>1. Recalls /\ dev.mode.preset \in want.preset /\ data'.mode = dev.mode
        BY <1>3, <2>1, <3>3 DEF Memory, Remembers
      <4>2. last'.preset = last.preset
        BY <3>1, <3>3, <4>1 DEF Synced
      <4>. QED  BY <1>1, <3>1, <4>1, <4>2 DEF Remembers, Recalls
    <3>4. Lands' /\ Kept'
      BY <1>1, <1>4, <2>1, <3>1, <3>2, <3>3 DEF Lands, Meant, Memory, Kept
    <3>. QED  BY <1>1, <1>8, <1>9, <3>4, IdleCourse DEF Inv
  <2>. QED  BY <2>2, <2>3
<1>. QED  BY <1>10, <1>11

-----------------------------------------------------------------------------
(* The invariant holds from the first state on.                            *)

LEMMA InitInv == Init => Inv
<1>. SUFFICES ASSUME Init PROVE Inv
  OBVIOUS
<1>1. PICK temp \in Temps : mem = [dir \in Directions |-> Clip(temp, dir)]
  BY DEF Init
<1>2. /\ keeps \in BOOLEAN
      /\ dev = [power |-> TRUE, mode |-> Mode("heat", "none"), set |-> mem["heat"]]
      /\ data = dev /\ last = Mode("heat", "none")
      /\ restoring = {} /\ plan = [p \in Platforms |-> <<>>]
      /\ want = [power |-> {TRUE}, dir |-> {"heat"}, preset |-> {"none"},
                 set |-> [dir \in Directions |-> {mem[dir]}], clamped |-> {}]
      /\ calls = 0
  BY DEF Init
<1>3. temp \in Int /\ temp \in Setpoints
  BY EntitiesAssumption DEF Setpoints
<1>4. /\ mem \in [Directions -> Setpoints]
      /\ \A dir \in Directions : InRange(mem[dir], dir)
  BY <1>1, <1>3, SetpointFacts, ClipFacts
<1>5. PICK mode \in Modes : mode = Mode("heat", "none")
  BY EntitiesAssumption DEF Modes
<1>6. mode.dir = "heat" /\ mode.preset = "none" /\ mode # AutoMode
  BY <1>5 DEF Mode, AutoMode
<1>7. "heat" \in Directions /\ "none" \in Presets
  BY DEF Directions, Presets
<1>8. mode \in Memories
  BY <1>5, <1>7 DEF Mode, Memories
<1>9. /\ dev \in States(Modes) /\ data \in States(Modes \cup {Unknown})
      /\ dev.mode = mode /\ dev.power = TRUE /\ dev.set = mem["heat"]
  BY <1>2, <1>4, <1>5, <1>7 DEF States
<1>10. want \in Wants
  BY <1>2, <1>4, <1>7 DEF Wants
<1>11. plan \in [Platforms -> Seq(Frames)] /\ Idle
  BY <1>2, EmptySeq DEF Idle
<1>12. Types
  BY <1>2, <1>4, <1>5, <1>8, <1>9, <1>10, <1>11, EntitiesAssumption DEF Types
<1>13. DeviceInv
  BY <1>2, <1>4, <1>6, <1>9, <1>12, StateFacts, ModeFacts DEF DeviceInv
<1>14. InStep
  BY <1>2, <1>5, <1>6, <1>9 DEF InStep, Synced, Mode
<1>15. Lands /\ Kept
  BY <1>2, <1>6, <1>9, <1>14 DEF Lands, Meant, Memory, Kept
<1>16. PICK p \in Platforms : TRUE
  BY DEF Platforms
<1>17. Alone(p) /\ Ready(plan[p])
  BY <1>2, <1>15 DEF Alone, Ready, KeptAfter
<1>. QED  BY <1>12, <1>13, <1>17 DEF Inv, OnCourse, Course

LEMMA InvStep == Inv /\ [Next]_vars => Inv'
<1>. SUFFICES ASSUME Inv, [Next]_vars PROVE Inv'
  OBVIOUS
<1>1. ASSUME NEW dir \in Directions, ClimateSetHvacMode(dir) PROVE Inv'
  BY <1>1, SetHvacModeStep
<1>2. ASSUME NEW dir \in Directions, SelectMode(dir) PROVE Inv'
  BY <1>2, SelectModeStep
<1>3. CASE ClimateTurnOff
  BY <1>3, PowerStep DEF ClimateTurnOff, Platforms
<1>4. CASE ClimateTurnOn
  BY <1>4, TurnOnStep
<1>5. CASE SelectOff
  BY <1>5, PowerStep DEF SelectOff, Platforms
<1>6. ASSUME NEW preset \in Presets, ClimateSetPreset(preset) PROVE Inv'
  BY <1>6, SetPresetStep
<1>7. ASSUME NEW preset \in Presets, SelectPreset(preset) PROVE Inv'
  BY <1>7, SelectPresetStep
<1>8. ASSUME NEW temp \in Temps, ClimateSetTemperature(temp) PROVE Inv'
  BY <1>8, SetTemperatureStep
<1>9. ASSUME NEW temp \in Temps, NumberSet(temp) PROVE Inv'
  BY <1>9, NumberSetStep
<1>10. ASSUME NEW on \in BOOLEAN, SwitchPower(on) PROVE Inv'
  BY <1>10, PowerStep DEF SwitchPower, Platforms
<1>11. ASSUME NEW p \in Platforms, WriteSucceeds(p) PROVE Inv'
  BY <1>11, WriteStep
<1>12. ASSUME NEW p \in Platforms, WriteFails(p) PROVE Inv'
  BY <1>12, FailStep
<1>13. ASSUME NEW p \in Platforms, SettleEnds(p) PROVE Inv'
  BY <1>13, SettleStep
<1>14. ASSUME NEW p \in Platforms, Restore(p) PROVE Inv'
  BY <1>14, RestoreStep
<1>15. CASE Update
  BY <1>15, UpdateStep
<1>16. CASE Panel
  BY <1>16, PanelStep
<1>17. CASE Restart
  BY <1>17, RestartStep
<1>18. CASE UNCHANGED vars
  <2>1. UNCHANGED <<dev, mem, keeps, restoring, data, last, plan, want, calls>>
    BY <1>18 DEF vars
  <2>2. Types' /\ DeviceInv'
    BY <2>1 DEF Inv, Types, DeviceInv
  <2>3. \A r, d : KeptAfter(r, d) <=> KeptAfter(r, d)'
    BY <2>1 DEF KeptAfter, KeptBut, Kept
  <2>4. \A mode : Meant(mode) <=> Meant(mode)'
    BY <2>1 DEF Meant
  <2>5. Memory <=> Memory'
    BY <2>1 DEF Memory, OffMemory, Recalls, Remembers, Heard, InStep, Open
  <2>6. \A mode, r : Turning(mode, r) <=> Turning(mode, r)'
    BY <2>1, <2>3, <2>4 DEF Turning, Recalls, Remembers
  <2>7. \A q : Ready(q) => Ready(q)'
    BY <2>1, <2>3, <2>4, <2>5 DEF Ready, Lands
  <2>8. \A q : Switching(q) => Switching(q)'
    BY <2>1, <2>3, <2>4, <2>5 DEF Switching, Heard, InStep
  <2>9. \A q : Presetting(q) => Presetting(q)'
    BY <2>1, <2>4 DEF Presetting, Kept
  <2>10. \A q : PoweringOn(q) => PoweringOn(q)'
    BY <2>1, <2>6 DEF PoweringOn
  <2>11. \A q : PoweredOn(q) => PoweredOn(q)'
    BY <2>1, <2>6 DEF PoweredOn
  <2>12. \A q : Turned(q) => Turned(q)'
    BY <2>1, <2>6 DEF Turned, Heard, InStep
  <2>13. \A q : Course(q) => Course(q)'
    BY <2>7, <2>8, <2>9, <2>10, <2>11, <2>12 DEF Course
  <2>14. OnCourse'
    BY <2>1, <2>13 DEF Inv, OnCourse, Alone, Anything
  <2>. QED  BY <2>2, <2>14 DEF Inv
<1>. QED  BY <1>1, <1>2, <1>3, <1>4, <1>5, <1>6, <1>7, <1>8, <1>9, <1>10, <1>11,
     <1>12, <1>13, <1>14, <1>15, <1>16, <1>17, <1>18 DEF Next

(* Whatever is under way is on a course that ends where it was meant to,   *)
(* or nothing is expected of it: two services that met, a write that       *)
(* failed, a use of the panel in between.                                  *)
THEOREM CoursesHold == Spec => []Inv
<1>. QED  BY InitInv, InvStep, PTL DEF Spec

(* Every variable keeps its type.                                          *)
THEOREM EntitiesTypes == Spec => []TypeOK
<1>1. Inv => TypeOK
  <2>. SUFFICES ASSUME Inv PROVE TypeOK
    OBVIOUS
  <2>1. DOMAIN want = DOMAIN Anything
    BY DEF Inv, Types, Wants, Anything
  <2>. QED  BY <2>1 DEF Inv, Types, TypeOK, States, Memories
<1>. QED  BY <1>1, CoursesHold, PTL

(* A service that had the device to itself and ended without an error has  *)
(* brought it where it was meant to (entity.py:77-113): power and mode go  *)
(* out in frames of their own, so the device never reverts them.           *)
THEOREM ServicesLand == Spec => []ModeLands
<1>1. Inv => ModeLands
  BY CalmFacts DEF ModeLands, Lands, Meant
<1>. QED  BY <1>1, CoursesHold, PTL

(* The user's preset survives a change between heating and cooling, a      *)
(* switch-off and a restart, whichever entity makes it (climate.py:184-217,*)
(* select.py:174-205). After Auto it may be plain instead; a preset set    *)
(* while off, the select where the mode is unknown, and a start with       *)
(* another memory than the last add a preset that may come, as             *)
(* PresetCarried says.                                                     *)
THEOREM PresetSurvives == Spec => []PresetCarried
<1>1. Inv => PresetCarried
  BY CalmFacts DEF PresetCarried, Lands, Meant
<1>. QED  BY <1>1, CoursesHold, PTL

(* A setpoint that was set is what the direction keeps, but where the one  *)
(* shown had to be clamped: the write waits for the device's own restoring *)
(* (climate.py:222-226, 270-288).                                          *)
THEOREM SetpointSurvives == Spec => []SetpointKept
<1>1. Inv => SetpointKept
  BY CalmFacts DEF SetpointKept, Kept
<1>. QED  BY <1>1, CoursesHold, PTL
=============================================================================
