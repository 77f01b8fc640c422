-------------------------- MODULE CoordinatorProofs --------------------------
(***************************************************************************)
(* Theorems about module Coordinator, for any fault table, any debounce    *)
(* window and any scan interval.                                           *)
(***************************************************************************)
EXTENDS Coordinator, TLAPS

(* The session's four steps, as seen by the phase alone.                   *)
LEMMA SessionSteps ==
  /\ Session!Init => phase = "off"
  /\ Session!Start => phase = "off" /\ phase' = "on"
  /\ Session!Lose => phase = "on" /\ phase' = "lost"
  /\ Session!Heal => phase = "lost" /\ phase' = "on"
  /\ Session!Stop => phase # "off" /\ phase' = "off"
BY DEF Session!Init, Session!Start, Session!Lose, Session!Heal, Session!Stop

(* What one pass of reconcile() does to well-typed faults: the types hold, *)
(* and what it then takes for open is open, comes from this very reading   *)
(* and has waited for the window, if it had to.                            *)
LEMMA ReconcileKnows ==
  ASSUME FaultsTypeOK, active \subseteq cards,
         NEW fault \in SUBSET Coded, Reconcile(fault)
  PROVE  /\ FaultsTypeOK'
         /\ active' \subseteq cards' \cap fault
         /\ Flow \in active' => seen' = Debounce
<1>1. seen' \in Unseen .. Debounce
  BY FaultsAssumption DEF FaultsTypeOK, Reconcile, FirstSeen, Unseen
<1>2. active' \subseteq fault
  BY DEF Reconcile, Eligible
<1>3. active' \subseteq cards' /\ cards' \subseteq Coded
  BY <1>2 DEF FaultsTypeOK, Reconcile
<1>4. Flow \in active' => seen' = Debounce
  <2>1. Flow \in active' => seen' >= Debounce
    BY DEF Reconcile, Eligible
  <2>. QED  BY <1>1, <2>1, FaultsAssumption DEF Unseen
<1>. QED  BY <1>1, <1>2, <1>3, <1>4 DEF FaultsTypeOK

(* An age that is in range stays in range as time passes.                  *)
LEMMA OlderInRange ==
  ASSUME NEW age \in Unseen .. Debounce
  PROVE  Older(age) \in Unseen .. Debounce
BY FaultsAssumption DEF Older, Unseen

-----------------------------------------------------------------------------
(* The invariant in three parts, which the steps keep apart: where the     *)
(* entry, its session and its tasks are; the clocks; faults and cards.     *)

PhaseInv ==
  /\ phase \in {"off", "on", "lost"} /\ entry \in {"off", "first", "on"}
  /\ success \in BOOLEAN /\ wanted \in BOOLEAN /\ refused \in BOOLEAN
  /\ poll \in {"idle", "waiting", "answered"} /\ write \in {"none", "acked"}
  /\ poll = "answered" => entry # "off"
  /\ NoOrphanSession

ClockInv == due \in Never .. Interval

CardInv ==
  /\ FaultsTypeOK
  /\ dev \subseteq Coded /\ data \subseteq Coded /\ reply \subseteq Coded
  /\ CardsKnown

(* The entry, its session and its tasks: one step per action.              *)
LEMMA PhaseStep == PhaseInv /\ [Next]_vars => PhaseInv'
<1> SUFFICES ASSUME PhaseInv, [Next]_vars PROVE PhaseInv'
  OBVIOUS
<1> USE SessionSteps DEF PhaseInv, NoOrphanSession, session
<1>1. CASE Setup
  BY <1>1 DEF Setup
<1>2. CASE FirstRefreshFails
  BY <1>2 DEF FirstRefreshFails, Release
<1>3. CASE Unload
  BY <1>3 DEF Unload, Release
<1>4. CASE PollStart
  BY <1>4 DEF PollStart
<1>5. CASE PollAnswered
  BY <1>5 DEF PollAnswered
<1>6. CASE PollDone
  BY <1>6 DEF PollDone
<1>7. CASE PollFails
  BY <1>7 DEF PollFails
<1>8. CASE Telemetry
  BY <1>8 DEF Telemetry, HandlePush
<1>9. CASE DeviceChanges
  BY <1>9 DEF DeviceChanges, HandlePush
<1>10. CASE Drop
  BY <1>10 DEF Drop
<1>11. CASE Heal
  BY <1>11 DEF Heal
<1>12. CASE WriteAcked
  BY <1>12 DEF WriteAcked
<1>13. CASE WriteEnds
  BY <1>13 DEF WriteEnds
<1>14. CASE Tick
  BY <1>14 DEF Tick
<1>15. CASE PollRefused
  BY <1>15 DEF PollRefused
<1>16. CASE UNCHANGED vars
  BY <1>16 DEF vars
<1>. QED
  BY <1>1, <1>2, <1>3, <1>4, <1>5, <1>6, <1>7, <1>8, <1>9, <1>10, <1>11,
     <1>12, <1>13, <1>14, <1>15, <1>16 DEF Next

(* The poll timer.                                                         *)
LEMMA ClockStep == ClockInv /\ [Next]_vars => ClockInv'
<1> SUFFICES ASSUME ClockInv, [Next]_vars PROVE ClockInv'
  OBVIOUS
<1> USE CoordinatorAssumption DEF ClockInv, Never
<1>1. CASE \/ Setup \/ PollStart \/ PollAnswered \/ PollRefused
          \/ Drop \/ Heal \/ WriteAcked \/ Telemetry
  BY <1>1 DEF Setup, PollStart, PollAnswered, PollRefused, Drop, Heal, WriteAcked,
     Telemetry, HandlePush
<1>2. CASE FirstRefreshFails \/ Unload
  BY <1>2 DEF FirstRefreshFails, Unload, Release
<1>3. CASE PollDone \/ PollFails \/ WriteEnds
  BY <1>3 DEF PollDone, PollFails, WriteEnds
<1>4. CASE DeviceChanges
  BY <1>4 DEF DeviceChanges, HandlePush
<1>5. CASE Tick
  BY <1>5 DEF Tick
<1>6. CASE UNCHANGED vars
  BY <1>6 DEF vars
<1>. QED
  BY <1>1, <1>2, <1>3, <1>4, <1>5, <1>6 DEF Next

(* Every action either processes a reading, drops the coordinator, or      *)
(* leaves faults and cards alone; time only makes sightings older.         *)
LEMMA CardStep == CardInv /\ [Next]_vars => CardInv'
<1> SUFFICES ASSUME CardInv, [Next]_vars PROVE CardInv'
  OBVIOUS
<1> USE DEF CardInv
(* A reading is processed: the lemma on reconcile() says it all.           *)
<1>1. ASSUME NEW fault \in SUBSET Coded, ProcessState(fault),
             dev' \subseteq Coded, reply' \subseteq Coded
      PROVE  CardInv'
  <2>1. data' = fault /\ Reconcile(fault)
    BY <1>1 DEF ProcessState
  <2>2. active \subseteq cards
    BY DEF CardsKnown
  <2>3. /\ FaultsTypeOK' /\ active' \subseteq cards' \cap fault
        /\ Flow \in active' => seen' = Debounce
    BY <2>1, <2>2, ReconcileKnows
  <2>. QED  BY <1>1, <2>1, <2>3 DEF CardsKnown
<1>2. CASE \/ Setup \/ PollStart \/ PollAnswered \/ PollFails \/ PollRefused
          \/ Drop \/ Heal \/ WriteAcked
  BY <1>2 DEF Setup, PollStart, PollAnswered, PollFails, PollRefused, Drop, Heal,
     WriteAcked, faultVars, FaultsTypeOK, CardsKnown
<1>3. CASE FirstRefreshFails \/ Unload
  BY <1>3, FaultsAssumption
  DEF FirstRefreshFails, Unload, Release, Forget, FaultsTypeOK, CardsKnown, Unseen
<1>4. CASE PollDone
  BY <1>1, <1>4 DEF PollDone
<1>5. CASE Telemetry
  BY <1>1, <1>5 DEF Telemetry, HandlePush
<1>6. CASE DeviceChanges
  <2>1. PICK fault \in SUBSET Coded :
          /\ dev' = fault
          /\ \/ phase = "on" /\ HandlePush(fault)
             \/ UNCHANGED <<faultVars, data, success, due>>
    BY <1>6 DEF DeviceChanges
  <2>2. reply' \subseteq Coded
    BY <1>6 DEF DeviceChanges
  <2>3. CASE HandlePush(fault)
    BY <1>1, <2>1, <2>2, <2>3 DEF HandlePush
  <2>4. CASE UNCHANGED <<faultVars, data, success, due>>
    BY <2>1, <2>2, <2>4 DEF faultVars, FaultsTypeOK, CardsKnown
  <2>. QED  BY <2>1, <2>3, <2>4
<1>7. CASE WriteEnds
  BY <1>1, <1>7 DEF WriteEnds
<1>8. CASE Tick
  <2>1. seen' \in Unseen .. Debounce
    BY <1>8, OlderInRange DEF Tick, FaultsTypeOK
  <2>2. seen = Debounce => seen' = Debounce
    BY <1>8 DEF Tick, Older
  <2>. QED  BY <1>8, <2>1, <2>2 DEF Tick, FaultsTypeOK, CardsKnown
<1>9. CASE UNCHANGED vars
  BY <1>9 DEF vars, faultVars, FaultsTypeOK, CardsKnown
<1>. QED
  BY <1>2, <1>3, <1>4, <1>5, <1>6, <1>7, <1>8, <1>9 DEF Next

EntryInv == PhaseInv /\ ClockInv /\ CardInv

(* It holds before the entry is set up.                                    *)
LEMMA EntryInit == Init => EntryInv
<1> SUFFICES ASSUME Init PROVE EntryInv
  OBVIOUS
<1>1. PhaseInv
  BY SessionSteps DEF Init, PhaseInv, NoOrphanSession
<1>2. ClockInv
  BY FaultsAssumption, CoordinatorAssumption DEF Init, ClockInv, Never
<1>3. CardInv
  BY FaultsAssumption DEF Init, CardInv, FaultsTypeOK, CardsKnown, Unseen
<1>. QED  BY <1>1, <1>2, <1>3 DEF EntryInv

(* The inductive invariant of a config entry.                              *)
THEOREM EntryInvariant == Spec => []EntryInv
<1>1. EntryInv /\ [Next]_vars => EntryInv'
  BY PhaseStep, ClockStep, CardStep DEF EntryInv
<1>. QED  BY EntryInit, <1>1, PTL DEF Spec

-----------------------------------------------------------------------------
(* Type correctness, for any fault table, window and interval.             *)
THEOREM TypeCorrect == Spec => []TypeOK
<1>1. EntryInv => TypeOK
  BY DEF EntryInv, PhaseInv, ClockInv, CardInv, TypeOK
<1>. QED  BY EntryInvariant, <1>1, PTL

(* A config entry that is not set up has no session, and one that is has   *)
(* one: neither a failing setup nor an unload leaks it (__init__.py).      *)
THEOREM NoSessionLeak == Spec => []NoOrphanSession
<1>1. EntryInv => NoOrphanSession
  BY DEF EntryInv, PhaseInv
<1>. QED  BY EntryInvariant, <1>1, PTL

(* What the reconciler takes for open is open, is a fault of the last      *)
(* published reading, and has waited for the window if it is water flow.   *)
THEOREM CardsAccounted == Spec => []CardsKnown
<1>1. EntryInv => CardsKnown
  BY DEF EntryInv, CardInv
<1>. QED  BY EntryInvariant, <1>1, PTL

=============================================================================
