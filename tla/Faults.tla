------------------------------- MODULE Faults -------------------------------
(***************************************************************************)
(* FaultReconciler (_faults.py): which Repair cards are open, given the    *)
(* fault bitmap of each reading. The registry of cards belongs to Home     *)
(* Assistant and outlives the reconciler, which is made anew at each setup.*)
(***************************************************************************)
EXTENDS Integers

CONSTANTS
  Coded,    \* the fault bits the layout's table has a service code for
  Flow,     \* the debounced bit, water flow
  Debounce  \* E03_DEBOUNCE_SECONDS, in ticks of the clock

ASSUME FaultsAssumption == Debounce \in Nat \ {0}

VARIABLES
  active,   \* _active_issues
  seen,     \* ticks since _first_seen[Flow], at most Debounce; else Unseen
  cards     \* the fault issues in Home Assistant's issue registry

faultVars == <<active, seen, cards>>

Unseen == -1

FaultsTypeOK ==
  /\ active \subseteq Coded /\ cards \subseteq Coded
  /\ seen \in Unseen .. Debounce

(* Mutant of FirstSeen: every sighting counts as the first.                *)
LastSeen(fault) == IF Flow \in fault THEN 0 ELSE Unseen

(* The age of the first sighting of Flow once fault has been read. Only    *)
(* the debounced bit's entry of _first_seen is ever looked at.             *)
FirstSeen(fault) ==
  IF Flow \notin fault THEN Unseen ELSE IF seen = Unseen THEN 0 ELSE seen

(* The faults that deserve a card, if Flow was first sighted t ticks ago.  *)
Eligible(fault, t) == IF t >= Debounce THEN fault ELSE fault \ {Flow}

(* Mutant of Reconcile: cards are opened and never closed.                 *)
ReconcileKeeps(fault) ==
  /\ seen' = FirstSeen(fault)
  /\ active' = active \cup Eligible(fault, FirstSeen(fault))
  /\ cards' = cards \cup active'

(* reconcile(): fault is the set of coded bits of the reading.             *)
Reconcile(fault) ==
  LET eligible == Eligible(fault, FirstSeen(fault)) IN
  /\ seen' = FirstSeen(fault)
  /\ active' = eligible
  /\ cards' = (cards \ (active \ eligible)) \cup (eligible \ active)

(* A tick of a clock of which only ages up to Debounce matter.             *)
Older(age) == IF age \in {Unseen, Debounce} THEN age ELSE age + 1

(* The reconciler is dropped with its coordinator; the cards stay.         *)
Forget == active' = {} /\ seen' = Unseen /\ UNCHANGED cards

=============================================================================
