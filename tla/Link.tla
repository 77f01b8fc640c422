-------------------------------- MODULE Link --------------------------------
(***************************************************************************)
(* What SilverlineClient promises the owner of the session: after a start  *)
(* the listeners are told of a loss once, then of its recovery once, and   *)
(* so on; a stop ends the story without an event; and a loss that is not   *)
(* stopped is recovered from.                                              *)
(***************************************************************************)
EXTENDS Sequences

VARIABLES
  phase,  \* "off", "on" or "lost"
  notes   \* the last two events the listeners received since the last stop

linkVars == <<phase, notes>>

Init == phase = "off" /\ notes = <<"none", "none">>

Start == phase = "off" /\ phase' = "on" /\ UNCHANGED notes

Lose == phase = "on" /\ phase' = "lost" /\ notes' = <<notes[2], "down">>

Heal == phase = "lost" /\ phase' = "on" /\ notes' = <<notes[2], "up">>

Stop == phase # "off" /\ phase' = "off" /\ notes' = <<"none", "none">>

Next == Start \/ Lose \/ Heal \/ Stop

Safe == Init /\ [][Next]_linkVars

(* The client owes recovery from a loss; it owes no start and no stop.     *)
Spec == Safe /\ WF_linkVars(Heal)

=============================================================================
