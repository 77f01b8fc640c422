---------------------------- MODULE Coordinator -----------------------------
(***************************************************************************)
(* SilverlineCoordinator (coordinator.py) with the setup and unload of its *)
(* config entry (__init__.py) and the writes of its entities (entity.py),  *)
(* on top of what the client promises (Link) and of Home Assistant's       *)
(* DataUpdateCoordinator: polls, pushes, availability and Repair cards.    *)
(*                                                                         *)
(* The data points are abstracted to the set of coded faults. Time is a    *)
(* tick, longer than any poll or write takes.                              *)
(***************************************************************************)
EXTENDS Faults

CONSTANT Interval  \* the scan interval, in ticks

ASSUME CoordinatorAssumption == Interval \in Nat \ {0}

VARIABLES
  phase, notes,  \* the session, as Link has it
  entry,    \* the config entry: "off", "first" refresh under way, "on"
  dev,      \* the faults the device has
  data,     \* the faults in coordinator.data
  success,  \* last_update_success: entities are available
  poll,     \* "idle", "waiting" in get_status, "answered" and about to resume
  reply,    \* what the poll was answered
  write,    \* an entity's write: "none", or "acked" and about to resume
  due,      \* ticks to the next scheduled poll, or Never
  wanted,   \* a requested refresh is pending
  refused   \* the last poll begun ended in ConfigEntryAuthFailed

Session == INSTANCE Link

session == <<phase, notes>>
vars == <<session, faultVars, entry, dev, data, success, poll, reply, write,
          due, wanted, refused>>

Never == -1

(* _process_state() of a reading, which becomes coordinator.data.          *)
ProcessState(fault) == data' = fault /\ Reconcile(fault)

(* The coordinator, its timer and its reconciler are dropped.              *)
Release ==
  /\ Forget
  /\ data' = {} /\ reply' = {} /\ success' = TRUE
  /\ poll' = "idle" /\ due' = Never /\ wanted' = FALSE /\ refused' = FALSE

Init ==
  /\ Session!Init
  /\ entry = "off" /\ dev = {} /\ data = {} /\ reply = {}
  /\ success = TRUE /\ poll = "idle" /\ write = "none"
  /\ due = Never /\ wanted = FALSE /\ refused = FALSE
  /\ active = {} /\ seen = Unseen /\ cards = {}

-----------------------------------------------------------------------------
(* The config entry.                                                       *)

(* async_setup_entry: connect (a failure changes nothing), then the first  *)
(* refresh.                                                                *)
Setup ==
  /\ entry = "off"
  /\ Session!Start
  /\ entry' = "first" /\ poll' = "waiting"
  /\ UNCHANGED <<faultVars, dev, data, success, reply, write, due, wanted, refused>>

(* Mutant of FirstRefreshFails: without the shutdown.                      *)
FirstRefreshLeaks ==
  /\ entry = "first" /\ poll = "waiting"
  /\ entry' = "off"
  /\ Release
  /\ UNCHANGED <<session, dev, write>>

(* The first refresh fails: the coordinator is shut down.                  *)
FirstRefreshFails ==
  /\ entry = "first" /\ poll = "waiting"
  /\ Session!Stop
  /\ entry' = "off"
  /\ Release
  /\ UNCHANGED <<dev, write>>

(* async_unload_entry. What is about to resume does so before the          *)
(* platforms are gone.                                                     *)
Unload ==
  /\ entry = "on" /\ poll # "answered" /\ write = "none"
  /\ Session!Stop
  /\ entry' = "off"
  /\ Release
  /\ UNCHANGED <<dev, write>>

-----------------------------------------------------------------------------
(* Polls: DataUpdateCoordinator's refresh around _async_update_data.       *)

(* The timer or a requested refresh starts a poll, unless one is running.  *)
PollStart ==
  /\ entry = "on" /\ poll = "idle"
  /\ due = 0 \/ wanted
  /\ poll' = "waiting" /\ due' = Never /\ wanted' = FALSE /\ refused' = FALSE
  /\ UNCHANGED <<session, faultVars, entry, dev, data, success, reply, write>>

(* The answer is dispatched; the poll's task will run.                     *)
PollAnswered ==
  /\ poll = "waiting" /\ phase = "on"
  /\ poll' = "answered" /\ reply' = dev
  /\ UNCHANGED <<session, faultVars, entry, dev, data, success, write, due,
                 wanted, refused>>

(* get_status returns. If it was the first refresh, the entry is set up.   *)
PollDone ==
  /\ poll = "answered"
  /\ ProcessState(reply)
  /\ entry' = "on" /\ success' = TRUE
  /\ poll' = "idle" /\ reply' = {} /\ due' = Interval
  /\ UNCHANGED <<session, dev, write, wanted, refused>>

(* Mutant of PollFails: a failed poll leaves the entities available.       *)
PollFailsQuietly ==
  /\ entry = "on" /\ poll = "waiting"
  /\ poll' = "idle" /\ due' = Interval
  /\ UNCHANGED <<session, faultVars, entry, dev, data, success, reply, write,
                 wanted, refused>>

(* get_status raises CannotConnect or a rejection that is not about the    *)
(* key: UpdateFailed, after which the timer is set again.                  *)
PollFails ==
  /\ entry = "on" /\ poll = "waiting"
  /\ poll' = "idle" /\ success' = FALSE /\ due' = Interval
  /\ UNCHANGED <<session, faultVars, entry, dev, data, reply, write, wanted, refused>>

(* get_status raises InvalidAuth: the reconnect loop's handshakes are      *)
(* rejected, or, with the session up, the device answers with an auth      *)
(* retcode or, on v3.3, with a body the key does not open. Home Assistant  *)
(* takes ConfigEntryAuthFailed for a reason not to set the timer again.    *)
PollRefused ==
  /\ entry = "on" /\ poll = "waiting"
  /\ poll' = "idle" /\ success' = FALSE /\ refused' = TRUE
  /\ UNCHANGED <<session, faultVars, entry, dev, data, reply, write, due, wanted>>

-----------------------------------------------------------------------------
(* The client's callbacks.                                                 *)

(* Mutant of HandlePush: through async_set_updated_data (issue #19).       *)
HandlePushSetsData(fault) ==
  /\ ProcessState(fault)
  /\ success' = TRUE
  /\ due' = IF entry = "on" THEN Interval ELSE due

(* _handle_push: publishes, and leaves the refresh schedule alone.         *)
HandlePush(fault) ==
  /\ ProcessState(fault)
  /\ success' = TRUE
  /\ UNCHANGED due

(* A push of some other data point, with the faults last heard of.         *)
Telemetry ==
  /\ entry # "off" /\ phase = "on"
  /\ HandlePush(data)
  /\ UNCHANGED <<session, entry, dev, poll, reply, write, wanted, refused>>

(* A fault comes or goes. While a session is up the device pushes it, but  *)
(* under a rotated v3.3 key the push cannot be read.                       *)
DeviceChanges ==
  /\ \E fault \in SUBSET Coded \ {dev} :
       /\ dev' = fault
       /\ \/ phase = "on" /\ HandlePush(fault)
          \/ UNCHANGED <<faultVars, data, success, due>>
  /\ UNCHANGED <<session, entry, poll, reply, write, wanted, refused>>

(* _handle_connection_change(False): entities go unavailable.              *)
Drop ==
  /\ Session!Lose
  /\ success' = FALSE
  /\ UNCHANGED <<faultVars, entry, dev, data, poll, reply, write, due, wanted, refused>>

(* _handle_connection_change(True): a refresh is requested.                *)
Heal ==
  /\ Session!Heal
  /\ wanted' = TRUE
  /\ UNCHANGED <<faultVars, entry, dev, data, success, poll, reply, write, due, refused>>

-----------------------------------------------------------------------------
(* Writes, and time.                                                       *)

(* set_multiple's ack is dispatched; the service's task will run.          *)
WriteAcked ==
  /\ entry = "on" /\ phase = "on" /\ write = "none"
  /\ write' = "acked"
  /\ UNCHANGED <<session, faultVars, entry, dev, data, success, poll, reply, due,
                 wanted, refused>>

(* _write_dps goes on: async_set_updated_data of the merged state, which   *)
(* starts the interval anew and cancels a refresh that is pending.         *)
WriteEnds ==
  /\ write = "acked"
  /\ ProcessState(data)
  /\ write' = "none" /\ success' = TRUE /\ due' = Interval /\ wanted' = FALSE
  /\ UNCHANGED <<session, entry, dev, poll, reply, refused>>

(* Timers fire on time, and a poll or a write ends within the tick.        *)
Tick ==
  /\ poll = "idle" /\ write = "none" /\ due # 0 /\ ~wanted
  /\ due' = IF due = Never THEN Never ELSE due - 1
  /\ seen' = Older(seen)
  /\ UNCHANGED <<session, active, cards, entry, dev, data, success, poll,
                 reply, write, wanted, refused>>

Next ==
  \/ Setup \/ FirstRefreshFails \/ Unload
  \/ PollStart \/ PollAnswered \/ PollDone \/ PollFails \/ PollRefused
  \/ Telemetry \/ DeviceChanges \/ Drop \/ Heal
  \/ WriteAcked \/ WriteEnds \/ Tick

Spec == Init /\ [][Next]_vars

(* Tasks that are ready run, time passes, a device that is polled again    *)
(* and again with a session answers or rejects some poll, and entities do  *)
(* not go on writing for ever: each write puts the poll off. An outage, or *)
(* a rejected key, may last.                                               *)
Fairness ==
  /\ WF_vars(PollStart) /\ WF_vars(PollDone) /\ WF_vars(WriteEnds)
  /\ WF_vars(PollFails \/ PollRefused \/ FirstRefreshFails)
  /\ SF_vars(phase = "on" /\ (PollAnswered \/ PollRefused))
  /\ SF_vars(Tick)
  /\ <>[][~WriteAcked]_vars

FairSpec == Spec /\ Fairness

-----------------------------------------------------------------------------
(* Properties.                                                             *)

(* Every variable keeps its type.                                          *)
TypeOK ==
  /\ FaultsTypeOK
  /\ phase \in {"off", "on", "lost"} /\ entry \in {"off", "first", "on"}
  /\ dev \subseteq Coded /\ data \subseteq Coded /\ reply \subseteq Coded
  /\ success \in BOOLEAN /\ wanted \in BOOLEAN /\ refused \in BOOLEAN
  /\ poll \in {"idle", "waiting", "answered"} /\ write \in {"none", "acked"}
  /\ due \in Never .. Interval

(* An entry that is not set up, because its first refresh failed or it was *)
(* unloaded, leaves no session behind that nobody could stop, and one that *)
(* is has a session, up or being recovered (__init__.py:128-151).          *)
NoOrphanSession == entry = "off" <=> phase = "off"

(* Every card the reconciler takes for open is open, and belongs to a      *)
(* fault of the reading last published; water flow has been in the         *)
(* readings for the whole window. So no card is left open by being         *)
(* forgotten while the entry is loaded (_faults.py:136-179).               *)
CardsKnown ==
  /\ active \subseteq cards \cap data
  /\ Flow \in active => seen = Debounce

(* The last poll was rejected for its key, and none has begun since.       *)
Rejected == <>[](refused /\ phase = "on")

(* Pushes, losses and failing polls neither put off nor end the polling of *)
(* a loaded entry, unless the outage lasts, or the key is rejected: after  *)
(* that the session's recovery brings the polling back                     *)
(* (coordinator.py:165-198, 334-344).                                      *)
PollsGoOn ==
  <>[](entry = "on") /\ []<>(phase = "on") => []<>(poll = "waiting") \/ Rejected

(* Entities become and stay unavailable in an outage that lasts, though an *)
(* answer or an ack dispatched before it may have come in after it, and    *)
(* are available again and again while the session holds and the key is    *)
(* not rejected.                                                           *)
AvailabilityFollows ==
  /\ <>[](phase = "lost" /\ entry = "on") => <>[]~success
  /\ <>[](phase = "on" /\ entry = "on") => []<>success \/ Rejected

(* While the session holds and the key is not rejected, a fault that stays *)
(* gets its card, however many readings arrive meanwhile and though its    *)
(* push may go unread, and one that goes is not active any more.           *)
FaultsSettle ==
  \A b \in Coded :
    /\ <>[](b \in dev /\ phase = "on" /\ entry = "on") =>
         <>[](b \in cards) \/ Rejected
    /\ <>[](b \notin dev /\ phase = "on" /\ entry = "on") =>
         <>[](b \notin active) \/ Rejected

(* A card goes once the device clears the fault (docs/automations.md:88)   *)
(* and the reading has come in.                                            *)
CardsClear ==
  \A b \in Coded :
    <>[](b \notin dev /\ phase = "on" /\ entry = "on") =>
      <>[](b \notin cards) \/ Rejected

=============================================================================
