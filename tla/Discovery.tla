------------------------------ MODULE Discovery ------------------------------
(***************************************************************************)
(* How a heat pump is found and its address kept: the announcements of     *)
(* discovery.py, the listener with its memory of addresses (__init__.py)   *)
(* and the flows of config_flow.py that they and the user start.           *)
(*                                                                         *)
(* One heat pump takes an address from DHCP every now and then. The other  *)
(* devices that announce themselves on the network fill the queue and the  *)
(* listener's memory. Home Assistant lets one flow at a time work on a     *)
(* unique id, except for reauth, which does not ask.                       *)
(***************************************************************************)
EXTENDS Naturals, Sequences, Functions

CONSTANTS
  Pump,      \* the heat pump's device id
  Padded,    \* the same with a blank at its end, as a user may paste it
  Others,    \* other devices, with a product key that is not a heat pump's
  Addrs,     \* addresses the heat pump may have
  Elsewhere, \* the address of all others
  QueueMax,  \* _DISCOVERY_QUEUE_MAX
  SeenMax,   \* _DISCOVERY_SEEN_MAX
  MaxEvents, \* bound: changes of address, and restarts
  None

ASSUME DiscoveryAssumption ==
  /\ Pump # Padded /\ Pump \notin Others /\ Padded \notin Others
  /\ None \notin Addrs /\ Elsewhere \notin Addrs
  /\ {QueueMax, SeenMax, MaxEvents} \subseteq Nat

VARIABLES
  addr,   \* the heat pump's address
  queue,  \* the announcements that discover() has not yielded yet
  seen,   \* seen_ips, oldest key first
  flow,   \* per unique id, the flow that works on it
  reauth, \* a reauth flow is open
  entry,  \* per unique id, CONF_HOST of the config entry, or None
  heard,  \* history: an announcement from this address has been taken in
  turned, \* history: the last one that was passed on came to nothing
  met,    \* history: the addresses at which the heat pump has answered
  events  \* bound: changes of address and restarts so far

vars == <<addr, queue, seen, flow, reauth, entry, heard, turned, met, events>>

Ids == {Pump, Padded}
Announcements ==
  [id : {Pump}, ip : Addrs] \cup [id : Others, ip : {Elsewhere}]

(* What works on a unique id: a flow's source, the await or form it is at, *)
(* and the host it was given.                                              *)
Flow(source, at, host) == [source |-> source, at |-> at, host |-> host]
NoFlow == Flow("none", "none", None)

InProgress(id) == flow[id] # NoFlow \/ (reauth /\ id = Pump)

(* normalize_credentials.                                                  *)
Normalized(id) == Pump

-----------------------------------------------------------------------------
(* The listener.                                                           *)

(* datagram_received: an announcement is queued, or dropped when the queue *)
(* is full, which changes nothing.                                         *)
Announce(id, ip) ==
  /\ Len(queue) < QueueMax
  /\ queue' = Append(queue, [id |-> id, ip |-> ip])
  /\ UNCHANGED <<addr, seen, flow, reauth, entry, heard, turned, met, events>>

(* Mutant of IsRepeat: the address is not looked at.                       *)
IsRepeatById(info) == \E i \in DOMAIN seen : seen[i].id = info.id

IsRepeat(info) == \E i \in DOMAIN seen : seen[i] = info

(* The map with info in it: a known id keeps its place.                    *)
With(info) ==
  IF \E i \in DOMAIN seen : seen[i].id = info.id
  THEN [i \in DOMAIN seen |-> IF seen[i].id = info.id THEN info ELSE seen[i]]
  ELSE Append(seen, info)

(* Mutant of Remembered: nothing is evicted.                               *)
RememberedAll(info) == With(info)

(* seen_ips after info: the oldest goes.                                   *)
Remembered(info) ==
  IF Len(With(info)) > SeenMax THEN Tail(With(info)) ELSE With(info)

(* async_step_integration_discovery up to its await: another product, a    *)
(* flow in progress and the host the entry has end the flow.               *)
Discovered(info) ==
  IF info.id \in Others THEN UNCHANGED <<flow, turned>>
  ELSE IF InProgress(info.id) THEN flow' = flow /\ turned' = TRUE
  ELSE /\ turned' = FALSE
       /\ flow' = IF entry[info.id] = None
                  THEN [flow EXCEPT ![info.id] = Flow("discovery", "form", info.ip)]
                  ELSE IF entry[info.id] = info.ip THEN flow
                  ELSE [flow EXCEPT ![info.id] = Flow("discovery", "verify", info.ip)]

(* Mutant of Listen: once the map is full, nobody is listened to.          *)
ListenUntilFull ==
  LET info == Head(queue) IN
  /\ queue # <<>> /\ queue' = Tail(queue)
  /\ heard' = (heard \/ info = [id |-> Pump, ip |-> addr])
  /\ IF IsRepeat(info) \/ Len(seen) = SeenMax THEN UNCHANGED <<seen, flow, turned>>
     ELSE seen' = Remembered(info) /\ Discovered(info)
  /\ UNCHANGED <<addr, reauth, entry, met, events>>

(* _discovery_loop takes an announcement and, unless it repeats the last   *)
(* one of its device, starts a flow.                                       *)
Listen ==
  LET info == Head(queue) IN
  /\ queue # <<>> /\ queue' = Tail(queue)
  /\ heard' = (heard \/ info = [id |-> Pump, ip |-> addr])
  /\ IF IsRepeat(info) THEN UNCHANGED <<seen, flow, turned>>
     ELSE seen' = Remembered(info) /\ Discovered(info)
  /\ UNCHANGED <<addr, reauth, entry, met, events>>

-----------------------------------------------------------------------------
(* The flows' awaits. A host that is not the heat pump's never answers as  *)
(* it; the heat pump itself may be too slow, or busy.                      *)

At(id, place) == flow[id].at = place
Answers(id) == flow[id].host = addr /\ met' = met \cup {addr}
Ends(id) == flow' = [flow EXCEPT ![id] = NoFlow]
GoesTo(id, place) == flow' = [flow EXCEPT ![id].at = place]

(* Mutant of VerifySucceeds: the announced address is taken for granted.   *)
VerifyTrusts(id) ==
  /\ At(id, "verify") /\ met' = met /\ turned' = turned
  /\ entry' = [entry EXCEPT ![id] = flow[id].host] /\ Ends(id)
  /\ UNCHANGED <<addr, queue, seen, reauth, heard, events>>

(* Mutant of VerifySucceeds: the entry found before the await is used.     *)
VerifyUpdates(id) ==
  /\ At(id, "verify") /\ Answers(id)
  /\ Ends(id) /\ entry' = [entry EXCEPT ![id] = flow[id].host]
  /\ UNCHANGED <<addr, queue, seen, reauth, heard, turned, events>>

(* _verify_host returned True: the entry gets the host. If it has been     *)
(* removed meanwhile, the flow goes on as for a new device.                *)
VerifySucceeds(id) ==
  /\ At(id, "verify") /\ Answers(id)
  /\ IF entry[id] = None
     THEN GoesTo(id, "form") /\ entry' = entry
     ELSE Ends(id) /\ entry' = [entry EXCEPT ![id] = flow[id].host]
  /\ UNCHANGED <<addr, queue, seen, reauth, heard, turned, events>>

(* It returned False: unverified_host.                                     *)
VerifyFails(id) ==
  /\ At(id, "verify") /\ Ends(id) /\ turned' = TRUE
  /\ UNCHANGED <<addr, queue, seen, reauth, entry, heard, met, events>>

(* _try_validate without an error: the flow asks for the model.            *)
ValidateSucceeds(id) ==
  /\ At(id, "validate") /\ Answers(id)
  /\ GoesTo(id, "model")
  /\ UNCHANGED <<addr, queue, seen, reauth, entry, heard, turned, events>>

(* With one: the form again.                                               *)
ValidateFails(id) ==
  /\ At(id, "validate")
  /\ GoesTo(id, "form")
  /\ UNCHANGED <<addr, queue, seen, reauth, entry, heard, turned, met, events>>

-----------------------------------------------------------------------------
(* The user.                                                               *)

(* The card's form (async_step_discovery_confirm): its host is that of the *)
(* announcement it was made for.                                           *)
ConfirmCard(id) ==
  /\ flow[id].source = "discovery" /\ At(id, "form")
  /\ GoesTo(id, "validate")
  /\ UNCHANGED <<addr, queue, seen, reauth, entry, heard, turned, met, events>>

(* async_step_user with these credentials, in a new flow or after an error.*)
SubmitUser(typed, host) ==
  LET id == Normalized(typed) IN
  /\ entry[id] = None
  /\ \/ ~InProgress(id)
     \/ flow[id].source = "user" /\ At(id, "form") /\ (id = Pump => ~reauth)
  /\ flow' = [flow EXCEPT ![id] = Flow("user", "validate", host)]
  /\ UNCHANGED <<addr, queue, seen, reauth, entry, heard, turned, met, events>>

(* async_step_reconfigure; another device's id is refused.                 *)
SubmitReconfigure(typed, host) ==
  LET id == Normalized(typed) IN
  /\ entry[id] # None
  /\ \/ ~InProgress(id)
     \/ flow[id].source = "reconfigure" /\ At(id, "form") /\ (id = Pump => ~reauth)
  /\ flow' = [flow EXCEPT ![id] = Flow("reconfigure", "validate", host)]
  /\ UNCHANGED <<addr, queue, seen, reauth, entry, heard, turned, met, events>>

(* async_step_model: the entry is created, or updated by a reconfigure.    *)
PickModel(id) ==
  /\ At(id, "model") /\ Ends(id)
  /\ entry' = [entry EXCEPT ![id] = flow[id].host]
  /\ turned' = (turned /\ flow[id].host # addr)
  /\ UNCHANGED <<addr, queue, seen, reauth, heard, met, events>>

(* A flow that waits for the user is closed.                               *)
Dismiss(id) ==
  /\ flow[id].at \in {"form", "model"} /\ Ends(id)
  /\ turned' = (turned \/ heard)
  /\ UNCHANGED <<addr, queue, seen, reauth, entry, heard, met, events>>

(* The entry is removed, with the flows that are about it.                 *)
RemoveEntry(id) ==
  /\ entry[id] # None /\ entry' = [entry EXCEPT ![id] = None]
  /\ flow' = IF flow[id].source = "reconfigure"
             THEN [flow EXCEPT ![id] = NoFlow] ELSE flow
  /\ reauth' = FALSE /\ turned' = (turned \/ heard)
  /\ UNCHANGED <<addr, queue, seen, heard, met, events>>

(* The coordinator has raised ConfigEntryAuthFailed.                       *)
ReauthStart ==
  /\ entry[Pump] # None /\ ~reauth /\ reauth' = TRUE
  /\ UNCHANGED <<addr, queue, seen, flow, entry, heard, turned, met, events>>

(* async_step_reauth_confirm ends with a new key, or is closed: the host   *)
(* stays as it is.                                                         *)
ReauthEnd ==
  /\ reauth /\ reauth' = FALSE
  /\ UNCHANGED <<addr, queue, seen, flow, entry, heard, turned, met, events>>

-----------------------------------------------------------------------------
(* The network, and Home Assistant.                                        *)

(* Another address. The device announces itself every 25 seconds, and      *)
(* keeps an address for much longer.                                       *)
Move ==
  /\ events < MaxEvents /\ events' = events + 1 /\ heard
  /\ addr' \in Addrs \ {addr} /\ heard' = FALSE
  /\ UNCHANGED <<queue, seen, flow, reauth, entry, turned, met>>

(* A new process: entries are stored, nothing else is.                     *)
Restart ==
  /\ events < MaxEvents /\ events' = events + 1
  /\ queue' = <<>> /\ seen' = <<>>
  /\ flow' = [id \in Ids |-> NoFlow] /\ reauth' = FALSE /\ turned' = FALSE
  /\ UNCHANGED <<addr, entry, heard, met>>

-----------------------------------------------------------------------------
Init ==
  /\ addr \in Addrs
  /\ queue = <<>> /\ seen = <<>>
  /\ flow = [id \in Ids |-> NoFlow] /\ reauth = FALSE
  /\ entry = [id \in Ids |-> None]
  /\ heard = FALSE /\ turned = FALSE /\ met = {}
  /\ events = 0

Next ==
  \/ Announce(Pump, addr) \/ Listen
  \/ \E id \in Others : Announce(id, Elsewhere)
  \/ \E id \in Ids :
       \/ VerifySucceeds(id) \/ VerifyFails(id)
       \/ ValidateSucceeds(id) \/ ValidateFails(id)
       \/ ConfirmCard(id) \/ PickModel(id) \/ Dismiss(id) \/ RemoveEntry(id)
       \/ \E host \in Addrs : SubmitUser(id, host) \/ SubmitReconfigure(id, host)
  \/ ReauthStart \/ ReauthEnd
  \/ Move \/ Restart

Spec == Init /\ [][Next]_vars

(* The listener and what is awaited go on; the heat pump, which repeats    *)
(* its announcement, gets one into the queue whenever it drains.           *)
Fairness ==
  /\ SF_vars(Announce(Pump, addr)) /\ WF_vars(Listen)
  /\ \A id \in Ids :
       /\ WF_vars(VerifySucceeds(id) \/ VerifyFails(id))
       /\ WF_vars(ValidateSucceeds(id) \/ ValidateFails(id))

FairSpec == Spec /\ Fairness

-----------------------------------------------------------------------------
(* Properties.                                                             *)

(* Every variable keeps its type, the queue and the memory their bounds.   *)
TypeOK ==
  /\ addr \in Addrs /\ met \subseteq Addrs
  /\ queue \in Seq(Announcements) /\ Len(queue) <= QueueMax
  /\ seen \in Seq(Announcements) /\ Len(seen) <= SeenMax
  /\ IsInjective([i \in DOMAIN seen |-> seen[i].id])
  /\ \A id \in Ids :
       /\ flow[id].source \in {"none", "discovery", "user", "reconfigure"}
       /\ flow[id].at \in {"none", "verify", "form", "validate", "model"}
       /\ flow[id].host \in Addrs \cup {None}
       /\ entry[id] \in Addrs \cup {None}
  /\ {reauth, heard, turned} \subseteq BOOLEAN /\ events \in 0 .. MaxEvents

(* An entry is made only where there is none, when the user has given the  *)
(* key, and its host is changed only by a flow about that entry. So what   *)
(* was under way while the user removed the entry does not bring it back,  *)
(* and no flow, the user's or a discovered one, replaces an entry that has *)
(* come meanwhile (config_flow.py:75-76, 239-250).                         *)
EntriesAskedFor ==
  [][\A id \in Ids : entry'[id] \notin {entry[id], None} =>
       IF entry[id] = None
       THEN At(id, "model") /\ flow[id].source \in {"user", "discovery"}
       ELSE \/ At(id, "verify")
            \/ At(id, "model") /\ flow[id].source = "reconfigure"]_vars

(* An entry's host is an address at which the heat pump has answered with  *)
(* its key, however old the announcement (config_flow.py:235-250).         *)
HostWasMet == \A id \in Ids : entry[id] # None => entry[id] \in met

(* A device that goes on announcing itself is offered, in spite of a full  *)
(* queue and an evicting memory, unless a flow or the user has turned it   *)
(* away (__init__.py:46-58).                                               *)
Offered ==
  <>[](\E id \in Ids : entry[id] # None \/ flow[id] # NoFlow \/ turned)

(* A configured device's new address becomes the entry's host, unless it   *)
(* is being verified still, or the flow for it came to nothing             *)
(* (__init__.py:63-70, config_flow.py:195-199).                            *)
HostFollows ==
  <>[](entry[Pump] \in {None, addr} \/ At(Pump, "verify") \/ turned)

(* Without the exception: with no flow open, an announcement from an       *)
(* address that is not the entry's starts one, "instead of being deduped   *)
(* away" (quality_scale.yaml:74-79, __init__.py:65-70).                    *)
HostUpdated ==
  [][LET info == Head(queue) IN
     Listen /\ info = [id |-> Pump, ip |-> addr]
            /\ entry[Pump] \notin {None, addr} /\ ~InProgress(Pump)
       => ~IsRepeat(info)]_vars

=============================================================================
