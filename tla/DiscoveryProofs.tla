--------------------------- MODULE DiscoveryProofs --------------------------
(***************************************************************************)
(* Theorems about module Discovery, for any addresses, any other devices   *)
(* and any bounds of the queue and the memory.                             *)
(***************************************************************************)
EXTENDS Discovery, SequenceTheorems, TLAPS

FlowShape ==
  [source : {"none", "discovery", "user", "reconfigure"},
   at : {"none", "verify", "form", "validate", "model"}, host : Addrs \cup {None}]

(* What the flows and entries are: nothing works on the padded id, and a   *)
(* flow that asks for the model has met the heat pump at its host.         *)
Inv ==
  /\ queue \in Seq(Announcements)
  /\ flow \in [Ids -> FlowShape]
  /\ entry \in [Ids -> Addrs \cup {None}]
  /\ flow[Padded].at = "none" /\ entry[Padded] = None
  /\ flow[Pump].at # "none" => flow[Pump].host \in Addrs
  /\ flow[Pump].at = "model" => flow[Pump].host \in met
  /\ entry[Pump] # None => entry[Pump] \in met

AddressOK == addr \in Addrs

LEMMA InvInit == Init => Inv
BY DiscoveryAssumption DEF Init, Inv, NoFlow, Flow, Ids, FlowShape

(* An announcement either leaves the flows alone or opens one for the heat *)
(* pump, at the address it came from.                                      *)
LEMMA DiscoveredOpens ==
  ASSUME Inv, NEW info \in Announcements, Discovered(info)
  PROVE  \/ flow' = flow
         \/ \E at \in {"form", "verify"}, ip \in Addrs :
              /\ flow' = [flow EXCEPT ![Pump] = Flow("discovery", at, ip)]
              /\ at = "form" => entry[Pump] = None
<1>1. CASE info.id \in Others
  BY <1>1 DEF Discovered
<1>2. CASE info.id \notin Others
  <2>1. info.id = Pump /\ info.ip \in Addrs
    BY <1>2 DEF Announcements
  <2>. QED  BY <1>2, <2>1 DEF Discovered
<1>. QED  BY <1>1, <1>2

(* Replacing the heat pump's flow by one that has not reached the model.   *)
LEMMA NewFlow ==
  ASSUME Inv, queue' \in Seq(Announcements), entry' = entry, met \subseteq met',
         NEW source \in {"discovery", "user", "reconfigure"},
         NEW at \in {"form", "verify", "validate"}, NEW ip \in Addrs,
         flow' = [flow EXCEPT ![Pump] = Flow(source, at, ip)]
  PROVE  Inv'
<1>1. Flow(source, at, ip) \in FlowShape
  BY DEF Flow, FlowShape
<1>2. flow' \in [Ids -> FlowShape] /\ flow'[Pump] = Flow(source, at, ip) /\ flow'[Padded] = flow[Padded]
  BY <1>1, DiscoveryAssumption DEF Inv, Ids, FlowShape
<1>3. flow'[Pump].at = at /\ flow'[Pump].host = ip
  BY <1>2 DEF Flow
<1>. QED  BY <1>2, <1>3 DEF Inv, FlowShape

(* Moving it on, or ending it.                                             *)
LEMMA MovedFlow ==
  ASSUME Inv, queue' \in Seq(Announcements), entry' = entry, met \subseteq met',
         flow[Pump].at # "none", NEW at \in {"form", "validate", "model"},
         at = "model" => flow[Pump].host \in met',
         flow' = [flow EXCEPT ![Pump].at = at]
  PROVE  Inv'
<1>1. [flow[Pump] EXCEPT !.at = at] \in FlowShape
  BY DEF Inv, FlowShape, Ids
<1>2. flow' = [flow EXCEPT ![Pump] = [flow[Pump] EXCEPT !.at = at]]
  OBVIOUS
<1>3. flow' \in [Ids -> FlowShape] /\ flow'[Padded] = flow[Padded]
      /\ flow'[Pump] = [flow[Pump] EXCEPT !.at = at]
  BY <1>1, <1>2, DiscoveryAssumption DEF Inv, Ids, FlowShape
<1>4. flow'[Pump].at = at /\ flow'[Pump].host = flow[Pump].host
  BY <1>3 DEF Inv, Ids
<1>. QED  BY <1>3, <1>4 DEF Inv, FlowShape

LEMMA EndedFlow ==
  ASSUME Inv, queue' \in Seq(Announcements), met \subseteq met', NEW id \in Ids,
         flow' = [flow EXCEPT ![id] = NoFlow] \/ flow' = flow,
         entry' \in [Ids -> Addrs \cup {None}], entry'[Padded] = None,
         entry'[Pump] # None => entry'[Pump] \in met'
  PROVE  Inv'
<1>1. NoFlow \in FlowShape /\ NoFlow.at = "none"
  BY DEF NoFlow, Flow, FlowShape
<1>2. flow' \in [Ids -> FlowShape] /\ \A i \in Ids : flow'[i] = flow[i] \/ flow'[i] = NoFlow
  BY <1>1 DEF Inv, FlowShape
<1>. QED  BY <1>1, <1>2 DEF Inv, FlowShape, Ids

(* Only the heat pump's own id has a flow.                                 *)
LEMMA OnlyPump ==
  ASSUME Inv, NEW id \in Ids, flow[id].at # "none"
  PROVE  id = Pump
BY DEF Inv, Ids

LEMMA AddressStep == AddressOK /\ [Next]_vars => AddressOK'
<1>. SUFFICES ASSUME AddressOK, [Next]_vars PROVE addr' \in Addrs
  BY DEF AddressOK
<1>1. CASE Move
  BY <1>1 DEF Move
<1>2. CASE UNCHANGED addr
  BY <1>2 DEF AddressOK
<1>. QED  BY <1>1, <1>2 DEF Next, vars, Announce, Listen, VerifySucceeds, VerifyFails,
       ValidateSucceeds, ValidateFails, ConfirmCard, PickModel, Dismiss, RemoveEntry,
       SubmitUser, SubmitReconfigure, ReauthStart, ReauthEnd, Restart

LEMMA InvStep == AddressOK /\ Inv /\ [Next]_vars => Inv'
<1>. SUFFICES ASSUME AddressOK, Inv, [Next]_vars PROVE Inv'
  OBVIOUS
<1>1. CASE UNCHANGED <<flow, entry, met>> /\ queue' \in Seq(Announcements)
  BY <1>1 DEF Inv
<1>2. CASE Listen
  <2>. DEFINE info == Head(queue)
  <2>1. info \in Announcements /\ queue' \in Seq(Announcements) /\ entry' = entry /\ met' = met
    BY <1>2 DEF Listen, Inv
  <2>2. flow' = flow \/ Discovered(info)
    BY <1>2 DEF Listen
  <2>. HIDE DEF info
  <2>3. CASE flow' = flow
    BY <1>1, <2>1, <2>3
  <2>4. CASE Discovered(info)
    <3>1. CASE \E at \in {"form", "verify"}, ip \in Addrs :
                 flow' = [flow EXCEPT ![Pump] = Flow("discovery", at, ip)]
      BY <2>1, <3>1, NewFlow
    <3>. QED  BY <2>1, <2>3, <2>4, <3>1, DiscoveredOpens
  <2>. QED  BY <2>2, <2>3, <2>4
<1>3. ASSUME NEW id \in Ids, VerifySucceeds(id) PROVE Inv'
  <2>1. id = Pump /\ flow[Pump].at # "none" /\ queue' = queue /\ met' = met \cup {addr} /\ flow[Pump].host = addr
    BY <1>3, OnlyPump DEF VerifySucceeds, At, Answers
  <2>2. CASE entry[id] = None
    BY <1>3, <2>1, <2>2, MovedFlow DEF VerifySucceeds, GoesTo, Inv
  <2>3. CASE entry[id] # None
    <3>1. flow[Pump].host \in Addrs /\ flow[Pump].host \in met'
      BY <2>1 DEF Inv
    <3>2. flow' = [flow EXCEPT ![Pump] = NoFlow] /\ entry' = [entry EXCEPT ![Pump] = flow[Pump].host]
      BY <1>3, <2>1, <2>3 DEF VerifySucceeds, Ends
    <3>3. /\ entry' \in [Ids -> Addrs \cup {None}] /\ entry'[Padded] = None
          /\ entry'[Pump] = flow[Pump].host
      BY <3>1, <3>2, DiscoveryAssumption DEF Inv, Ids
    <3>4. queue' \in Seq(Announcements) /\ met \subseteq met' /\ Pump \in Ids
      BY <2>1 DEF Inv, Ids
    <3>. QED  BY <3>1, <3>2, <3>3, <3>4, EndedFlow
  <2>. QED  BY <2>2, <2>3
<1>4. ASSUME NEW id \in Ids, VerifyFails(id) \/ Dismiss(id) PROVE Inv'
  <2>1. flow' = [flow EXCEPT ![id] = NoFlow] /\ UNCHANGED <<queue, entry, met>>
    BY <1>4 DEF VerifyFails, Dismiss, Ends
  <2>. QED  BY <2>1, EndedFlow DEF Inv
<1>5. ASSUME NEW id \in Ids, ValidateSucceeds(id) PROVE Inv'
  <2>1. id = Pump /\ flow[Pump].at # "none" /\ queue' = queue /\ met' = met \cup {addr} /\ flow[Pump].host = addr
    BY <1>5, OnlyPump DEF ValidateSucceeds, At, Answers
  <2>. QED  BY <1>5, <2>1, MovedFlow DEF ValidateSucceeds, GoesTo, Inv
<1>6. ASSUME NEW id \in Ids, ValidateFails(id) \/ ConfirmCard(id) PROVE Inv'
  <2>1. id = Pump /\ flow[Pump].at # "none" /\ UNCHANGED <<queue, entry, met>>
    BY <1>6, OnlyPump DEF ValidateFails, ConfirmCard, At
  <2>. QED  BY <1>6, <2>1, MovedFlow DEF ValidateFails, ConfirmCard, GoesTo, Inv
<1>7. ASSUME NEW id \in Ids, PickModel(id) PROVE Inv'
  <2>1. id = Pump /\ flow[Pump].at = "model" /\ UNCHANGED <<queue, met>>
    BY <1>7, OnlyPump DEF PickModel, At
  <2>2. flow[Pump].host \in Addrs /\ flow[Pump].host \in met
    BY <2>1 DEF Inv
  <2>3. flow' = [flow EXCEPT ![Pump] = NoFlow] /\ entry' = [entry EXCEPT ![Pump] = flow[Pump].host]
    BY <1>7, <2>1 DEF PickModel, Ends
  <2>4. /\ entry' \in [Ids -> Addrs \cup {None}] /\ entry'[Padded] = None
        /\ entry'[Pump] = flow[Pump].host /\ queue' \in Seq(Announcements) /\ Pump \in Ids
    BY <2>1, <2>2, <2>3, DiscoveryAssumption DEF Inv, Ids
  <2>. QED  BY <2>1, <2>2, <2>3, <2>4, EndedFlow
<1>8. ASSUME NEW id \in Ids, RemoveEntry(id) PROVE Inv'
  <2>1. /\ flow' = [flow EXCEPT ![id] = NoFlow] \/ flow' = flow
        /\ entry' = [entry EXCEPT ![id] = None] /\ UNCHANGED <<queue, met>>
    BY <1>8 DEF RemoveEntry
  <2>2. entry' \in [Ids -> Addrs \cup {None}] /\ \A i \in Ids : entry'[i] = entry[i] \/ entry'[i] = None
    BY <2>1 DEF Inv
  <2>. QED  BY <2>1, <2>2, EndedFlow DEF Inv, Ids
<1>9. ASSUME NEW id \in Ids, NEW host \in Addrs, SubmitUser(id, host) \/ SubmitReconfigure(id, host)
      PROVE  Inv'
  <2>1. UNCHANGED <<queue, entry, met>>
    BY <1>9 DEF SubmitUser, SubmitReconfigure
  <2>2. \E source \in {"user", "reconfigure"} : flow' = [flow EXCEPT ![Pump] = Flow(source, "validate", host)]
    BY <1>9 DEF SubmitUser, SubmitReconfigure, Normalized
  <2>. QED  BY <2>1, <2>2, NewFlow DEF Inv
<1>10. CASE Restart
  <2>1. queue' = <<>> /\ flow' = [id \in Ids |-> NoFlow] /\ UNCHANGED <<entry, met>>
    BY <1>10 DEF Restart
  <2>2. NoFlow \in FlowShape /\ NoFlow.at = "none"
    BY DEF NoFlow, Flow, FlowShape
  <2>. QED  BY <2>1, <2>2 DEF Inv, FlowShape, Ids
<1>11. ASSUME NEW id \in {Pump} \cup Others, NEW ip,
              [id |-> id, ip |-> ip] \in Announcements, Announce(id, ip)
       PROVE  Inv'
  <2>. DEFINE info == [id |-> id, ip |-> ip]
  <2>1. queue' = Append(queue, info) /\ UNCHANGED <<flow, entry, met>>
    BY <1>11 DEF Announce
  <2>2. queue \in Seq(Announcements) /\ info \in Announcements
    BY <1>11 DEF Inv
  <2>. HIDE DEF info
  <2>. QED  BY <1>1, <2>1, <2>2
<1>12. CASE Announce(Pump, addr)
  <2>1. [id |-> Pump, ip |-> addr] \in Announcements
    BY DEF Announcements, AddressOK
  <2>. QED  BY <1>11, <1>12, <2>1
<1>13. ASSUME NEW id \in Others, Announce(id, Elsewhere) PROVE Inv'
  <2>1. [id |-> id, ip |-> Elsewhere] \in Announcements
    BY DEF Announcements
  <2>. QED  BY <1>11, <1>13, <2>1
<1>14. CASE ReauthStart \/ ReauthEnd \/ Move \/ UNCHANGED vars
  <2>1. UNCHANGED <<queue, flow, entry, met>>
    BY <1>14 DEF ReauthStart, ReauthEnd, Move, vars
  <2>. QED  BY <1>1, <2>1 DEF Inv
<1>. QED  BY <1>2, <1>3, <1>4, <1>5, <1>6, <1>7, <1>8, <1>9, <1>10, <1>12, <1>13, <1>14 DEF Next

-----------------------------------------------------------------------------
(* Flows and the entry they are about.                                     *)

(* A reconfigure is about the entry there is; the other flows, once they   *)
(* are past the verification, are about the entry there is not.            *)
FlowFits ==
  LET f == flow[Pump] IN
  /\ f.at \in {"form", "validate", "model"} =>
       /\ f.source \in {"user", "discovery", "reconfigure"}
       /\ f.source = "reconfigure" <=> entry[Pump] # None
  /\ f.at = "verify" => f.source = "discovery"

LEMMA FitsStep == Inv /\ FlowFits /\ [Next]_vars => FlowFits'
<1>. SUFFICES ASSUME Inv, FlowFits, [Next]_vars PROVE FlowFits'
  OBVIOUS
<1>. USE DEF FlowFits
<1>0. Pump \in Ids /\ flow \in [Ids -> FlowShape] /\ entry \in [Ids -> Addrs \cup {None}]
  BY DEF Inv, Ids
<1>1. CASE UNCHANGED <<flow, entry>>
  BY <1>1
(* A new flow, and one that ends.                                          *)
<1>2. ASSUME NEW source, NEW at, NEW ip, entry' = entry,
             flow' = [flow EXCEPT ![Pump] = Flow(source, at, ip)],
             \/ at = "verify" /\ source = "discovery"
             \/ /\ at \in {"form", "validate", "model"}
                /\ source \in {"user", "discovery", "reconfigure"}
                /\ source = "reconfigure" <=> entry[Pump] # None
      PROVE  FlowFits'
  <2>1. flow'[Pump].source = source /\ flow'[Pump].at = at
    BY <1>0, <1>2 DEF Flow
  <2>. QED  BY <1>2, <2>1
<1>3. ASSUME flow'[Pump] = NoFlow PROVE FlowFits'
  BY <1>3 DEF NoFlow, Flow
<1>4. ASSUME NEW id \in Ids, flow[id].at # "none", Ends(id) PROVE FlowFits'
  BY <1>0, <1>3, <1>4, OnlyPump DEF Ends
<1>5. ASSUME NEW id \in Ids, NEW at, flow[id].at # "none", GoesTo(id, at), entry' = entry
      PROVE  id = Pump /\ flow'[Pump].at = at /\ flow'[Pump].source = flow[Pump].source
  BY <1>0, <1>5, OnlyPump DEF GoesTo, FlowShape
<1>6. CASE Listen
  <2>. DEFINE info == Head(queue)
  <2>1. info \in Announcements /\ entry' = entry /\ (flow' = flow \/ Discovered(info))
    BY <1>6 DEF Listen, Inv
  <2>. HIDE DEF info
  <2>2. CASE Discovered(info)
    <3>1. CASE \E at \in {"form", "verify"}, ip \in Addrs :
                 /\ flow' = [flow EXCEPT ![Pump] = Flow("discovery", at, ip)]
                 /\ at = "form" => entry[Pump] = None
      <4>1. PICK at \in {"form", "verify"}, ip \in Addrs :
              /\ flow' = [flow EXCEPT ![Pump] = Flow("discovery", at, ip)]
              /\ at = "form" => entry[Pump] = None
        BY <3>1
      <4>2. CASE at = "form"
        BY <1>2, <2>1, <4>1, <4>2
      <4>3. CASE at = "verify"
        BY <1>2, <2>1, <4>1, <4>3
      <4>. QED  BY <4>2, <4>3
    <3>. QED  BY <1>1, <2>1, <2>2, <3>1, DiscoveredOpens
  <2>. QED  BY <1>1, <2>1, <2>2
<1>7. ASSUME NEW id \in Ids, VerifySucceeds(id) PROVE FlowFits'
  <2>1. CASE entry[id] = None
    <3>1. flow[id].at = "verify" /\ GoesTo(id, "form") /\ entry' = entry
      BY <1>7, <2>1 DEF VerifySucceeds, At
    <3>. QED  BY <1>5, <2>1, <3>1
  <2>2. CASE entry[id] # None
    BY <1>4, <1>7, <2>2 DEF VerifySucceeds, At
  <2>. QED  BY <2>1, <2>2
<1>8. ASSUME NEW id \in Ids, VerifyFails(id) \/ Dismiss(id) \/ PickModel(id) PROVE FlowFits'
  BY <1>4, <1>8 DEF VerifyFails, Dismiss, PickModel, At
<1>9. ASSUME NEW id \in Ids, ValidateSucceeds(id) \/ ValidateFails(id) \/ ConfirmCard(id)
      PROVE  FlowFits'
  <2>1. /\ flow[id].at \in {"validate", "form"} /\ entry' = entry
        /\ GoesTo(id, "model") \/ GoesTo(id, "form") \/ GoesTo(id, "validate")
    BY <1>9 DEF ValidateSucceeds, ValidateFails, ConfirmCard, At
  <2>2. PICK at \in {"model", "form", "validate"} : GoesTo(id, at)
    BY <2>1
  <2>3. id = Pump /\ flow'[Pump].at = at /\ flow'[Pump].source = flow[Pump].source
    BY <1>5, <2>1, <2>2
  <2>. QED  BY <2>1, <2>3
<1>10. ASSUME NEW id \in Ids, RemoveEntry(id) PROVE FlowFits'
  <2>1. id = Pump /\ entry[Pump] # None /\ entry'[Pump] = None
    BY <1>0, <1>10 DEF RemoveEntry, Inv, Ids
  <2>2. CASE flow[Pump].source = "reconfigure"
    BY <1>0, <1>3, <1>10, <2>1, <2>2 DEF RemoveEntry
  <2>3. CASE flow[Pump].source # "reconfigure"
    BY <1>10, <2>1, <2>3 DEF RemoveEntry
  <2>. QED  BY <2>2, <2>3
<1>11. ASSUME NEW id \in Ids, NEW host \in Addrs, SubmitUser(id, host) \/ SubmitReconfigure(id, host)
       PROVE  FlowFits'
  <2>1. CASE SubmitUser(id, host)
    <3>1. flow' = [flow EXCEPT ![Pump] = Flow("user", "validate", host)]
          /\ entry[Pump] = None /\ entry' = entry
      BY <2>1 DEF SubmitUser, Normalized
    <3>. QED  BY <1>2, <3>1
  <2>2. CASE SubmitReconfigure(id, host)
    <3>1. flow' = [flow EXCEPT ![Pump] = Flow("reconfigure", "validate", host)]
          /\ entry[Pump] # None /\ entry' = entry
      BY <2>2 DEF SubmitReconfigure, Normalized
    <3>. QED  BY <1>2, <3>1
  <2>. QED  BY <1>11, <2>1, <2>2
<1>12. CASE Restart
  BY <1>0, <1>3, <1>12 DEF Restart
<1>. QED  BY <1>1, <1>6, <1>7, <1>8, <1>9, <1>10, <1>11, <1>12
          DEF Next, vars, Announce, ReauthStart, ReauthEnd, Move

(* The steps that give an entry another host, and what they find.          *)
LEMMA EntryStep ==
  ASSUME Inv, FlowFits, [Next]_vars, NEW id \in Ids, entry'[id] \notin {entry[id], None}
  PROVE  IF entry[id] = None
         THEN At(id, "model") /\ flow[id].source \in {"user", "discovery"}
         ELSE \/ At(id, "verify")
              \/ At(id, "model") /\ flow[id].source = "reconfigure"
<1>0. entry \in [Ids -> Addrs \cup {None}]
  BY DEF Inv
<1>1. PICK i \in Ids : \/ VerifySucceeds(i) /\ entry[i] # None
                       \/ PickModel(i)
                       \/ RemoveEntry(i)
  BY DEF Next, vars, Announce, Listen, VerifySucceeds, VerifyFails, ValidateSucceeds,
     ValidateFails, ConfirmCard, Dismiss, SubmitUser, SubmitReconfigure, ReauthStart,
     ReauthEnd, Move, Restart
<1>2. CASE RemoveEntry(i)
  BY <1>0, <1>2 DEF RemoveEntry
<1>3. CASE VerifySucceeds(i) /\ entry[i] # None
  BY <1>0, <1>3 DEF VerifySucceeds, At
<1>4. CASE PickModel(i)
  <2>1. i = id /\ flow[i].at = "model"
    BY <1>0, <1>4 DEF PickModel, At
  <2>2. id = Pump
    BY <2>1, OnlyPump
  <2>. QED  BY <2>1, <2>2 DEF FlowFits, At
<1>. QED  BY <1>1, <1>2, <1>3, <1>4

-----------------------------------------------------------------------------
(* The listener's memory, and the bounds.                                  *)

(* One address per device, and no more devices than the memory has room for.*)
Map(s) ==
  /\ s \in Seq(Announcements)
  /\ \A i, j \in 1 .. Len(s) : s[i].id = s[j].id => i = j

Memory == Map(seen) /\ Len(seen) <= SeenMax

LEMMA WithIsMap ==
  ASSUME Map(seen), NEW info \in Announcements
  PROVE  Map(With(info)) /\ Len(With(info)) \in {Len(seen), Len(seen) + 1}
<1>1. /\ Len(seen) \in Nat /\ DOMAIN seen = 1 .. Len(seen)
      /\ \A i \in 1 .. Len(seen) : seen[i] \in Announcements
  BY LenProperties DEF Map
<1>2. CASE \E i \in DOMAIN seen : seen[i].id = info.id
  <2>. DEFINE s == [i \in DOMAIN seen |-> IF seen[i].id = info.id THEN info ELSE seen[i]]
  <2>1. With(info) = s
    BY <1>2 DEF With
  <2>2. s \in [1 .. Len(seen) -> Announcements]
    BY <1>1
  <2>3. s \in Seq(Announcements) /\ Len(s) = Len(seen)
    BY <1>1, <2>2, SeqDef, LenProperties
  <2>4. \A i \in 1 .. Len(seen) : s[i].id = seen[i].id
    BY <1>1
  <2>. HIDE DEF s
  <2>. QED  BY <2>1, <2>3, <2>4 DEF Map
<1>3. CASE ~ \E i \in DOMAIN seen : seen[i].id = info.id
  <2>1. With(info) = Append(seen, info)
    BY <1>3 DEF With
  <2>2. /\ Append(seen, info) \in Seq(Announcements)
        /\ Len(Append(seen, info)) = Len(seen) + 1
        /\ \A i \in 1 .. Len(seen) : Append(seen, info)[i] = seen[i]
        /\ Append(seen, info)[Len(seen) + 1] = info
    BY AppendProperties DEF Map
  <2>3. \A i \in 1 .. Len(seen) + 1 : i \in 1 .. Len(seen) \/ i = Len(seen) + 1
    BY <1>1
  <2>. QED  BY <1>1, <1>3, <2>1, <2>2, <2>3 DEF Map
<1>. QED  BY <1>2, <1>3

LEMMA RememberedIsMemory ==
  ASSUME Memory, NEW info \in Announcements
  PROVE  Map(Remembered(info)) /\ Len(Remembered(info)) <= SeenMax
<1>. DEFINE w == With(info)
<1>1. Map(w) /\ Len(w) \in {Len(seen), Len(seen) + 1}
  BY WithIsMap DEF Memory
<1>2. Len(seen) \in Nat /\ Len(seen) <= SeenMax /\ SeenMax \in Nat /\ Len(w) \in Nat
  BY <1>1, DiscoveryAssumption, LenProperties DEF Memory, Map
<1>3. CASE Len(w) > SeenMax
  <2>1. Remembered(info) = Tail(w)
    BY <1>3 DEF Remembered
  <2>. HIDE DEF w
  <2>2. w # <<>> /\ w \in Seq(Announcements)
    BY <1>1, <1>2, <1>3, EmptySeq DEF Map
  <2>3. /\ Tail(w) \in Seq(Announcements) /\ Len(Tail(w)) = Len(w) - 1
        /\ \A i \in 1 .. Len(Tail(w)) : Tail(w)[i] = w[i + 1]
    BY <2>2, HeadTailProperties
  <2>4. \A i, j \in 1 .. Len(Tail(w)) : Tail(w)[i].id = Tail(w)[j].id => i = j
    <3>. SUFFICES ASSUME NEW i \in 1 .. Len(Tail(w)), NEW j \in 1 .. Len(Tail(w)),
                         Tail(w)[i].id = Tail(w)[j].id
                  PROVE  i = j
      OBVIOUS
    <3>1. i + 1 \in 1 .. Len(w) /\ j + 1 \in 1 .. Len(w)
      BY <1>2, <2>3
    <3>2. w[i + 1].id = w[j + 1].id
      BY <2>3
    <3>3. i + 1 = j + 1
      BY <1>1, <3>1, <3>2 DEF Map
    <3>. QED  BY <2>3, <3>3
  <2>5. Len(Tail(w)) <= SeenMax
    <3>1. ASSUME NEW n \in Nat, NEW k \in Nat, NEW m \in Nat, m = n \/ m = n + 1, n <= k
          PROVE  m - 1 <= k
      BY <3>1
    <3>2. Len(w) \in {Len(seen), Len(seen) + 1} /\ Len(Tail(w)) = Len(w) - 1
      BY <1>1, <2>3
    <3>. QED  BY <1>2, <3>1, <3>2
  <2>6. Map(Tail(w))
    BY <2>3, <2>4 DEF Map
  <2>. QED  BY <2>1, <2>5, <2>6
<1>4. CASE ~ (Len(w) > SeenMax)
  BY <1>1, <1>2, <1>4 DEF Remembered
<1>. QED  BY <1>3, <1>4

Bounds ==
  /\ met \subseteq Addrs /\ Len(queue) <= QueueMax /\ events \in 0 .. MaxEvents
  /\ reauth \in BOOLEAN /\ heard \in BOOLEAN /\ turned \in BOOLEAN

LEMMA MemoryStep == Inv /\ Memory /\ [Next]_vars => Memory'
<1>. SUFFICES ASSUME Inv, Memory, [Next]_vars PROVE Memory'
  OBVIOUS
<1>1. CASE Listen
  <2>1. Head(queue) \in Announcements
    BY <1>1 DEF Listen, Inv
  <2>2. seen' = seen \/ seen' = Remembered(Head(queue))
    BY <1>1 DEF Listen
  <2>. QED  BY <2>1, <2>2, RememberedIsMemory DEF Memory
<1>2. CASE Restart
  <2>1. seen' = <<>> /\ SeenMax \in Nat
    BY <1>2, DiscoveryAssumption DEF Restart
  <2>. QED  BY <2>1 DEF Memory, Map
<1>3. CASE UNCHANGED seen
  BY <1>3 DEF Memory
<1>. QED  BY <1>1, <1>2, <1>3 DEF Next, vars, Announce, VerifySucceeds, VerifyFails,
       ValidateSucceeds, ValidateFails, ConfirmCard, PickModel, Dismiss, RemoveEntry,
       SubmitUser, SubmitReconfigure, ReauthStart, ReauthEnd, Move

LEMMA BoundsStep == AddressOK /\ Inv /\ Bounds /\ [Next]_vars => Bounds'
<1>. SUFFICES ASSUME AddressOK, Inv, Bounds, [Next]_vars PROVE Bounds'
  OBVIOUS
<1>0. /\ queue \in Seq(Announcements) /\ Len(queue) \in Nat
      /\ QueueMax \in Nat /\ MaxEvents \in Nat
  BY DiscoveryAssumption DEF Inv
<1>1. met' \subseteq Addrs
  <2>1. met' = met \/ met' = met \cup {addr}
    BY DEF Next, vars, Announce, Listen, VerifySucceeds, VerifyFails, Answers,
       ValidateSucceeds, ValidateFails, ConfirmCard, PickModel, Dismiss, RemoveEntry,
       SubmitUser, SubmitReconfigure, ReauthStart, ReauthEnd, Move, Restart
  <2>. QED  BY <2>1 DEF Bounds, AddressOK
<1>2. Len(queue') <= QueueMax
  <2>1. CASE Listen
    <3>1. Len(queue') = Len(queue) - 1
      BY <1>0, <2>1, HeadTailProperties DEF Listen
    <3>. QED  BY <1>0, <3>1 DEF Bounds
  <2>2. CASE Restart
    <3>1. Len(queue') = 0
      BY <2>2 DEF Restart
    <3>. QED  BY <1>0, <3>1
  <2>3. ASSUME NEW id, NEW ip, Announce(id, ip),
               [id |-> id, ip |-> ip] \in Announcements
        PROVE  Len(queue') <= QueueMax
    <3>1. queue' = Append(queue, [id |-> id, ip |-> ip]) /\ Len(queue) < QueueMax
      BY <2>3 DEF Announce
    <3>2. Len(queue') = Len(queue) + 1
      BY <1>0, <2>3, <3>1, AppendProperties
    <3>. QED  BY <1>0, <3>1, <3>2
  <2>4. CASE Announce(Pump, addr)
    <3>1. [id |-> Pump, ip |-> addr] \in Announcements
      BY DEF Announcements, AddressOK
    <3>. QED  BY <2>3, <2>4, <3>1
  <2>5. CASE \E id \in Others : Announce(id, Elsewhere)
    <3>1. \A id \in Others : [id |-> id, ip |-> Elsewhere] \in Announcements
      BY DEF Announcements
    <3>. QED  BY <2>3, <2>5, <3>1
  <2>6. CASE UNCHANGED queue
    BY <2>6 DEF Bounds
  <2>. QED  BY <2>1, <2>2, <2>4, <2>5, <2>6 DEF Next, vars, VerifySucceeds, VerifyFails,
       ValidateSucceeds, ValidateFails, ConfirmCard, PickModel, Dismiss, RemoveEntry,
       SubmitUser, SubmitReconfigure, ReauthStart, ReauthEnd, Move
<1>3. events' \in 0 .. MaxEvents
  <2>1. events' = events \/ (events < MaxEvents /\ events' = events + 1)
    BY DEF Next, vars, Announce, Listen, VerifySucceeds, VerifyFails,
       ValidateSucceeds, ValidateFails, ConfirmCard, PickModel, Dismiss, RemoveEntry,
       SubmitUser, SubmitReconfigure, ReauthStart, ReauthEnd, Move, Restart
  <2>. QED  BY <1>0, <2>1 DEF Bounds
<1>4. reauth' \in BOOLEAN
  <2>1. reauth' = reauth \/ reauth' = TRUE \/ reauth' = FALSE
    BY DEF Next, vars, Announce, Listen, VerifySucceeds, VerifyFails,
       ValidateSucceeds, ValidateFails, ConfirmCard, PickModel, Dismiss, RemoveEntry,
       SubmitUser, SubmitReconfigure, ReauthStart, ReauthEnd, Move, Restart
  <2>. QED  BY <2>1 DEF Bounds
<1>5. heard' \in BOOLEAN
  <2>1. heard' = heard \/ heard' = FALSE \/ Listen
    BY DEF Next, vars, Announce, VerifySucceeds, VerifyFails,
       ValidateSucceeds, ValidateFails, ConfirmCard, PickModel, Dismiss, RemoveEntry,
       SubmitUser, SubmitReconfigure, ReauthStart, ReauthEnd, Move, Restart
  <2>2. CASE Listen
    BY <2>2 DEF Listen
  <2>. QED  BY <2>1, <2>2 DEF Bounds
<1>6. turned' \in BOOLEAN
  <2>1. CASE Listen
    <3>1. turned' = turned \/ turned' = TRUE \/ turned' = FALSE
      BY <2>1 DEF Listen, Discovered
    <3>. QED  BY <3>1 DEF Bounds
  <2>2. CASE \E id \in Ids : PickModel(id) \/ Dismiss(id) \/ RemoveEntry(id)
    BY <2>2 DEF PickModel, Dismiss, RemoveEntry
  <2>3. CASE turned' = turned \/ turned' = TRUE \/ turned' = FALSE
    BY <2>3 DEF Bounds
  <2>. QED  BY <2>1, <2>2, <2>3 DEF Next, vars, Announce, VerifySucceeds, VerifyFails,
       ValidateSucceeds, ValidateFails, ConfirmCard,
       SubmitUser, SubmitReconfigure, ReauthStart, ReauthEnd, Move, Restart
<1>. QED  BY <1>1, <1>2, <1>3, <1>4, <1>5, <1>6 DEF Bounds

-----------------------------------------------------------------------------
(* The theorems.                                                           *)

(* The device keeps one of its addresses, and Inv holds, at every moment.  *)
THEOREM Safety == Spec => [](AddressOK /\ Inv)
<1>1. Init => AddressOK /\ Inv
  BY InvInit DEF Init, AddressOK
<1>. QED  BY <1>1, AddressStep, InvStep, PTL DEF Spec

(* Flows and the entry they are about agree at every moment.               *)
THEOREM FlowsFit == Spec => []FlowFits
<1>1. Init => FlowFits
  BY DEF Init, FlowFits, NoFlow, Flow, Ids
<1>. QED  BY <1>1, FitsStep, Safety, PTL DEF Spec

(* Only the user makes an entry, where there is none, and only a flow      *)
(* about it changes its host: nothing that was awaited while the user      *)
(* removed the entry brings it back, and no flow replaces one.             *)
THEOREM AskedFor == Spec => EntriesAskedFor
<1>1. Inv /\ FlowFits /\ [Next]_vars =>
        [\A id \in Ids : entry'[id] \notin {entry[id], None} =>
           IF entry[id] = None
           THEN At(id, "model") /\ flow[id].source \in {"user", "discovery"}
           ELSE \/ At(id, "verify")
                \/ At(id, "model") /\ flow[id].source = "reconfigure"]_vars
  BY EntryStep
<1>. QED  BY <1>1, FlowsFit, Safety, PTL DEF Spec, EntriesAskedFor

(* An entry's host is an address at which the heat pump has answered.      *)
THEOREM HostMet == Spec => []HostWasMet
<1>1. Inv => HostWasMet
  BY DEF Inv, HostWasMet, Ids
<1>. QED  BY <1>1, Safety, PTL

(* Every variable keeps its type. In particular the listener remembers one *)
(* address per device, of no more devices than it has room for, whoever    *)
(* announces what (_discovery_loop).                                       *)
THEOREM TypeCorrect == Spec => []TypeOK
<1>1. Init => Memory /\ Bounds
  <2>1. <<>> \in Seq(Announcements) /\ Len(<<>>) = 0
    BY EmptySeq
  <2>2. {QueueMax, SeenMax, MaxEvents} \subseteq Nat
    BY DiscoveryAssumption
  <2>. SUFFICES ASSUME Init PROVE Memory /\ Bounds
    OBVIOUS
  <2>3. seen = <<>> /\ queue = <<>> /\ met = {} /\ events = 0
        /\ reauth = FALSE /\ heard = FALSE /\ turned = FALSE
    BY DEF Init
  <2>4. Memory
    BY <2>1, <2>2, <2>3 DEF Memory, Map
  <2>5. Bounds
    <3>1. met \subseteq Addrs /\ Len(queue) <= QueueMax /\ events \in 0 .. MaxEvents
      BY <2>1, <2>2, <2>3
    <3>2. reauth \in BOOLEAN /\ heard \in BOOLEAN /\ turned \in BOOLEAN
      BY <2>3
    <3>. QED  BY <3>1, <3>2 DEF Bounds
  <2>. QED  BY <2>4, <2>5
<1>2. AddressOK /\ Inv /\ Memory /\ Bounds => TypeOK
  <2>. SUFFICES ASSUME AddressOK, Inv, Memory, Bounds PROVE TypeOK
    OBVIOUS
  <2>1. DOMAIN seen = 1 .. Len(seen)
    BY LenProperties DEF Memory, Map
  <2>2. IsInjective([i \in DOMAIN seen |-> seen[i].id])
    BY <2>1 DEF Memory, Map, IsInjective
  <2>3. \A id \in Ids :
          /\ flow[id].source \in {"none", "discovery", "user", "reconfigure"}
          /\ flow[id].at \in {"none", "verify", "form", "validate", "model"}
          /\ flow[id].host \in Addrs \cup {None}
          /\ entry[id] \in Addrs \cup {None}
    BY DEF Inv, FlowShape
  <2>4. seen \in Seq(Announcements) /\ Len(seen) <= SeenMax
    BY DEF Memory, Map
  <2>5. {reauth, heard, turned} \subseteq BOOLEAN
    BY DEF Bounds
  <2>. QED  BY <2>2, <2>3, <2>4, <2>5 DEF TypeOK, AddressOK, Inv, Bounds
<1>. QED  BY <1>1, <1>2, Safety, MemoryStep, BoundsStep, PTL DEF Spec
=============================================================================
