-------------------------- MODULE ConnectionProofs --------------------------
(***************************************************************************)
(* Theorems about Connection: what holds for any set of requests and       *)
(* sockets and every way a session may end.                                *)
(***************************************************************************)
EXTENDS Connection, TLAPS

(* The owner's part: what is true whenever it is not "up".                 *)
OwnerInv ==
  /\ pc["app"] # "up" => pc["loop"] = "off" /\ rd = {}
  /\ pc["app"] \in {"gather", "wclose"} => closing
  /\ closing => pc["app"] \in {"gather", "wclose", "down"}
  /\ pc["app"] \in {"down", "opening"} => writer = NoSocket /\ ~lost /\ ~authErr
  /\ pc["app"] = "wclose" => ~Connected

(* One socket, one reader.                                                 *)
SocketInv ==
  /\ \A r \in Requests : pc[r] # "opening"
  /\ \A s \in Sockets : Open(s) => s = writer
  /\ rd \subseteq {writer} /\ rd \subseteq {cur}

(* The reconnect loop runs on a dead session, and only a live one is not   *)
(* reported lost.                                                          *)
LoopInv ==
  /\ pc["loop"] \in {"closing", "sleep", "opening"} => ~Connected
  /\ pc["loop"] = "opening" => rd = {}
  /\ pc["loop"] \in {"start", "closing", "opening"} => lost
  /\ pc["app"] = "up" /\ ~lost => writer \in rd
  /\ authErr => \/ pc["app"] \in {"gather", "wclose"}
                \/ lost /\ pc["loop"] \in {"sleep", "opening"}

WaitInv ==
  /\ \A a \in Requesters : pc[a] = "wait" => a \in pending
  /\ pc["app"] \in {"wclose", "down", "opening"}
       => \A a \in Requesters : pc[a] # "wait"

PersistentInv == OwnerInv /\ SocketInv /\ LoopInv /\ WaitInv

(* Without half-closed sockets.                                            *)
ResetInv ==
  /\ \A s \in Sockets : net[s] # "eof"
  /\ pc["app"] = "up" /\ lost => ~Connected /\ pc["loop"] # "off"
  /\ pc["app"] # "gather"
       => \A a \in Requesters : pc[a] = "wait" => writer \in rd
-----------------------------------------------------------------------------
USE ConnectionAssumption DEF Actors, Requesters

(* Who the actors are: the owner, the reconnect loop and the requesters.    *)
LEMMA ActorFacts ==
  /\ "app" \in Actors /\ "loop" \in Actors /\ "loop" \in Requesters
  /\ \A r \in Requests : r \in Actors /\ r \in Requesters /\ r # "app" /\ r # "loop"
  /\ \A a \in Requesters : a \in Actors /\ a # "app"
  OBVIOUS

(* FailPending keeps every actor in its own states and moves only waiting  *)
(* requesters.                                                             *)
LEMMA FailPendingType ==
  ASSUME TypeOK, NEW p \in [Actors -> PcStates], \A a \in Actors : p[a] \in PcOf(a)
  PROVE  /\ FailPending(p) \in [Actors -> PcStates]
         /\ \A a \in Actors : FailPending(p)[a] \in PcOf(a)
  BY ActorFacts DEF FailPending, After, AtRest, PcOf, PcStates, TypeOK

(* _on_connection_dropped keeps the types of what it writes.                *)
LEMMA OnConnectionDroppedType ==
  ASSUME TypeOK, NEW p \in [Actors -> PcStates], \A a \in Actors : p[a] \in PcOf(a),
         OnConnectionDropped(p)
  PROVE  /\ pc' \in [Actors -> PcStates]
         /\ \A a \in Actors : pc'[a] \in PcOf(a)
         /\ lost' \in BOOLEAN
         /\ notes' \in {"none", "down", "up"} \X {"none", "down", "up"}
<1>1. lost' \in BOOLEAN /\ pc' \in [Actors -> PcStates]
  BY ActorFacts DEF OnConnectionDropped, PcStates, TypeOK
<1>2. \A a \in Actors : pc'[a] \in PcOf(a)
  BY ActorFacts DEF OnConnectionDropped, PcOf
<1>3. notes' \in {"none", "down", "up"} \X {"none", "down", "up"}
  <2>1. CASE UNCHANGED notes
    BY <2>1 DEF TypeOK
  <2>2. CASE notes' = <<notes[2], "down">>
    BY <2>2 DEF TypeOK
  <2> QED BY <2>1, <2>2 DEF OnConnectionDropped, Notify
<1> QED BY <1>1, <1>2, <1>3

(* Every variable keeps its type, whatever the version and the drops.      *)
THEOREM TypeCorrect == Spec => []TypeOK
<1>1. Init => TypeOK
  <2> SUFFICES ASSUME Init PROVE TypeOK
    OBVIOUS
  <2>1. pc \in [Actors -> PcStates] /\ \A a \in Actors : pc[a] \in PcOf(a)
    BY ActorFacts DEF Init, AtRest, PcOf, PcStates
  <2>2. notes \in {"none", "down", "up"} \X {"none", "down", "up"}
    BY DEF Init
  <2> QED BY <2>1, <2>2 DEF Init, TypeOK, NetStates
<1>2. TypeOK /\ [Next]_vars => TypeOK'
  <2> SUFFICES ASSUME TypeOK, [Next]_vars PROVE TypeOK'
    OBVIOUS
  <2>1. CASE AppConnect
    BY <2>1, ActorFacts DEF AppConnect, EnterConnect, TypeOK, PcOf, PcStates
  <2>2. ASSUME NEW a \in Actors, NEW s \in Sockets, ConnectSucceeds(a, s) PROVE TypeOK'
    <3>1. pc' \in [Actors -> PcStates] /\ \A b \in Actors : pc'[b] \in PcOf(b)
      BY <2>2, ActorFacts DEF ConnectSucceeds, TypeOK, PcOf, PcStates
    <3>2. notes' \in {"none", "down", "up"} \X {"none", "down", "up"}
      BY <2>2 DEF ConnectSucceeds, Notify, TypeOK
    <3> QED BY <2>2, <3>1, <3>2 DEF ConnectSucceeds, TypeOK, NetStates
  <2>3. ASSUME NEW a \in Actors, NEW rejected \in BOOLEAN, ConnectFails(a, rejected) PROVE TypeOK'
    BY <2>3, ActorFacts DEF ConnectFails, AtRest, TypeOK, PcOf, PcStates
  <2>4. CASE DisconnectBegin
    <3>1. pc' \in [Actors -> PcStates] /\ \A a \in Actors : pc'[a] \in PcOf(a)
      <4> DEFINE p == IF cur \in rd THEN FailPending(pc) ELSE pc
      <4>1. p \in [Actors -> PcStates] /\ \A a \in Actors : p[a] \in PcOf(a)
        BY FailPendingType DEF TypeOK
      <4>2. pc' = [p EXCEPT !["app"] = "gather", !["loop"] = "off"]
        BY <2>4 DEF DisconnectBegin
      <4> HIDE DEF p
      <4> QED BY <4>1, <4>2, ActorFacts DEF PcOf, PcStates
    <3> QED BY <2>4, <3>1 DEF DisconnectBegin, TypeOK
  <2>5. CASE DisconnectClose
    <3>1. pc' \in [Actors -> PcStates] /\ \A a \in Actors : pc'[a] \in PcOf(a)
      BY <2>5, ActorFacts, FailPendingType DEF DisconnectClose, TypeOK, PcOf, PcStates
    <3> QED BY <2>5, <3>1 DEF DisconnectClose, TypeOK, CloseWriterIfAny, ShutWriter, NetStates
  <2>6. CASE DisconnectEnd
    BY <2>6, ActorFacts DEF DisconnectEnd, TypeOK, PcOf, PcStates
  <2>7. ASSUME NEW r \in Requests, RequestBegin(r) PROVE TypeOK'
    BY <2>7, ActorFacts DEF RequestBegin, EnterConnect, TypeOK, PcOf, PcStates
  <2>8. ASSUME NEW a \in Requesters, RequestSend(a) PROVE TypeOK'
    BY <2>8, ActorFacts DEF RequestSend, After, AtRest, TypeOK, PcOf, PcStates, NetStates
  <2>9. ASSUME NEW a \in Requesters, NEW answered \in BOOLEAN, RequestEnds(a, answered) PROVE TypeOK'
    BY <2>9, ActorFacts DEF RequestEnds, After, AtRest, TypeOK, PcOf, PcStates
  <2>10. ASSUME NEW s \in Sockets, NEW how \in {"eof", "bad"}, PeerDrops(s, how) PROVE TypeOK'
    BY <2>10 DEF PeerDrops, TypeOK, NetStates
  <2>11. ASSUME NEW s \in Sockets, CollectWriter(s) PROVE TypeOK'
    BY <2>11 DEF CollectWriter, TypeOK, NetStates
  <2>12. ASSUME NEW s \in Sockets, ReaderExits(s) PROVE TypeOK'
    <3>1. CASE ~Persistent /\ net[s] \in {"eof", "shut"} /\ ~closing
      BY <2>12, <3>1, FailPendingType
      DEF ReaderExits, TypeOK, CloseWriterIfAny, ShutWriter, NetStates
    <3>2. CASE ~(~Persistent /\ net[s] \in {"eof", "shut"} /\ ~closing)
      BY <2>12, <3>2, FailPendingType, OnConnectionDroppedType DEF ReaderExits, TypeOK
    <3> QED BY <3>1, <3>2
  <2>13. ASSUME NEW s \in Sockets, ReaderDesyncs(s) PROVE TypeOK'
    BY <2>13, FailPendingType, OnConnectionDroppedType
    DEF ReaderDesyncs, TypeOK, CloseWriterIfAny, ShutWriter, NetStates
  <2>14. ASSUME NEW s \in Sockets, HeartbeatStops(s) PROVE TypeOK'
    BY <2>14 DEF HeartbeatStops, TypeOK
  <2>15. ASSUME NEW s \in Sockets, HeartbeatFails(s) PROVE TypeOK'
    BY <2>15, OnConnectionDroppedType DEF HeartbeatFails, TypeOK, NetStates
  <2>16. CASE LoopClose
    BY <2>16, ActorFacts DEF LoopClose, TypeOK, PcOf, PcStates, CloseWriterIfAny, ShutWriter, NetStates
  <2>17. CASE LoopReap
    <3>1. CASE cur \in rd
      <4> DEFINE p == [FailPending(pc) EXCEPT !["loop"] = "sleep"]
      <4>1. p \in [Actors -> PcStates] /\ \A a \in Actors : p[a] \in PcOf(a)
        BY ActorFacts, FailPendingType DEF TypeOK, PcOf, PcStates
      <4>2. OnConnectionDropped(p)
        BY <2>17, <3>1 DEF LoopReap
      <4> HIDE DEF p
      <4> QED BY <2>17, <3>1, <4>1, <4>2, OnConnectionDroppedType DEF LoopReap, TypeOK
    <3>2. CASE cur \notin rd
      BY <2>17, <3>2, ActorFacts DEF LoopReap, TypeOK, PcOf, PcStates
    <3> QED BY <3>1, <3>2
  <2>18. CASE LoopWake
    <3>1. \/ pc' = [pc EXCEPT !["loop"] = "off"] /\ UNCHANGED closing
          \/ pc' = [pc EXCEPT !["loop"] = "lock"] /\ UNCHANGED closing
          \/ pc' = [pc EXCEPT !["loop"] = "opening"] /\ closing' = FALSE
      BY <2>18 DEF LoopWake, EnterConnect
    <3> QED BY <2>18, <3>1, ActorFacts DEF LoopWake, TypeOK, PcOf, PcStates
  <2>19. CASE LoopCheck
    BY <2>19, ActorFacts DEF LoopCheck, TypeOK, PcOf, PcStates
  <2>20. CASE UNCHANGED vars
    BY <2>20 DEF vars, TypeOK
  <2> QED
    BY <2>1, <2>2, <2>3, <2>4, <2>5, <2>6, <2>7, <2>8, <2>9, <2>10, <2>11, <2>12,
       <2>13, <2>14, <2>15, <2>16, <2>17, <2>18, <2>19, <2>20
    DEF Next, Disconnect, LoopStep
<1> QED BY <1>1, <1>2, PTL DEF Spec

-----------------------------------------------------------------------------
(* What the two shared pieces of the handlers do to pc.                    *)

(* FailPending ends every wait and moves nobody else.                      *)
LEMMA FailPendingFacts ==
  ASSUME TypeOK, WaitInv
  PROVE  /\ FailPending(pc) \in [Actors -> PcStates]
         /\ FailPending(pc)["app"] = pc["app"]
         /\ FailPending(pc)["loop"] = IF pc["loop"] = "wait" THEN "check" ELSE pc["loop"]
         /\ \A r \in Requests : FailPending(pc)[r] = IF pc[r] = "wait" THEN "idle" ELSE pc[r]
         /\ \A a \in Requesters : FailPending(pc)[a] # "wait"
<1>1. FailPending(pc) \in [Actors -> PcStates]
  BY FailPendingType DEF TypeOK
<1>2. "app" \notin pending
  BY ActorFacts DEF TypeOK
<1> QED BY <1>1, <1>2, ActorFacts DEF FailPending, After, AtRest, WaitInv

(* _on_connection_dropped starts the loop on a first loss, moves no one    *)
(* else, and leaves the loss recorded unless the client is closing.        *)
LEMMA DroppedFacts ==
  ASSUME TypeOK, NEW p \in [Actors -> PcStates], OnConnectionDropped(p)
  PROVE  /\ \A a \in Actors : a # "loop" => pc'[a] = p[a]
         /\ pc'["loop"] = IF ~closing /\ ~lost /\ p["loop"] = "off"
                           THEN "start" ELSE p["loop"]
         /\ lost' = (lost \/ ~closing)
  BY ActorFacts DEF OnConnectionDropped, TypeOK

(* Both together: a read loop's exit that reports the loss.                *)
LEMMA FailAndDropFacts ==
  ASSUME TypeOK, WaitInv, OnConnectionDropped(FailPending(pc))
  PROVE  /\ pc'["app"] = pc["app"]
         /\ pc'["loop"] = IF ~closing /\ ~lost /\ pc["loop"] = "off" THEN "start"
                          ELSE IF pc["loop"] = "wait" THEN "check" ELSE pc["loop"]
         /\ \A r \in Requests : pc'[r] = IF pc[r] = "wait" THEN "idle" ELSE pc[r]
         /\ \A a \in Requesters : pc'[a] # "wait"
         /\ lost' = (lost \/ ~closing)
<1> DEFINE p == FailPending(pc)
<1>1. /\ p \in [Actors -> PcStates]
      /\ p["app"] = pc["app"]
      /\ p["loop"] = IF pc["loop"] = "wait" THEN "check" ELSE pc["loop"]
      /\ \A r \in Requests : p[r] = IF pc[r] = "wait" THEN "idle" ELSE pc[r]
      /\ \A a \in Requesters : p[a] # "wait"
  BY FailPendingFacts
<1>2. OnConnectionDropped(p)
  OBVIOUS
<1> HIDE DEF p
<1>3. /\ \A a \in Actors : a # "loop" => pc'[a] = p[a]
      /\ pc'["loop"] = IF ~closing /\ ~lost /\ p["loop"] = "off" THEN "start" ELSE p["loop"]
      /\ lost' = (lost \/ ~closing)
  BY <1>1, <1>2, DroppedFacts
<1> QED BY <1>1, <1>3, ActorFacts

(* On v3.3 and v3.5 every step keeps the strengthened invariant.           *)
LEMMA PersistentStep ==
  ASSUME Persistent, TypeOK, TypeOK', PersistentInv, [Next]_vars
  PROVE  PersistentInv'
<1> USE DEF PersistentInv, OwnerInv, SocketInv, LoopInv, WaitInv, Open, Connected
<1>1. CASE AppConnect
  BY <1>1, ActorFacts DEF AppConnect, EnterConnect, TypeOK
<1>2. ASSUME NEW a \in Actors, NEW s \in Sockets, ConnectSucceeds(a, s) PROVE PersistentInv'
  BY <1>2, ActorFacts DEF ConnectSucceeds, Unused, TypeOK
<1>3. ASSUME NEW a \in Actors, NEW rejected \in BOOLEAN, ConnectFails(a, rejected) PROVE PersistentInv'
  BY <1>3, ActorFacts DEF ConnectFails, AtRest, TypeOK
<1>4. CASE DisconnectBegin
  BY <1>4, ActorFacts, FailPendingFacts DEF DisconnectBegin, TypeOK
<1>5. CASE DisconnectClose
  BY <1>5, ActorFacts, FailPendingFacts DEF DisconnectClose, CloseWriterIfAny, ShutWriter, TypeOK
<1>6. CASE DisconnectEnd
  BY <1>6, ActorFacts DEF DisconnectEnd, TypeOK
<1>7. ASSUME NEW r \in Requests, RequestBegin(r) PROVE PersistentInv'
  BY <1>7, ActorFacts DEF RequestBegin, TypeOK
<1>8. ASSUME NEW a \in Requesters, RequestSend(a) PROVE PersistentInv'
  BY <1>8, ActorFacts DEF RequestSend, After, AtRest, TypeOK
<1>9. ASSUME NEW a \in Requesters, NEW answered \in BOOLEAN, RequestEnds(a, answered) PROVE PersistentInv'
  BY <1>9, ActorFacts DEF RequestEnds, After, AtRest, TypeOK
<1>10. ASSUME NEW s \in Sockets, NEW how \in {"eof", "bad"}, PeerDrops(s, how) PROVE PersistentInv'
  BY <1>10 DEF PeerDrops, TypeOK
<1>11. ASSUME NEW s \in Sockets, CollectWriter(s) PROVE PersistentInv'
  BY <1>11 DEF CollectWriter, TypeOK
<1>12. ASSUME NEW s \in Sockets, ReaderExits(s) PROVE PersistentInv'
  <2>1. OnConnectionDropped(FailPending(pc)) /\ UNCHANGED <<net, writer>>
    BY <1>12 DEF ReaderExits
  <2> QED BY <1>12, <2>1, ActorFacts, FailAndDropFacts DEF ReaderExits, TypeOK
<1>13. ASSUME NEW s \in Sockets, ReaderDesyncs(s) PROVE PersistentInv'
  <2>1. OnConnectionDropped(FailPending(pc))
    BY <1>13 DEF ReaderDesyncs
  <2> QED BY <1>13, <2>1, ActorFacts, FailAndDropFacts
          DEF ReaderDesyncs, CloseWriterIfAny, ShutWriter, TypeOK
<1>14. ASSUME NEW s \in Sockets, HeartbeatStops(s) PROVE PersistentInv'
  BY <1>14 DEF HeartbeatStops, TypeOK
<1>15. ASSUME NEW s \in Sockets, HeartbeatFails(s) PROVE PersistentInv'
  <2>1. OnConnectionDropped(pc) /\ pc \in [Actors -> PcStates]
    BY <1>15 DEF HeartbeatFails, TypeOK
  <2>2. /\ \A a \in Actors : a # "loop" => pc'[a] = pc[a]
        /\ pc'["loop"] = IF ~closing /\ ~lost /\ pc["loop"] = "off"
                         THEN "start" ELSE pc["loop"]
        /\ lost' = (lost \/ ~closing)
    BY <2>1, DroppedFacts
  <2>3. pc["app"] = "up" /\ ~closing /\ lost' /\ pc["loop"] \notin {"closing", "sleep", "opening"}
    BY <1>15, <2>2, ActorFacts DEF HeartbeatFails, TypeOK, PcOf
  <2>4. net' = [net EXCEPT ![writer] = "bad"] /\ writer \in Sockets
        /\ UNCHANGED <<rd, writer, cur, closing, authErr, pending>>
    BY <1>15 DEF HeartbeatFails, TypeOK
  <2>5. OwnerInv' /\ WaitInv'
    BY <2>2, <2>3, <2>4, ActorFacts
  <2>6. SocketInv'
    BY <2>2, <2>3, <2>4, ActorFacts DEF TypeOK
  <2>7. LoopInv'
    BY <2>2, <2>3, <2>4, ActorFacts DEF TypeOK
  <2> QED BY <2>5, <2>6, <2>7
<1>16. CASE LoopClose
  BY <1>16, ActorFacts DEF LoopClose, CloseWriterIfAny, ShutWriter, TypeOK
<1>17. CASE LoopReap
  <2>1. CASE cur \in rd
    <3> DEFINE p == [FailPending(pc) EXCEPT !["loop"] = "sleep"]
    <3>1. /\ pc' = p /\ UNCHANGED lost /\ lost
      BY <1>17, <2>1 DEF LoopReap, OnConnectionDropped
    <3> QED BY <1>17, <2>1, <3>1, ActorFacts, FailPendingFacts DEF LoopReap, TypeOK
  <2>2. CASE cur \notin rd
    BY <1>17, <2>2, ActorFacts DEF LoopReap, TypeOK
  <2> QED BY <2>1, <2>2
<1>18. CASE LoopWake
  BY <1>18, ActorFacts DEF LoopWake, EnterConnect, ReadersIdle, TypeOK
<1>19. CASE LoopCheck
  BY <1>19, ActorFacts DEF LoopCheck, TypeOK
<1>20. CASE UNCHANGED vars
  BY <1>20 DEF vars
<1> QED
  BY <1>1, <1>2, <1>3, <1>4, <1>5, <1>6, <1>7, <1>8, <1>9, <1>10, <1>11, <1>12,
     <1>13, <1>14, <1>15, <1>16, <1>17, <1>18, <1>19, <1>20
  DEF Next, Disconnect, LoopStep

(* Drops of the kinds that leave the transport closed also keep the loop   *)
(* alive while a loss is outstanding, and requests on watched sockets.     *)
LEMMA ResetStep ==
  ASSUME Persistent, "eof" \notin Drops, TypeOK, TypeOK', PersistentInv, PersistentInv',
         ResetInv, [Next]_vars
  PROVE  ResetInv'
<1> USE DEF ResetInv, Open, Connected
<1> USE DEF PersistentInv, OwnerInv, SocketInv, LoopInv, WaitInv
<1>1. CASE AppConnect
  BY <1>1, ActorFacts DEF AppConnect, EnterConnect, TypeOK
<1>2. ASSUME NEW a \in Actors, NEW s \in Sockets, ConnectSucceeds(a, s) PROVE ResetInv'
  BY <1>2, ActorFacts DEF ConnectSucceeds, Unused, TypeOK
<1>3. ASSUME NEW a \in Actors, NEW rejected \in BOOLEAN, ConnectFails(a, rejected) PROVE ResetInv'
  BY <1>3, ActorFacts DEF ConnectFails, AtRest, TypeOK
<1>4. CASE DisconnectBegin
  BY <1>4, ActorFacts DEF DisconnectBegin, TypeOK
<1>5. CASE DisconnectClose
  BY <1>5, ActorFacts, FailPendingFacts DEF DisconnectClose, CloseWriterIfAny, ShutWriter, TypeOK
<1>6. CASE DisconnectEnd
  BY <1>6, ActorFacts DEF DisconnectEnd, TypeOK
<1>7. ASSUME NEW r \in Requests, RequestBegin(r) PROVE ResetInv'
  BY <1>7, ActorFacts DEF RequestBegin, TypeOK
<1>8. ASSUME NEW a \in Requesters, RequestSend(a) PROVE ResetInv'
  BY <1>8, ActorFacts DEF RequestSend, After, AtRest, TypeOK, PcOf
<1>9. ASSUME NEW a \in Requesters, NEW answered \in BOOLEAN, RequestEnds(a, answered) PROVE ResetInv'
  BY <1>9, ActorFacts DEF RequestEnds, After, AtRest, TypeOK
<1>10. ASSUME NEW s \in Sockets, NEW how \in {"eof", "bad"}, PeerDrops(s, how) PROVE ResetInv'
  BY <1>10 DEF PeerDrops, TypeOK
<1>11. ASSUME NEW s \in Sockets, CollectWriter(s) PROVE ResetInv'
  BY <1>11 DEF CollectWriter, TypeOK
<1>12. ASSUME NEW s \in Sockets, ReaderExits(s) PROVE ResetInv'
  <2>1. OnConnectionDropped(FailPending(pc)) /\ UNCHANGED <<net, writer>>
    BY <1>12 DEF ReaderExits
  <2> QED BY <1>12, <2>1, ActorFacts, FailAndDropFacts DEF ReaderExits, TypeOK
<1>13. ASSUME NEW s \in Sockets, ReaderDesyncs(s) PROVE ResetInv'
  <2>1. OnConnectionDropped(FailPending(pc))
    BY <1>13 DEF ReaderDesyncs
  <2> QED BY <1>13, <2>1, ActorFacts, FailAndDropFacts
          DEF ReaderDesyncs, CloseWriterIfAny, ShutWriter, TypeOK
<1>14. ASSUME NEW s \in Sockets, HeartbeatStops(s) PROVE ResetInv'
  BY <1>14 DEF HeartbeatStops, TypeOK
<1>15. ASSUME NEW s \in Sockets, HeartbeatFails(s) PROVE ResetInv'
  <2>1. OnConnectionDropped(pc) /\ pc \in [Actors -> PcStates]
    BY <1>15 DEF HeartbeatFails, TypeOK
  <2>2. /\ \A a \in Actors : a # "loop" => pc'[a] = pc[a]
        /\ pc'["loop"] = IF ~closing /\ ~lost /\ pc["loop"] = "off"
                         THEN "start" ELSE pc["loop"]
        /\ lost' = (lost \/ ~closing)
    BY <2>1, DroppedFacts
  <2>3. ~closing /\ net' = [net EXCEPT ![writer] = "bad"] /\ writer \in Sockets
        /\ UNCHANGED <<rd, writer>> /\ Connected
    BY <1>15 DEF HeartbeatFails, TypeOK
  <2> QED BY <2>2, <2>3, ActorFacts DEF TypeOK
<1>16. CASE LoopClose
  BY <1>16, ActorFacts DEF LoopClose, CloseWriterIfAny, ShutWriter, TypeOK
<1>17. CASE LoopReap
  <2>1. CASE cur \in rd
    <3> DEFINE p == [FailPending(pc) EXCEPT !["loop"] = "sleep"]
    <3>1. /\ pc' = p /\ UNCHANGED lost /\ lost
      BY <1>17, <2>1 DEF LoopReap, OnConnectionDropped
    <3> QED BY <1>17, <2>1, <3>1, ActorFacts, FailPendingFacts DEF LoopReap, TypeOK
  <2>2. CASE cur \notin rd
    BY <1>17, <2>2, ActorFacts DEF LoopReap, TypeOK
  <2> QED BY <2>1, <2>2
<1>18. CASE LoopWake
  BY <1>18, ActorFacts DEF LoopWake, EnterConnect, TypeOK
<1>19. CASE LoopCheck
  BY <1>19, ActorFacts DEF LoopCheck, TypeOK
<1>20. CASE UNCHANGED vars
  BY <1>20 DEF vars
<1> QED
  BY <1>1, <1>2, <1>3, <1>4, <1>5, <1>6, <1>7, <1>8, <1>9, <1>10, <1>11, <1>12,
     <1>13, <1>14, <1>15, <1>16, <1>17, <1>18, <1>19, <1>20
  DEF Next, Disconnect, LoopStep

-----------------------------------------------------------------------------
(* The theorems.                                                           *)

(* On every version and under every kind of drop, the listeners hear of    *)
(* losses and recoveries in turn, and _connection_lost_handled records     *)
(* exactly the loss they still have to hear the end of.                    *)
THEOREM NotificationsAlternate == Spec => []NotesAlternate
<1>1. Init => NotesAlternate
  BY DEF Init, NotesAlternate
<1>2. TypeOK /\ NotesAlternate /\ [Next]_vars => NotesAlternate'
  <2> SUFFICES ASSUME TypeOK, NotesAlternate, [Next]_vars PROVE NotesAlternate'
    OBVIOUS
  <2>1. \/ UNCHANGED <<lost, notes>>
        \/ ~lost /\ lost' /\ notes' = <<notes[2], "down">>
        \/ ~lost' /\ notes' = IF lost THEN <<notes[2], "up">> ELSE notes
        \/ ~lost' /\ notes' = <<"none", "none">>
    <3>1. ASSUME NEW p, OnConnectionDropped(p)
          PROVE  \/ UNCHANGED <<lost, notes>>
                 \/ ~lost /\ lost' /\ notes' = <<notes[2], "down">>
      BY <3>1 DEF OnConnectionDropped, Notify
    <3>2. ASSUME NEW a \in Actors, NEW s \in Sockets, ConnectSucceeds(a, s)
          PROVE  ~lost' /\ notes' = IF lost THEN <<notes[2], "up">> ELSE notes
      BY <3>2 DEF ConnectSucceeds, Notify
    <3>3. CASE DisconnectEnd
      BY <3>3 DEF DisconnectEnd
    <3>4. ASSUME NEW s \in Sockets, ReaderExits(s) \/ ReaderDesyncs(s) \/ HeartbeatFails(s)
          PROVE  UNCHANGED <<lost, notes>> \/ \E p : OnConnectionDropped(p)
      BY <3>4 DEF ReaderExits, ReaderDesyncs, HeartbeatFails
    <3>5. CASE LoopReap
      BY <3>1, <3>5 DEF LoopReap
    <3>6. \/ UNCHANGED <<lost, notes>> \/ DisconnectEnd \/ LoopReap
          \/ \E a \in Actors, s \in Sockets : ConnectSucceeds(a, s)
          \/ \E s \in Sockets : ReaderExits(s) \/ ReaderDesyncs(s) \/ HeartbeatFails(s)
      BY DEF Next, vars, Disconnect, LoopStep, AppConnect, ConnectFails, DisconnectBegin,
             DisconnectClose, RequestBegin, RequestSend, RequestEnds, PeerDrops,
             CollectWriter, HeartbeatStops, LoopClose, LoopWake, LoopCheck
    <3> QED BY <3>1, <3>2, <3>3, <3>4, <3>5, <3>6
  <2> QED BY <2>1 DEF NotesAlternate, TypeOK
<1> QED BY <1>1, <1>2, TypeCorrect, PTL DEF Spec

(* PersistentInv holds in every state of a v3.3 or v3.5 client.            *)
LEMMA PersistentInvariant == ASSUME Persistent PROVE Spec => []PersistentInv
<1>1. Init => PersistentInv
  BY ActorFacts DEF Init, AtRest, PersistentInv, OwnerInv, SocketInv, LoopInv, WaitInv,
                    Open, Connected
<1>2. TypeOK /\ TypeOK' /\ PersistentInv /\ [Next]_vars => PersistentInv'
  BY PersistentStep
<1> QED BY <1>1, <1>2, TypeCorrect, PTL DEF Spec

(* ResetInv holds in every state if no session ends by a FIN.              *)
LEMMA ResetInvariant == ASSUME Persistent, "eof" \notin Drops PROVE Spec => []ResetInv
<1>1. Init => ResetInv
  BY ActorFacts DEF Init, AtRest, ResetInv
<1>2. TypeOK /\ TypeOK' /\ PersistentInv /\ PersistentInv' /\ ResetInv /\ [Next]_vars
        => ResetInv'
  BY ResetStep
<1> QED BY <1>1, <1>2, TypeCorrect, PersistentInvariant, PTL DEF Spec

(* v3.3 and v3.5 never hold two sockets open, nor an unwatched reader.     *)
THEOREM OneSession == Spec => []SingleSession
<1>1. CASE Persistent
  <2>1. PersistentInv => SingleSession
    BY DEF PersistentInv, SocketInv, SingleSession
  <2> QED BY <1>1, <2>1, PersistentInvariant, PTL
<1>2. CASE ~Persistent
  <2>1. SingleSession
    BY <1>2 DEF SingleSession
  <2> QED BY <2>1, PTL
<1> QED BY <1>1, <1>2

(* A v3.3 or v3.5 client that reports no loss reads the socket it writes.  *)
THEOREM Watched == Spec => []WatchedWhileUp
<1>1. CASE Persistent
  <2>1. PersistentInv => WatchedWhileUp
    BY DEF PersistentInv, LoopInv, WatchedWhileUp
  <2> QED BY <1>1, <2>1, PersistentInvariant, PTL
<1>2. CASE ~Persistent
  <2>1. WatchedWhileUp
    BY <1>2 DEF WatchedWhileUp
  <2> QED BY <2>1, PTL
<1> QED BY <1>1, <1>2

(* A recorded key rejection is one the reconnect loop still retries.       *)
THEOREM AuthErrorFresh == Spec => []AuthErrorIsFresh
<1>1. CASE Persistent
  <2>1. PersistentInv => AuthErrorIsFresh
    BY DEF PersistentInv, LoopInv, AuthErrorIsFresh
  <2> QED BY <1>1, <2>1, PersistentInvariant, PTL
<1>2. CASE ~Persistent
  <2>1. AuthErrorIsFresh
    BY <1>2 DEF AuthErrorIsFresh
  <2> QED BY <2>1, PTL
<1> QED BY <1>1, <1>2

(* On v3.3 and v3.5 disconnect() leaves nothing running, whatever was in   *)
(* progress when it was called (on v3.4 a lazy reconnect may be).          *)
THEOREM StaysDown == ASSUME Persistent PROVE Spec => []DownStaysDown
<1>1. TypeOK /\ PersistentInv => DownStaysDown
  BY DEF TypeOK, PersistentInv, OwnerInv, SocketInv, WaitInv, DownStaysDown
<1> QED BY <1>1, TypeCorrect, PersistentInvariant, PTL

(* If no session ends by a FIN, a v3.3 or v3.5 client that reported a loss *)
(* has a reconnect task on it until it is disconnected.                    *)
THEOREM RetryAfterLoss ==
  ASSUME Persistent, "eof" \notin Drops PROVE Spec => []LostHasRetry
<1>1. TypeOK /\ PersistentInv /\ ResetInv => LostHasRetry
  BY ActorFacts DEF TypeOK, PcOf, PersistentInv, OwnerInv, ResetInv, LostHasRetry
<1> QED BY <1>1, TypeCorrect, PersistentInvariant, ResetInvariant, PTL

(* Under the same condition nobody waits on a session without a reader.    *)
THEOREM NobodyStranded ==
  ASSUME Persistent, "eof" \notin Drops PROVE Spec => []NoStrandedRequest
<1>1. PersistentInv /\ ResetInv => NoStrandedRequest
  BY DEF PersistentInv, WaitInv, ResetInv, NoStrandedRequest
<1> QED BY <1>1, PersistentInvariant, ResetInvariant, PTL

-----------------------------------------------------------------------------
(* The client implements the safety part of Link.                          *)

(* _on_connection_dropped is Lose or a stutter of Link, as long as it is   *)
(* called by a task of a session that was started.                         *)
LEMMA DroppedIsLose ==
  ASSUME TypeOK, NEW p \in [Actors -> PcStates], p["app"] = pc["app"],
         OnConnectionDropped(p), pc["app"] \notin {"down", "opening"}
  PROVE  [L!Next]_(L!linkVars)
<1>1. pc'["app"] = pc["app"]
  BY DroppedFacts, ActorFacts
<1>2. CASE closing \/ lost
  BY <1>1, <1>2 DEF OnConnectionDropped, L!linkVars
<1>3. CASE ~closing /\ ~lost
  BY <1>1, <1>3 DEF OnConnectionDropped, Notify, L!Next, L!Lose
<1> QED BY <1>2, <1>3

(* Every step of the client is a step of Link or a stutter.                *)
LEMMA LinkStep ==
  ASSUME Persistent, TypeOK, PersistentInv, [Next]_vars
  PROVE  [L!Next]_(L!linkVars)
<1> DEFINE Quiet == UNCHANGED <<lost, notes>> /\ pc'["app"] = pc["app"]
<1>1. Quiet => [L!Next]_(L!linkVars)
  BY DEF L!linkVars
<1>2. ASSUME NEW p \in [Actors -> PcStates], p["app"] = pc["app"],
             OnConnectionDropped(p), pc["app"] \notin {"down", "opening"}
      PROVE  [L!Next]_(L!linkVars)
  BY <1>2, DroppedIsLose
<1>3. /\ FailPending(pc) \in [Actors -> PcStates]
      /\ FailPending(pc)["app"] = pc["app"]
  BY FailPendingFacts DEF PersistentInv
<1>4. CASE AppConnect
  BY <1>4, ActorFacts
  DEF AppConnect, EnterConnect, TypeOK, PersistentInv, OwnerInv, Connected, L!linkVars
<1>5. ASSUME NEW a \in Actors, NEW s \in Sockets, ConnectSucceeds(a, s)
      PROVE  [L!Next]_(L!linkVars)
  <2>1. CASE a = "app"
    <3>1. /\ pc["app"] = "opening" /\ pc'["app"] = "up"
          /\ ~lost /\ ~lost' /\ UNCHANGED notes
      BY <1>5, <2>1, ActorFacts DEF ConnectSucceeds, TypeOK, PersistentInv, OwnerInv
    <3> QED BY <3>1 DEF L!Next, L!Start
  <2>2. CASE a = "loop"
    <3>1. pc["loop"] = "opening" /\ pc'["app"] = pc["app"]
      BY <1>5, <2>2, ActorFacts DEF ConnectSucceeds, TypeOK
    <3>2. pc["app"] = "up" /\ lost
      BY <3>1 DEF PersistentInv, OwnerInv, LoopInv
    <3>3. ~lost' /\ notes' = <<notes[2], "up">>
      BY <1>5, <3>2 DEF ConnectSucceeds, Notify
    <3> QED BY <3>1, <3>2, <3>3 DEF L!Next, L!Heal
  <2>3. CASE a \in Requests
    BY <1>5, <2>3 DEF ConnectSucceeds, PersistentInv, SocketInv
  <2> QED BY <2>1, <2>2, <2>3
<1>6. ASSUME NEW a \in Actors, NEW rejected \in BOOLEAN, ConnectFails(a, rejected)
      PROVE  [L!Next]_(L!linkVars)
  BY <1>6, ActorFacts DEF ConnectFails, AtRest, TypeOK, L!linkVars
<1>7. CASE DisconnectBegin
  <2>1. pc'["app"] = "gather" /\ pc["app"] = "up" /\ UNCHANGED <<lost, notes>>
    BY <1>3, <1>7, ActorFacts DEF DisconnectBegin, TypeOK
  <2> QED BY <2>1 DEF L!linkVars
<1>8. CASE DisconnectClose
  <2>1. pc'["app"] = "wclose" /\ pc["app"] = "gather" /\ UNCHANGED <<lost, notes>>
    BY <1>3, <1>8, ActorFacts DEF DisconnectClose
  <2> QED BY <2>1 DEF L!linkVars
<1>9. CASE DisconnectEnd
  <2>1. /\ pc["app"] = "wclose" /\ pc'["app"] = "down"
        /\ notes' = <<"none", "none">>
    BY <1>9, ActorFacts DEF DisconnectEnd, TypeOK
  <2> QED BY <2>1 DEF L!Next, L!Stop
<1>10. ASSUME NEW s \in Sockets, ReaderExits(s) \/ ReaderDesyncs(s)
       PROVE  [L!Next]_(L!linkVars)
  <2>1. OnConnectionDropped(FailPending(pc))
    BY <1>10 DEF ReaderExits, ReaderDesyncs
  <2>2. pc["app"] = "up"
    BY <1>10 DEF ReaderExits, ReaderDesyncs, PersistentInv, OwnerInv
  <2> QED BY <1>2, <1>3, <2>1, <2>2
<1>11. ASSUME NEW s \in Sockets, HeartbeatFails(s) PROVE [L!Next]_(L!linkVars)
  BY <1>2, <1>11 DEF HeartbeatFails, Connected, TypeOK, PersistentInv, OwnerInv
<1>12. CASE LoopReap
  <2>1. CASE cur \in rd
    <3> DEFINE p == [FailPending(pc) EXCEPT !["loop"] = "sleep"]
    <3>1. OnConnectionDropped(p) /\ pc["app"] = "up"
      BY <1>12, <2>1 DEF LoopReap, PersistentInv, OwnerInv
    <3>2. p \in [Actors -> PcStates] /\ p["app"] = pc["app"]
      BY <1>3, ActorFacts DEF PcStates
    <3> QED BY <1>2, <3>1, <3>2
  <2>2. CASE cur \notin rd
    BY <1>1, <1>12, <2>2, ActorFacts DEF LoopReap, TypeOK
  <2> QED BY <2>1, <2>2
<1>13. ASSUME NEW r \in Requests, RequestBegin(r) PROVE Quiet
  BY <1>13, ActorFacts DEF RequestBegin, EnterConnect, TypeOK
<1>14. ASSUME NEW a \in Requesters, RequestSend(a) PROVE Quiet
  BY <1>14, ActorFacts DEF RequestSend, TypeOK
<1>15. ASSUME NEW a \in Requesters, NEW answered \in BOOLEAN, RequestEnds(a, answered)
       PROVE  Quiet
  BY <1>15, ActorFacts DEF RequestEnds, TypeOK
<1>16. ASSUME NEW s \in Sockets,
              \/ \E how \in {"eof", "bad"} : PeerDrops(s, how)
              \/ CollectWriter(s) \/ HeartbeatStops(s)
       PROVE  Quiet
  BY <1>16 DEF PeerDrops, CollectWriter, HeartbeatStops
<1>17. CASE LoopClose \/ LoopWake \/ LoopCheck
  <2>1. Quiet
    BY <1>17, ActorFacts DEF LoopClose, LoopWake, EnterConnect, LoopCheck, TypeOK
  <2> QED BY <1>1, <2>1
<1>18. CASE UNCHANGED vars
  BY <1>18 DEF vars, L!linkVars
<1> HIDE DEF Quiet
<1> QED
  BY <1>1, <1>4, <1>5, <1>6, <1>7, <1>8, <1>9, <1>10, <1>11, <1>12, <1>13, <1>14,
     <1>15, <1>16, <1>17, <1>18
  DEF Next, Disconnect, LoopStep

(* What the owner of a v3.3 or v3.5 client sees is a behaviour of Link     *)
(* (its fairness apart): events alternate, start with a loss, and end with *)
(* the stop.                                                               *)
THEOREM SafeLink == ASSUME Persistent PROVE Spec => LinkSafe
<1>1. Init => L!Init
  BY ActorFacts DEF Init, AtRest, L!Init
<1>2. TypeOK /\ PersistentInv /\ [Next]_vars => [L!Next]_(L!linkVars)
  BY LinkStep
<1> QED BY <1>1, <1>2, TypeCorrect, PersistentInvariant, PTL DEF Spec, LinkSafe, L!Safe

-----------------------------------------------------------------------------
(* v3.4, and a device that closes its socket in an orderly way.            *)

(* Nothing has been reported, no heartbeat runs, and no read loop reads a  *)
(* socket that was reset: that happens only to a write on a socket whose   *)
(* read loop has seen its end.                                             *)
ScopedInv ==
  /\ notes = <<"none", "none">> /\ pc["loop"] = "off" /\ ~lost /\ hb = {}
  /\ \A s \in rd : net[s] # "bad"

LEMMA ScopedStep ==
  ASSUME ~Persistent, Drops \subseteq {"eof"}, TypeOK, ScopedInv, [Next]_vars
  PROVE  ScopedInv'
<1> USE DEF ScopedInv
<1>0. /\ "bad" \notin Drops /\ "garbage" \notin Drops
      /\ \A a \in Actors : a # "loop" => pc[a] \in PcOf(a)
  BY DEF TypeOK
<1>1. CASE AppConnect \/ \E r \in Requests : RequestBegin(r)
  BY <1>1, ActorFacts DEF AppConnect, RequestBegin, EnterConnect, TypeOK
<1>2. ASSUME NEW a \in Actors, NEW s \in Sockets, ConnectSucceeds(a, s) PROVE ScopedInv'
  BY <1>2, ActorFacts DEF ConnectSucceeds, TypeOK
<1>3. ASSUME NEW a \in Actors, NEW rejected \in BOOLEAN, ConnectFails(a, rejected)
      PROVE  ScopedInv'
  BY <1>3, ActorFacts DEF ConnectFails, TypeOK
<1>4. FailPending(pc)["loop"] = "off" /\ FailPending(pc) \in [Actors -> PcStates]
  <2>1. FailPending(pc) \in [Actors -> PcStates]
    BY FailPendingType DEF TypeOK
  <2>. QED  BY <2>1, ActorFacts DEF FailPending
<1>5. CASE Disconnect
  <2>1. CASE DisconnectBegin
    BY <1>4, <2>1, ActorFacts DEF DisconnectBegin, TypeOK
  <2>2. CASE DisconnectClose
    BY <1>4, <2>2, ActorFacts DEF DisconnectClose, CloseWriterIfAny, ShutWriter, TypeOK
  <2>3. CASE DisconnectEnd
    BY <2>3, ActorFacts DEF DisconnectEnd, TypeOK
  <2>. QED  BY <1>5, <2>1, <2>2, <2>3 DEF Disconnect
<1>6. ASSUME NEW a \in Requesters, RequestSend(a) PROVE ScopedInv'
  <2>1. pc'["loop"] = "off"
    BY <1>6, ActorFacts DEF RequestSend, TypeOK
  <2>2. UNCHANGED <<notes, lost, hb, rd>>
    BY <1>6 DEF RequestSend
  <2>3. \A s \in rd : net'[s] # "bad"
    <3>1. CASE net' = net
      BY <3>1
    <3>2. CASE /\ writer # NoSocket /\ (~Connected \/ WriteMayFail)
               /\ net' = [net EXCEPT ![writer] = IF Open(writer) THEN "bad" ELSE @]
      <4>1. Open(writer) => writer \notin rd
        BY <1>0, <3>2 DEF WriteMayFail, Connected
      <4>2. \A s \in Sockets \ {writer} : net'[s] = net[s]
        BY <3>2 DEF TypeOK
      <4>3. net'[writer] = IF Open(writer) THEN "bad" ELSE net[writer]
        BY <3>2 DEF TypeOK
      <4>. QED  BY <4>1, <4>2, <4>3 DEF TypeOK
    <3>. QED  BY <1>6, <3>1, <3>2 DEF RequestSend
  <2>. QED  BY <2>1, <2>2, <2>3
<1>7. ASSUME NEW a \in Requesters, NEW answered \in BOOLEAN, RequestEnds(a, answered)
      PROVE  ScopedInv'
  BY <1>7, ActorFacts DEF RequestEnds, TypeOK
<1>8. ASSUME NEW s \in Sockets,
             (\E how \in {"eof", "bad"} : PeerDrops(s, how)) \/ CollectWriter(s)
                \/ HeartbeatStops(s) \/ HeartbeatFails(s) \/ ReaderDesyncs(s)
      PROVE  ScopedInv'
  <2>1. CASE PeerDrops(s, "eof") \/ CollectWriter(s)
    BY <2>1 DEF PeerDrops, CollectWriter, TypeOK
  <2>2. ~PeerDrops(s, "bad") /\ ~HeartbeatStops(s) /\ ~HeartbeatFails(s) /\ ~ReaderDesyncs(s)
    BY <1>0 DEF PeerDrops, HeartbeatStops, HeartbeatFails, ReaderDesyncs
  <2>. QED  BY <1>8, <2>1, <2>2
<1>9. ASSUME NEW s \in Sockets, ReaderExits(s) PROVE ScopedInv'
  <2>1. CASE closing
    <3>1. OnConnectionDropped(FailPending(pc)) /\ UNCHANGED <<net, hb>> /\ rd' = rd \ {s}
      BY <1>9, <2>1 DEF ReaderExits
    <3>. QED  BY <1>4, <2>1, <3>1 DEF OnConnectionDropped
  <2>2. CASE ~closing
    <3>1. net[s] \in {"eof", "shut"}
      BY <1>9, <2>2 DEF ReaderExits, Open, TypeOK, NetStates
    <3>. QED  BY <1>4, <1>9, <2>2, <3>1 DEF ReaderExits, CloseWriterIfAny, ShutWriter, TypeOK
  <2>. QED  BY <2>1, <2>2
<1>10. ~LoopStep
  BY DEF LoopStep, LoopClose, LoopReap, LoopWake, LoopCheck
<1>11. CASE UNCHANGED vars
  BY <1>11 DEF vars
<1>. QED  BY <1>1, <1>2, <1>3, <1>5, <1>6, <1>7, <1>8, <1>9, <1>10, <1>11 DEF Next

(* As long as a v3.4 device only closes its socket, as it does after every *)
(* answer, nobody is told of a loss and no reconnect task is started,      *)
(* however many requests open and share sockets (_read_loop, connect).     *)
THEOREM ScopedIsQuiet ==
  ASSUME ~Persistent, Drops \subseteq {"eof"}
  PROVE  Spec => []QuietScoped
<1>1. Init => ScopedInv
  BY ActorFacts DEF Init, AtRest, ScopedInv
<1>2. TypeOK /\ ScopedInv /\ [Next]_vars => ScopedInv'
  BY ScopedStep
<1>3. ScopedInv => QuietScoped
  BY DEF ScopedInv, QuietScoped
<1>. QED  BY <1>1, <1>2, <1>3, TypeCorrect, PTL DEF Spec
=============================================================================
