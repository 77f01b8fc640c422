-------------------------- MODULE NegotiationProofs --------------------------
(***************************************************************************)
(* Theorems about module Negotiation, for any sets of tasks and sockets,   *)
(* any device, key and pin.                                                *)
(***************************************************************************)
EXTENDS Negotiation, TLAPS

(* Who holds which socket.                                                 *)
PlaceInv ==
  /\ \A t \in Tasks : at[t].step # "resp" => at[t].sock = None
  /\ \A t \in Tasks : at[t].step = "resp" =>
       /\ at[t].sock \in Sockets \ read /\ net[at[t].sock] \in {"open", "eof"}
       /\ at[t].ver \in Keyed
  /\ \A t, u \in Tasks : at[t].sock = at[u].sock => t = u \/ at[t].sock = None
  /\ \A s \in read : net[s] \in {"open", "eof"}
  /\ writer # None => writer \in read
  /\ SocketsAccounted

(* Opened, without what it does to choose the version.                     *)
Waiting(t, s, v, b) ==
  /\ at' = [at EXCEPT ![t] = [step |-> "resp", ver |-> v, probe |-> b, sock |-> s]]
  /\ start' = [start EXCEPT ![s] = key[v]]
  /\ UNCHANGED <<known, writer, read, raised>>

Taken(t, s) ==
  /\ at[t].step = "opening" /\ net[s] = "free"
  /\ net' = [net EXCEPT ![s] = "open"]
  /\ answer' = [answer EXCEPT ![s] = None]
  /\ UNCHANGED <<conf, key, silent>>

(* The version it takes, and whether that is a probe.                      *)
Chosen(t, v) ==
  \/ at[t].ver # None /\ v = at[t].ver
  \/ at[t].ver = None /\ Required = None /\ v = "3.5"
  \/ at[t].ver = None /\ Required # None /\ v = Required

Decided(t, v, b) == Chosen(t, v) /\ (b <=> Required = None)

LEMMA OpenedShape ==
  ASSUME TypeOK, NEW t \in Tasks, Opened(t)
  PROVE  \E s \in Sockets :
           /\ Taken(t, s)
           /\ \/ Install(t, s, "3.3") /\ UNCHANGED start /\ Chosen(t, "3.3")
              \/ \E v \in Keyed, b \in BOOLEAN : Waiting(t, s, v, b) /\ Decided(t, v, b)
<1> DEFINE probe == Required = None
           ver == IF at[t].ver # None THEN at[t].ver
                  ELSE IF probe THEN "3.5" ELSE Required
<1>1. ver \in Versions /\ Chosen(t, ver)
  BY NegotiationAssumption DEF TypeOK, Required, Versions, Chosen
<1>2. probe \in BOOLEAN /\ Decided(t, ver, probe)
  BY <1>1, Zenon DEF Decided
<1>3. PICK s \in Sockets :
        /\ Taken(t, s)
        /\ \/ ver = "3.3" /\ Install(t, s, ver) /\ UNCHANGED start
           \/ ver # "3.3" /\ Waiting(t, s, ver, probe)
  BY Zenon DEF Opened, Taken, Waiting
<1>4. ver # "3.3" => ver \in Keyed
  BY <1>1 DEF Versions, Keyed
<1>. QED
  BY <1>1, <1>3, <1>4, <1>2, Zenon

LEMMA TypeStep == TypeOK /\ PlaceInv /\ [Next]_vars => TypeOK'
<1> SUFFICES ASSUME TypeOK, PlaceInv, [Next]_vars PROVE TypeOK'
  OBVIOUS
<1> USE NegotiationAssumption DEF TypeOK, PlaceInv, Versions, Keyed
<1>1. CASE UNCHANGED vars
  BY <1>1 DEF vars
<1>2. ASSUME NEW t \in Tasks, Connect(t) PROVE TypeOK'
  BY <1>2 DEF Connect, Idle, RealKeys
<1>3. ASSUME NEW t \in Tasks, OpenFails(t) PROVE TypeOK'
  BY <1>3 DEF OpenFails, Raise, Idle
<1>4. ASSUME NEW t \in Tasks, Opened(t) PROVE TypeOK'
  <2>1. PICK s \in Sockets :
          /\ Taken(t, s)
          /\ \/ Install(t, s, "3.3") /\ UNCHANGED start /\ Chosen(t, "3.3")
             \/ \E v \in Keyed, b \in BOOLEAN : Waiting(t, s, v, b) /\ Decided(t, v, b)
    BY <1>4, OpenedShape
  <2>2. CASE Install(t, s, "3.3") /\ UNCHANGED start
    BY <2>1, <2>2 DEF Taken, Install, Idle
  <2>3. ASSUME NEW v \in Keyed, NEW b \in BOOLEAN, Waiting(t, s, v, b) PROVE TypeOK'
    BY <2>1, <2>3 DEF Taken, Waiting
  <2>. QED
    BY <2>1, <2>2, <2>3
<1>5. ASSUME NEW t \in Tasks, DeviceAnswers(t) PROVE TypeOK'
  BY <1>5 DEF DeviceAnswers, Answers
<1>6. ASSUME NEW t \in Tasks, DeviceCloses(t) PROVE TypeOK'
  BY <1>6 DEF DeviceCloses
<1>7. ASSUME NEW t \in Tasks, HandshakeFails(t) PROVE TypeOK'
  <2>1. PICK v \in Versions :
          \/ /\ at' = [at EXCEPT ![t] = [step |-> "opening", ver |-> v,
                                         probe |-> TRUE, sock |-> None]]
             /\ UNCHANGED raised
          \/ at' = [at EXCEPT ![t] = Idle] /\ raised' = [raised EXCEPT ![t] = "cannot"]
    <3>1. NextProbe(at[t].ver) \in Versions /\ "3.3" \in Versions
      BY DEF NextProbe, Versions
    <3>. QED
      BY <1>7, <3>1, Zenon DEF HandshakeFails, Raise
  <2>2. net' = [net EXCEPT ![at[t].sock] = "free"] /\ silent' \in BOOLEAN
    BY <1>7 DEF HandshakeFails, CloseSocket
  <2>3. UNCHANGED <<conf, known, key, start, answer, writer, read>>
    BY <1>7 DEF HandshakeFails
  <2>4. at[t].step = "resp"
    BY <1>7 DEF HandshakeFails
  <2>5. /\ conf' \in [device : Devices, rightKey : BOOLEAN, pinned : Pins]
        /\ silent' \in BOOLEAN
    BY <2>2, <2>3
  <2>6. /\ at' \in [Tasks -> [step : {"idle", "opening", "resp"}, ver : Versions \cup {None},
                              probe : BOOLEAN, sock : Sockets \cup {None}]]
        /\ raised' \in [Tasks -> {None, "auth", "cannot"}]
    <3>1. raised' \in [Tasks -> {None, "auth", "cannot"}]
      BY <2>1
    <3>2. CASE at' = [at EXCEPT ![t] = Idle]
      BY <3>1, <3>2 DEF Idle
    <3>3. CASE at' = [at EXCEPT ![t] = [step |-> "opening", ver |-> v,
                                        probe |-> TRUE, sock |-> None]]
      BY <3>1, <3>3
    <3>. QED
      BY <2>1, <3>2, <3>3, Zenon
  <2>7. net' \in [Sockets -> {"free", "open", "eof", "dropped"}]
    BY <2>2
  <2>8. /\ known' \in Versions \cup {None} /\ key' \in [Keyed -> Sockets \cup {"real"}]
        /\ start' \in [Sockets -> Sockets \cup {"real"}]
        /\ answer' \in [Sockets -> {None, "resp", "unreadable", "foreign"}]
        /\ writer' \in Sockets \cup {None} /\ read' \subseteq Sockets
    BY <2>3
  <2>. QED
    BY <2>5, <2>6, <2>7, <2>8, Zenon
<1>8. ASSUME NEW t \in Tasks, AuthFails(t) PROVE TypeOK'
  BY <1>8 DEF AuthFails, CloseSocket, Raise, Idle
<1>9. ASSUME NEW t \in Tasks, HandshakeSucceeds(t) PROVE TypeOK'
  BY <1>9 DEF HandshakeSucceeds, Install, Idle
<1>10. ASSUME NEW s \in Sockets, SessionEnds(s) PROVE TypeOK'
  BY <1>10 DEF SessionEnds
<1>11. ASSUME NEW t \in Tasks, Cancelled(t) PROVE TypeOK'
  BY <1>11 DEF Cancelled, Idle
<1>12. ASSUME NEW s \in Sockets, CollectWriter(s) PROVE TypeOK'
  BY <1>12 DEF CollectWriter
<1>. QED
  BY <1>1, <1>2, <1>3, <1>4, <1>5, <1>6, <1>7, <1>8, <1>9, <1>10, <1>11, <1>12 DEF Next

LEMMA PlaceStep == TypeOK /\ PlaceInv /\ [Next]_vars => PlaceInv'
<1> SUFFICES ASSUME TypeOK, PlaceInv, [Next]_vars PROVE PlaceInv'
  OBVIOUS
<1> USE NegotiationAssumption DEF TypeOK, PlaceInv, SocketsAccounted, Keyed
<1>1. CASE UNCHANGED vars
  BY <1>1 DEF vars
<1>2. ASSUME NEW t \in Tasks, Connect(t) PROVE PlaceInv'
  BY <1>2 DEF Connect, Idle, Busy
<1>3. ASSUME NEW t \in Tasks, OpenFails(t) PROVE PlaceInv'
  BY <1>3 DEF OpenFails, Raise, Idle
<1>4. ASSUME NEW t \in Tasks, Opened(t) PROVE PlaceInv'
  <2>1. PICK s \in Sockets :
          /\ Taken(t, s)
          /\ \/ Install(t, s, "3.3") /\ UNCHANGED start /\ Chosen(t, "3.3")
             \/ \E v \in Keyed, b \in BOOLEAN : Waiting(t, s, v, b) /\ Decided(t, v, b)
    BY <1>4, OpenedShape
  <2>2. CASE Install(t, s, "3.3") /\ UNCHANGED start
    BY <2>1, <2>2 DEF Taken, Install, Idle
  <2>3. ASSUME NEW v \in Keyed, NEW b \in BOOLEAN, Waiting(t, s, v, b) PROVE PlaceInv'
    <3>1. /\ at'[t] = [step |-> "resp", ver |-> v, probe |-> b, sock |-> s]
          /\ \A u \in Tasks \ {t} : at'[u] = at[u]
      BY <2>3 DEF Waiting
    <3>2. net[s] = "free" /\ net'[s] = "open" /\ \A r \in Sockets \ {s} : net'[r] = net[r]
      BY <2>1 DEF Taken
    <3>3. UNCHANGED <<writer, read>> /\ at[t].sock = None
      BY <2>1, <2>3 DEF Taken, Waiting
    <3>4. s \notin read /\ \A u \in Tasks : at[u].sock # s
      BY <3>2
    <3>5. \A u \in Tasks :
            /\ at'[u].step # "resp" => at'[u].sock = None
            /\ at'[u].step = "resp" => /\ at'[u].sock \in Sockets \ read'
                                       /\ net'[at'[u].sock] \in {"open", "eof"}
                                       /\ at'[u].ver \in Keyed
      BY <3>1, <3>2, <3>3, <3>4
    <3>6. \A u, w \in Tasks : at'[u].sock = at'[w].sock => u = w \/ at'[u].sock = None
      BY <3>1, <3>4
    <3>7. (\A r \in read' : net'[r] \in {"open", "eof"}) /\ (writer' # None => writer' \in read')
      BY <3>2, <3>3, <3>4
    <3>8. SocketsAccounted'
      BY <3>1, <3>2, <3>3
    <3>. QED
      BY <3>5, <3>6, <3>7, <3>8, Zenon
  <2>. QED
    BY <2>1, <2>2, <2>3
<1>5. ASSUME NEW t \in Tasks, DeviceAnswers(t) PROVE PlaceInv'
  BY <1>5 DEF DeviceAnswers
<1>6. ASSUME NEW t \in Tasks, DeviceCloses(t) PROVE PlaceInv'
  BY <1>6 DEF DeviceCloses
<1>7. ASSUME NEW t \in Tasks, HandshakeFails(t) PROVE PlaceInv'
  <2>1. PICK v \in Versions :
          \/ /\ at' = [at EXCEPT ![t] = [step |-> "opening", ver |-> v,
                                         probe |-> TRUE, sock |-> None]]
             /\ UNCHANGED raised
          \/ at' = [at EXCEPT ![t] = Idle] /\ raised' = [raised EXCEPT ![t] = "cannot"]
    <3>1. NextProbe(at[t].ver) \in Versions /\ "3.3" \in Versions
      BY DEF NextProbe, Versions
    <3>. QED
      BY <1>7, <3>1, Zenon DEF HandshakeFails, Raise
  <2>2. net' = [net EXCEPT ![at[t].sock] = "free"] /\ silent' \in BOOLEAN
    BY <1>7 DEF HandshakeFails, CloseSocket
  <2>3. UNCHANGED <<conf, known, key, start, answer, writer, read>>
    BY <1>7 DEF HandshakeFails
  <2>4. at[t].step = "resp"
    BY <1>7 DEF HandshakeFails
  <2>5. /\ at'[t].step # "resp" /\ at'[t].sock = None
        /\ \A u \in Tasks \ {t} : at'[u] = at[u]
    BY <2>1 DEF Idle
  <2>6. \A r \in Sockets \ {at[t].sock} : net'[r] = net[r]
    BY <2>2
  <2>7. at[t].sock \in Sockets \ read /\ net'[at[t].sock] = "free"
    BY <2>2, <2>4
  <2>8. \A u, w \in Tasks : at'[u].sock = at'[w].sock => u = w \/ at'[u].sock = None
    BY <2>5
  <2>9. SocketsAccounted'
    <3> SUFFICES ASSUME NEW r \in Sockets, net'[r] \in {"open", "eof"}
                 PROVE  r \in read' \/ \E u \in Tasks : at'[u].sock = r
      BY DEF SocketsAccounted
    <3>1. r # at[t].sock /\ net[r] \in {"open", "eof"}
      BY <2>6, <2>7
    <3>2. CASE r \in read
      BY <2>3, <3>2
    <3>3. CASE r \notin read
      <4>1. PICK u \in Tasks : at[u].sock = r
        BY <3>1, <3>3
      <4>. QED
        BY <2>5, <3>1, <4>1
    <3>. QED
      BY <3>2, <3>3
  <2>10. \A u \in Tasks :
           /\ at'[u].step # "resp" => at'[u].sock = None
           /\ at'[u].step = "resp" => /\ at'[u].sock \in Sockets \ read'
                                      /\ net'[at'[u].sock] \in {"open", "eof"}
                                      /\ at'[u].ver \in Keyed
    <3> SUFFICES ASSUME NEW u \in Tasks \ {t}
                 PROVE  at'[u].step = "resp" => net'[at'[u].sock] \in {"open", "eof"}
      BY <2>3, <2>5
    <3>. QED
      BY <2>4, <2>5, <2>6, <2>7
  <2>11. (\A r \in read' : net'[r] \in {"open", "eof"}) /\ (writer' # None => writer' \in read')
    BY <2>3, <2>6, <2>7
  <2>. QED
    BY <2>8, <2>9, <2>10, <2>11, Zenon
<1>8. ASSUME NEW t \in Tasks, AuthFails(t) PROVE PlaceInv'
  BY <1>8 DEF AuthFails, CloseSocket, Raise, Idle
<1>9. ASSUME NEW t \in Tasks, HandshakeSucceeds(t) PROVE PlaceInv'
  BY <1>9 DEF HandshakeSucceeds, Install, Idle
<1>10. ASSUME NEW s \in Sockets, SessionEnds(s) PROVE PlaceInv'
  BY <1>10 DEF SessionEnds
<1>11. ASSUME NEW t \in Tasks, Cancelled(t) PROVE PlaceInv'
  BY <1>11 DEF Cancelled, Idle
<1>12. ASSUME NEW s \in Sockets, CollectWriter(s) PROVE PlaceInv'
  BY <1>12 DEF CollectWriter
<1>. QED
  BY <1>1, <1>2, <1>3, <1>4, <1>5, <1>6, <1>7, <1>8, <1>9, <1>10, <1>11, <1>12 DEF Next
-----------------------------------------------------------------------------
(* Until v3.4 is known there is one connect at a time, so it finds the     *)
(* codecs as it has reset them.                                            *)
AloneInv ==
  /\ \A t, u \in Tasks : Busy(t) /\ Busy(u) => t = u
  /\ \A t \in Tasks : Busy(t) => key = RealKeys
  /\ \A t \in Tasks : at[t].step = "resp" => start[at[t].sock] = "real"

Alone == known # "3.4" => AloneInv

(* What a connect tries: the required version, or a probe if there is none.*)
Probing ==
  /\ conf.pinned # None /\ known # None => known = conf.pinned
  /\ \A t \in Tasks : at[t].probe => Busy(t) /\ Required = None
  /\ \A t \in Tasks : at[t].step = "opening" /\ at[t].ver # None => at[t].probe
  /\ \A t \in Tasks : at[t].step = "resp" /\ ~at[t].probe => at[t].ver = Required

(* A version that is known is not given up for another one.                *)
LEMMA KnownKept == TypeOK /\ Probing /\ [Next]_vars => (known # None => known' = known)
<1> SUFFICES ASSUME TypeOK, Probing, [Next]_vars, known # None PROVE known' = known
  OBVIOUS
<1> USE NegotiationAssumption DEF TypeOK, Probing, Required
<1>1. ASSUME NEW t \in Tasks, Opened(t) PROVE known' = known
  <2>1. PICK s \in Sockets :
          /\ Taken(t, s)
          /\ \/ Install(t, s, "3.3") /\ UNCHANGED start /\ Chosen(t, "3.3")
             \/ \E v \in Keyed, b \in BOOLEAN : Waiting(t, s, v, b) /\ Decided(t, v, b)
    BY <1>1, OpenedShape
  <2>2. CASE Install(t, s, "3.3") /\ Chosen(t, "3.3")
    BY <2>1, <2>2 DEF Taken, Install, Chosen
  <2>. QED
    BY <2>1, <2>2, Zenon DEF Waiting
<1>2. ASSUME NEW t \in Tasks, HandshakeSucceeds(t) PROVE known' = known
  BY <1>2 DEF HandshakeSucceeds, Install
<1>3. ASSUME NEW t \in Tasks,
             \/ Connect(t) \/ OpenFails(t) \/ DeviceAnswers(t) \/ DeviceCloses(t)
             \/ HandshakeFails(t) \/ AuthFails(t)
      PROVE  known' = known
  BY <1>3, Zenon DEF Connect, OpenFails, DeviceAnswers, DeviceCloses, HandshakeFails, AuthFails
<1>4. ASSUME NEW s \in Sockets, SessionEnds(s) PROVE known' = known
  BY <1>4 DEF SessionEnds
<1>5. ASSUME NEW t \in Tasks, Cancelled(t) PROVE known' = known
  BY <1>5 DEF Cancelled, Idle
<1>6. ASSUME NEW s \in Sockets, CollectWriter(s) PROVE known' = known
  BY <1>6 DEF CollectWriter
<1>. QED
  BY <1>1, <1>2, <1>3, <1>4, <1>5, <1>6 DEF Next, vars

LEMMA AloneStep ==
  TypeOK /\ PlaceInv /\ Probing /\ Alone /\ [Next]_vars => Alone'
<1> SUFFICES ASSUME TypeOK, PlaceInv, AloneInv, known # "3.4", [Next]_vars PROVE AloneInv'
  BY KnownKept, NegotiationAssumption DEF Alone, Versions
<1> USE NegotiationAssumption DEF TypeOK, PlaceInv, AloneInv, Busy
<1>1. CASE UNCHANGED vars
  BY <1>1 DEF vars, RealKeys
<1>2. ASSUME NEW t \in Tasks, Connect(t) PROVE AloneInv'
  BY <1>2 DEF Connect, Idle, RealKeys
<1>3. ASSUME NEW t \in Tasks, OpenFails(t) PROVE AloneInv'
  BY <1>3 DEF OpenFails, Raise, Idle, RealKeys
<1>4. ASSUME NEW t \in Tasks, Opened(t) PROVE AloneInv'
  <2>1. PICK s \in Sockets :
          /\ Taken(t, s)
          /\ \/ Install(t, s, "3.3") /\ UNCHANGED start /\ Chosen(t, "3.3")
             \/ \E v \in Keyed, b \in BOOLEAN : Waiting(t, s, v, b) /\ Decided(t, v, b)
    BY <1>4, OpenedShape
  <2>2. CASE Install(t, s, "3.3") /\ UNCHANGED start
    BY <2>1, <2>2 DEF Taken, Install, Idle, RealKeys
  <2>3. ASSUME NEW v \in Keyed, NEW b \in BOOLEAN, Waiting(t, s, v, b) PROVE AloneInv'
    BY <2>1, <2>3 DEF Taken, Waiting, RealKeys
  <2>. QED
    BY <2>1, <2>2, <2>3
<1>5. ASSUME NEW t \in Tasks, DeviceAnswers(t) \/ DeviceCloses(t) PROVE AloneInv'
  BY <1>5 DEF DeviceAnswers, DeviceCloses, RealKeys
<1>6. ASSUME NEW t \in Tasks, HandshakeFails(t) PROVE AloneInv'
  <2>1. at[t].step = "resp" /\ at'[t].step # "resp"
    BY <1>6 DEF HandshakeFails, Raise, Idle
  <2>2. \A u \in Tasks \ {t} : at'[u] = at[u]
    BY <1>6 DEF HandshakeFails, Raise, Idle
  <2>3. UNCHANGED <<key, start>>
    BY <1>6 DEF HandshakeFails
  <2>. QED
    BY <2>1, <2>2, <2>3 DEF RealKeys
<1>7. ASSUME NEW t \in Tasks, AuthFails(t) PROVE AloneInv'
  BY <1>7 DEF AuthFails, Raise, Idle, RealKeys
<1>8. ASSUME NEW t \in Tasks, HandshakeSucceeds(t) PROVE AloneInv'
  BY <1>8 DEF HandshakeSucceeds, Install, Idle, RealKeys
<1>9. ASSUME NEW s \in Sockets, SessionEnds(s) PROVE AloneInv'
  BY <1>9 DEF SessionEnds, RealKeys
<1>10. ASSUME NEW t \in Tasks, Cancelled(t) PROVE AloneInv'
  BY <1>10 DEF Cancelled, Idle
<1>11. ASSUME NEW s \in Sockets, CollectWriter(s) PROVE AloneInv'
  BY <1>11 DEF CollectWriter
<1>. QED
  BY <1>1, <1>2, <1>3, <1>4, <1>5, <1>6, <1>7, <1>8, <1>9, <1>10, <1>11 DEF Next

LEMMA ProbingStep ==
  TypeOK /\ PlaceInv /\ Probing /\ Alone /\ [Next]_vars => Probing'
<1> SUFFICES ASSUME TypeOK, Probing, Alone, [Next]_vars PROVE Probing'
  OBVIOUS
<1> USE NegotiationAssumption DEF TypeOK, Probing, Busy, Required, Versions
<1>1. CASE UNCHANGED vars
  BY <1>1 DEF vars
<1>2. ASSUME NEW t \in Tasks, Connect(t) PROVE Probing'
  BY <1>2 DEF Connect, Idle
<1>3. ASSUME NEW t \in Tasks, OpenFails(t) PROVE Probing'
  BY <1>3 DEF OpenFails, Raise, Idle
<1>4. ASSUME NEW t \in Tasks, Opened(t) PROVE Probing'
  <2>1. PICK s \in Sockets :
          /\ Taken(t, s)
          /\ \/ Install(t, s, "3.3") /\ UNCHANGED start /\ Chosen(t, "3.3")
             \/ \E v \in Keyed, b \in BOOLEAN : Waiting(t, s, v, b) /\ Decided(t, v, b)
    BY <1>4, OpenedShape
  <2>2. CASE Install(t, s, "3.3") /\ Chosen(t, "3.3")
    <3>1. at[t].step = "opening" /\ conf' = conf /\ known' = "3.3"
      BY <2>1, <2>2 DEF Taken, Install
    <3>2. at'[t] = Idle /\ \A u \in Tasks \ {t} : at'[u] = at[u]
      BY <2>2 DEF Install
    <3>3. CASE known = None
      BY <3>1, <3>2, <3>3, <2>2 DEF Alone, AloneInv, Idle, Chosen
    <3>4. CASE known # None
      <4>1. known' = known
        BY <3>4, KnownKept
      <4>. QED
        BY <3>1, <3>2, <4>1 DEF Idle
    <3>. QED
      BY <3>3, <3>4
  <2>3. ASSUME NEW v \in Keyed, NEW b \in BOOLEAN, Waiting(t, s, v, b), Decided(t, v, b)
        PROVE  Probing'
    BY <2>1, <2>3 DEF Taken, Waiting, Chosen, Decided
  <2>. QED
    BY <2>1, <2>2, <2>3
<1>5. ASSUME NEW t \in Tasks, DeviceAnswers(t) \/ DeviceCloses(t) PROVE Probing'
  BY <1>5 DEF DeviceAnswers, DeviceCloses
<1>6. ASSUME NEW t \in Tasks, HandshakeFails(t) PROVE Probing'
  <2>1. at[t].step = "resp" /\ UNCHANGED <<conf, known>>
    BY <1>6 DEF HandshakeFails
  <2>2. \A u \in Tasks \ {t} : at'[u] = at[u]
    BY <1>6 DEF HandshakeFails, Raise
  <2>3. \/ at[t].probe /\ at'[t].step = "opening" /\ at'[t].probe
        \/ at'[t] = Idle
    BY <1>6 DEF HandshakeFails, Raise
  <2>. QED
    BY <2>1, <2>2, <2>3 DEF Idle
<1>7. ASSUME NEW t \in Tasks, AuthFails(t) PROVE Probing'
  BY <1>7 DEF AuthFails, Raise, Idle
<1>8. ASSUME NEW t \in Tasks, HandshakeSucceeds(t) PROVE Probing'
  <2>1. at[t].step = "resp" /\ conf' = conf /\ known' = at[t].ver
    BY <1>8 DEF HandshakeSucceeds, Install
  <2>2. at'[t] = Idle /\ \A u \in Tasks \ {t} : at'[u] = at[u]
    BY <1>8 DEF HandshakeSucceeds, Install
  <2>3. CASE known = None
    <3>1. \A u \in Tasks \ {t} : ~Busy(u)
      BY <2>1, <2>3 DEF Alone, AloneInv
    <3>. QED
      BY <2>1, <2>2, <2>3, <3>1 DEF Idle
  <2>4. CASE known # None
    BY <2>1, <2>2, <2>4, KnownKept DEF Idle
  <2>. QED
    BY <2>3, <2>4
<1>9. ASSUME NEW s \in Sockets, SessionEnds(s) PROVE Probing'
  BY <1>9 DEF SessionEnds
<1>10. ASSUME NEW t \in Tasks, Cancelled(t) PROVE Probing'
  BY <1>10 DEF Cancelled, Idle
<1>11. ASSUME NEW s \in Sockets, CollectWriter(s) PROVE Probing'
  BY <1>11 DEF CollectWriter
<1>. QED
  BY <1>1, <1>2, <1>3, <1>4, <1>5, <1>6, <1>7, <1>8, <1>9, <1>10, <1>11 DEF Next
-----------------------------------------------------------------------------
(* What the answer to a handshake says about the device.                   *)
Truthful ==
  \A t \in Tasks : at[t].step = "resp" =>
    /\ answer[at[t].sock] = "resp" => at[t].ver = conf.device
    /\ answer[at[t].sock] = "unreadable" /\ start[at[t].sock] = "real" =>
         \/ at[t].ver = conf.device /\ ~conf.rightKey
         \/ at[t].ver = "3.4" /\ conf.device = "3.3"

LEMMA TruthfulStep == TypeOK /\ PlaceInv /\ Truthful /\ [Next]_vars => Truthful'
<1> SUFFICES ASSUME TypeOK, PlaceInv, Truthful, [Next]_vars PROVE Truthful'
  OBVIOUS
<1> USE NegotiationAssumption DEF TypeOK, PlaceInv, Truthful
<1>1. CASE UNCHANGED vars
  BY <1>1 DEF vars
<1>2. ASSUME NEW t \in Tasks, Connect(t) PROVE Truthful'
  BY <1>2 DEF Connect, Idle
<1>3. ASSUME NEW t \in Tasks, OpenFails(t) PROVE Truthful'
  BY <1>3 DEF OpenFails, Raise, Idle
<1>4. ASSUME NEW t \in Tasks, Opened(t) PROVE Truthful'
  <2>1. PICK s \in Sockets :
          /\ Taken(t, s)
          /\ \/ Install(t, s, "3.3") /\ UNCHANGED start /\ Chosen(t, "3.3")
             \/ \E v \in Keyed, b \in BOOLEAN : Waiting(t, s, v, b) /\ Decided(t, v, b)
    BY <1>4, OpenedShape
  <2>2. CASE Install(t, s, "3.3") /\ UNCHANGED start
    BY <2>1, <2>2 DEF Taken, Install, Idle
  <2>3. ASSUME NEW v \in Keyed, NEW b \in BOOLEAN, Waiting(t, s, v, b) PROVE Truthful'
    BY <2>1, <2>3 DEF Taken, Waiting
  <2>. QED
    BY <2>1, <2>2, <2>3
<1>5. ASSUME NEW t \in Tasks, DeviceAnswers(t) PROVE Truthful'
  <2>1. PICK a \in Answers(at[t].ver, start[at[t].sock]) :
          answer' = [answer EXCEPT ![at[t].sock] = a]
    BY <1>5 DEF DeviceAnswers
  <2>2. at[t].step = "resp" /\ at[t].sock \in Sockets
    BY <1>5 DEF DeviceAnswers
  <2>3. UNCHANGED <<conf, at, start>>
    BY <1>5 DEF DeviceAnswers
  <2>4. /\ a = "resp" => at[t].ver = conf.device
        /\ a = "unreadable" /\ start[at[t].sock] = "real" =>
             \/ at[t].ver = conf.device /\ ~conf.rightKey
             \/ at[t].ver = "3.4" /\ conf.device = "3.3"
    BY <2>1 DEF Answers
  <2>5. answer'[at[t].sock] = a /\ \A r \in Sockets \ {at[t].sock} : answer'[r] = answer[r]
    BY <2>1, <2>2
  <2>. QED
    BY <2>2, <2>3, <2>4, <2>5
<1>6. ASSUME NEW t \in Tasks, DeviceCloses(t) PROVE Truthful'
  BY <1>6 DEF DeviceCloses
<1>7. ASSUME NEW t \in Tasks, HandshakeFails(t) PROVE Truthful'
  <2>1. at'[t].step # "resp" /\ \A u \in Tasks \ {t} : at'[u] = at[u]
    BY <1>7 DEF HandshakeFails, Raise, Idle
  <2>2. UNCHANGED <<conf, start, answer>>
    BY <1>7 DEF HandshakeFails
  <2>. QED
    BY <2>1, <2>2
<1>8. ASSUME NEW t \in Tasks, AuthFails(t) PROVE Truthful'
  BY <1>8 DEF AuthFails, Raise, Idle
<1>9. ASSUME NEW t \in Tasks, HandshakeSucceeds(t) PROVE Truthful'
  BY <1>9 DEF HandshakeSucceeds, Install, Idle
<1>10. ASSUME NEW s \in Sockets, SessionEnds(s) PROVE Truthful'
  BY <1>10 DEF SessionEnds
<1>11. ASSUME NEW t \in Tasks, Cancelled(t) PROVE Truthful'
  BY <1>11 DEF Cancelled, Idle
<1>12. ASSUME NEW s \in Sockets, CollectWriter(s) PROVE Truthful'
  BY <1>12 DEF CollectWriter
<1>. QED
  BY <1>1, <1>2, <1>3, <1>4, <1>5, <1>6, <1>7, <1>8, <1>9, <1>10, <1>11, <1>12 DEF Next

(* A blind probe has left a newer version behind for a reason.             *)
ForGood(v) ==
  /\ v \in {"3.4", "3.3"} => silent \/ conf.device # "3.5"
  /\ v = "3.3" => silent \/ conf.device # "3.4" \/ ~conf.rightKey

Excluded == \A t \in Tasks : at[t].probe => ForGood(at[t].ver)

(* The step that gives a version up.                                       *)
LEMMA GivenUp ==
  ASSUME TypeOK, PlaceInv, Probing, Alone, Truthful, Excluded,
         NEW t \in Tasks, HandshakeFails(t), at[t].probe,
         NEW v, v = NextProbe(at[t].ver)
  PROVE  ForGood(v)'
<1> USE NegotiationAssumption DEF TypeOK, Versions
<1>1. /\ at[t].step = "resp" /\ conf' = conf
      /\ silent \/ (at[t].ver = conf.device /\ ~Unauthentic(t)) => silent'
      /\ Unauthentic(t) => at[t].ver = "3.4"
  BY DEF HandshakeFails, Swallowed, Unauthentic
<1>2. AloneInv
  BY DEF Probing, Required, Alone
<1>3. at[t].ver = "3.4" /\ Unauthentic(t) => conf.device = "3.3" \/ ~conf.rightKey
  BY <1>1, <1>2 DEF AloneInv, Busy, Truthful, Unauthentic, RealKeys, Keyed
<1>4. ForGood(at[t].ver)
  BY DEF Excluded
<1>5. at[t].ver \in {"3.4", "3.5"}
  BY <1>1 DEF PlaceInv, Keyed
<1>6. CASE at[t].ver = "3.5"
  BY <1>1, <1>6 DEF ForGood, NextProbe
<1>7. CASE at[t].ver = "3.4"
  BY <1>1, <1>3, <1>4, <1>7 DEF ForGood, NextProbe
<1>. QED
  BY <1>5, <1>6, <1>7

LEMMA ExcludedStep ==
  TypeOK /\ PlaceInv /\ Probing /\ Alone /\ Truthful /\ Excluded /\ [Next]_vars => Excluded'
<1> SUFFICES ASSUME TypeOK, PlaceInv, Probing, Alone, Truthful, Excluded, [Next]_vars
             PROVE  Excluded'
  OBVIOUS
<1> USE DEF TypeOK, Excluded, ForGood
<1>1. CASE UNCHANGED vars
  BY <1>1 DEF vars
<1>2. ASSUME NEW t \in Tasks, Connect(t) PROVE Excluded'
  BY <1>2 DEF Connect, Idle
<1>3. ASSUME NEW t \in Tasks, OpenFails(t) PROVE Excluded'
  BY <1>3 DEF OpenFails, Raise, Idle
<1>4. ASSUME NEW t \in Tasks, Opened(t) PROVE Excluded'
  <2>1. PICK s \in Sockets :
          /\ Taken(t, s)
          /\ \/ Install(t, s, "3.3") /\ UNCHANGED start /\ Chosen(t, "3.3")
             \/ \E v \in Keyed, b \in BOOLEAN : Waiting(t, s, v, b) /\ Decided(t, v, b)
    BY <1>4, OpenedShape
  <2>2. CASE Install(t, s, "3.3")
    BY <2>1, <2>2 DEF Taken, Install, Idle
  <2>3. ASSUME NEW v \in Keyed, NEW b \in BOOLEAN, Waiting(t, s, v, b), Decided(t, v, b)
        PROVE  Excluded'
    <3>1. b => (v = at[t].ver /\ at[t].probe) \/ v = "3.5"
      BY <2>1, <2>3 DEF Taken, Decided, Chosen, Probing
    <3>. QED
      BY <2>1, <2>3, <3>1 DEF Taken, Waiting
  <2>. QED
    BY <2>1, <2>2, <2>3
<1>5. ASSUME NEW t \in Tasks, DeviceAnswers(t) \/ DeviceCloses(t) PROVE Excluded'
  BY <1>5 DEF DeviceAnswers, DeviceCloses
<1>6. ASSUME NEW t \in Tasks, HandshakeFails(t) PROVE Excluded'
  <2>1. \A u \in Tasks \ {t} : at'[u] = at[u]
    BY <1>6 DEF HandshakeFails, Raise
  <2>2. \/ at[t].probe /\ at'[t].ver = NextProbe(at[t].ver)
        \/ at'[t] = Idle
    BY <1>6 DEF HandshakeFails, Raise
  <2>3. conf' = conf /\ (silent => silent')
    BY <1>6 DEF HandshakeFails
  <2>4. ASSUME NEW v, v = NextProbe(at[t].ver), at[t].probe PROVE ForGood(v)'
    BY <1>6, <2>4, GivenUp
  <2>. QED
    BY <2>1, <2>2, <2>3, <2>4 DEF Idle, NextProbe
<1>7. ASSUME NEW t \in Tasks, AuthFails(t) PROVE Excluded'
  BY <1>7 DEF AuthFails, Raise, Idle
<1>8. ASSUME NEW t \in Tasks, HandshakeSucceeds(t) PROVE Excluded'
  BY <1>8 DEF HandshakeSucceeds, Install, Idle
<1>9. ASSUME NEW s \in Sockets, SessionEnds(s) PROVE Excluded'
  BY <1>9 DEF SessionEnds
<1>10. ASSUME NEW t \in Tasks, Cancelled(t) PROVE Excluded'
  BY <1>10 DEF Cancelled, Idle
<1>11. ASSUME NEW s \in Sockets, CollectWriter(s) PROVE Excluded'
  BY <1>11 DEF CollectWriter
<1>. QED
  BY <1>1, <1>2, <1>3, <1>4, <1>5, <1>6, <1>7, <1>8, <1>9, <1>10, <1>11 DEF Next
-----------------------------------------------------------------------------
(* What a session starts from.                                             *)
LEMMA VersionStep ==
  /\ TypeOK /\ PlaceInv /\ Probing /\ Alone /\ Truthful /\ Excluded /\ VersionProven
  /\ [Next]_vars
  => VersionProven'
<1> SUFFICES ASSUME TypeOK, PlaceInv, Probing, Alone, Truthful, Excluded, VersionProven,
                    [Next]_vars
             PROVE  VersionProven'
  OBVIOUS
<1>0. conf' = conf /\ (silent => silent')
  <2>1. conf' = conf
    BY Zenon DEF Next, vars, Connect, OpenFails, Opened, DeviceAnswers, DeviceCloses,
       HandshakeFails, AuthFails, HandshakeSucceeds, SessionEnds, Cancelled, CollectWriter
  <2>2. ASSUME NEW t \in Tasks, HandshakeFails(t) PROVE silent => silent'
    BY <2>2 DEF HandshakeFails
  <2>3. (\A t \in Tasks : ~HandshakeFails(t)) => silent' = silent
    BY Zenon DEF Next, vars, Connect, OpenFails, Opened, DeviceAnswers, DeviceCloses,
       AuthFails, HandshakeSucceeds, SessionEnds, Cancelled, CollectWriter
  <2>. QED
    BY <2>1, <2>2, <2>3
<1>1. ASSUME NEW t \in Tasks, Opened(t) PROVE VersionProven'
  <2>1. PICK s \in Sockets :
          /\ Taken(t, s)
          /\ \/ Install(t, s, "3.3") /\ UNCHANGED start /\ Chosen(t, "3.3")
             \/ \E v \in Keyed, b \in BOOLEAN : Waiting(t, s, v, b) /\ Decided(t, v, b)
    BY <1>1, OpenedShape
  <2>2. CASE known' = known
    BY <1>0, <2>2 DEF VersionProven
  <2>3. CASE known' # known
    <3>1. known = None /\ known' = "3.3" /\ Chosen(t, "3.3") /\ at[t].step = "opening"
      BY <2>1, <2>3, KnownKept DEF Install, Waiting, Taken
    <3>2. conf.pinned = "3.3" \/ ForGood("3.3")
      BY <3>1 DEF Chosen, Required, Probing, Excluded
    <3>3. conf.device \in Versions
      BY NegotiationAssumption DEF TypeOK
    <3>. QED
      BY <1>0, <3>1, <3>2, <3>3 DEF VersionProven, ForGood, Versions
  <2>. QED
    BY <2>2, <2>3
<1>2. ASSUME NEW t \in Tasks, HandshakeSucceeds(t) PROVE VersionProven'
  BY <1>0, <1>2 DEF HandshakeSucceeds, Install, Truthful, VersionProven
<1>3. ASSUME UNCHANGED known PROVE VersionProven'
  BY <1>0, <1>3 DEF VersionProven
<1>. QED
  BY <1>1, <1>2, <1>3, Zenon DEF Next, vars, Connect, OpenFails, DeviceAnswers,
     DeviceCloses, HandshakeFails, AuthFails, SessionEnds, Cancelled, CollectWriter

LEMMA AuthStep ==
  /\ TypeOK /\ PlaceInv /\ Probing /\ Alone /\ Truthful /\ AuthErrorIsTrueAlone
  /\ [Next]_vars
  => AuthErrorIsTrueAlone'
<1> SUFFICES ASSUME TypeOK, PlaceInv, Probing, AloneInv, Truthful, AuthErrorIsTrue,
                    known # "3.4", [Next]_vars
             PROVE  AuthErrorIsTrue'
  BY KnownKept, NegotiationAssumption DEF AuthErrorIsTrueAlone, Alone, Versions
<1>0. conf' = conf
  BY Zenon DEF Next, vars, Connect, OpenFails, Opened, DeviceAnswers, DeviceCloses,
     HandshakeFails, AuthFails, HandshakeSucceeds, SessionEnds, Cancelled, CollectWriter
<1>1. ASSUME NEW t \in Tasks, AuthFails(t) PROVE AuthErrorIsTrue'
  <2>1. at[t].step = "resp" /\ Unauthentic(t) /\ ~Swallowed(t)
    BY <1>1 DEF AuthFails
  <2>2. start[at[t].sock] = "real" /\ key = RealKeys /\ at[t].ver \in Keyed
    BY <2>1 DEF AloneInv, Busy, PlaceInv
  <2>3. answer[at[t].sock] = "unreadable"
    BY <2>1, <2>2 DEF Unauthentic, RealKeys
  <2>4. CASE at[t].ver = conf.device /\ ~conf.rightKey
    BY <1>0, <1>1, <2>4 DEF AuthFails, Raise, AuthErrorIsTrue, TypeOK
  <2>5. CASE at[t].ver = "3.4" /\ conf.device = "3.3"
    <3>1. Required = "3.4"
      BY <2>1, <2>5 DEF Swallowed, Probing
    <3>2. conf.pinned = "3.4"
      BY <3>1 DEF Required
    <3>3. conf.pinned \notin {None, conf.device}
      BY <2>5, <3>2, NegotiationAssumption DEF Versions
    <3>. QED
      BY <1>0, <1>1, <3>3 DEF AuthFails, Raise, AuthErrorIsTrue, TypeOK
  <2>. QED
    BY <2>1, <2>2, <2>3, <2>4, <2>5 DEF Truthful
<1>2. ASSUME NEW t \in Tasks, NEW e \in {None, "cannot"}, raised' = [raised EXCEPT ![t] = e]
      PROVE  AuthErrorIsTrue'
  BY <1>0, <1>2, NegotiationAssumption DEF AuthErrorIsTrue, TypeOK
<1>3. ASSUME UNCHANGED raised PROVE AuthErrorIsTrue'
  BY <1>0, <1>3 DEF AuthErrorIsTrue
<1>4. ASSUME NEW t \in Tasks, Connect(t) \/ OpenFails(t) \/ HandshakeFails(t)
      PROVE  AuthErrorIsTrue'
  BY <1>2, <1>3, <1>4, Zenon DEF Connect, OpenFails, HandshakeFails, Raise
<1>5. ASSUME NEW t \in Tasks, Opened(t) PROVE UNCHANGED raised
  BY <1>5, Zenon DEF Opened, Install
<1>6. ASSUME NEW t \in Tasks, DeviceAnswers(t) \/ DeviceCloses(t) \/ HandshakeSucceeds(t)
      PROVE  UNCHANGED raised
  BY <1>6 DEF DeviceAnswers, DeviceCloses, HandshakeSucceeds, Install
<1>. QED
  BY <1>1, <1>3, <1>4, <1>5, <1>6, Zenon DEF Next, vars, SessionEnds, Cancelled, CollectWriter

LEMMA KeyStep == TypeOK /\ PlaceInv /\ KeyFitsSession /\ [Next]_vars => KeyFitsSession'
<1> SUFFICES ASSUME TypeOK, PlaceInv, KeyFitsSession, [Next]_vars PROVE KeyFitsSession'
  OBVIOUS
<1> USE NegotiationAssumption DEF KeyFitsSession
<1>1. ASSUME NEW t \in Tasks, Opened(t) PROVE KeyFitsSession'
  <2>1. PICK s \in Sockets :
          /\ Taken(t, s)
          /\ \/ Install(t, s, "3.3") /\ UNCHANGED start /\ Chosen(t, "3.3")
             \/ \E v \in Keyed, b \in BOOLEAN : Waiting(t, s, v, b) /\ Decided(t, v, b)
    BY <1>1, OpenedShape
  <2>. QED
    BY <2>1 DEF Taken, Install, Waiting, Keyed
<1>2. ASSUME NEW t \in Tasks, HandshakeSucceeds(t) PROVE KeyFitsSession'
  BY <1>2 DEF HandshakeSucceeds, Install, TypeOK, PlaceInv
<1>3. ASSUME NEW t \in Tasks, Connect(t) PROVE KeyFitsSession'
  BY <1>3 DEF Connect
<1>4. ASSUME UNCHANGED <<writer, known, key>> PROVE KeyFitsSession'
  BY <1>4
<1>5. ASSUME NEW s \in Sockets, SessionEnds(s) PROVE KeyFitsSession'
  BY <1>5 DEF SessionEnds
<1>6. ASSUME NEW t \in Tasks, Cancelled(t) PROVE KeyFitsSession'
  BY <1>6 DEF Cancelled, Idle
<1>7. ASSUME NEW s \in Sockets, CollectWriter(s) PROVE KeyFitsSession'
  BY <1>7 DEF CollectWriter
<1>. QED
  BY <1>1, <1>2, <1>3, <1>4, <1>5, <1>6, <1>7, Zenon DEF Next, vars, OpenFails, DeviceAnswers,
     DeviceCloses, HandshakeFails, AuthFails

-----------------------------------------------------------------------------
(* The inductive invariant.                                                *)
NegotiationInv ==
  /\ TypeOK /\ PlaceInv /\ Probing /\ Alone /\ Truthful /\ Excluded
  /\ KeyFitsSession /\ VersionProven /\ AuthErrorIsTrueAlone

LEMMA NegotiationInit == Init => NegotiationInv
<1> SUFFICES ASSUME Init PROVE NegotiationInv
  OBVIOUS
<1> USE NegotiationAssumption DEF Init
<1>1. TypeOK
  BY DEF TypeOK, Idle, RealKeys
<1>2. PlaceInv
  BY DEF PlaceInv, SocketsAccounted, Idle
<1>3. Probing /\ Truthful /\ Excluded /\ Alone
  BY DEF Probing, Truthful, Excluded, Alone, AloneInv, Busy, Idle
<1>4. KeyFitsSession /\ VersionProven /\ AuthErrorIsTrueAlone
  BY DEF KeyFitsSession, VersionProven, AuthErrorIsTrueAlone, AuthErrorIsTrue
<1>. QED
  BY <1>1, <1>2, <1>3, <1>4 DEF NegotiationInv

(* Every state of connect() satisfies it.                                  *)
THEOREM Negotiated == Spec => []NegotiationInv
<1>1. NegotiationInv /\ [Next]_vars => NegotiationInv'
  BY TypeStep, PlaceStep, ProbingStep, AloneStep, TruthfulStep, ExcludedStep,
     KeyStep, VersionStep, AuthStep DEF NegotiationInv
<1>. QED
  BY NegotiationInit, <1>1, PTL DEF Spec

(* Every variable of the negotiation keeps its type.                       *)
THEOREM TypeCorrect == Spec => []TypeOK
<1>1. NegotiationInv => TypeOK
  BY DEF NegotiationInv
<1>. QED
  BY Negotiated, <1>1, PTL

(* Whatever fails in connect(), no socket is left that nobody answers for. *)
THEOREM NoSocketLeak == Spec => []SocketsAccounted
<1>1. NegotiationInv => SocketsAccounted
  BY DEF NegotiationInv, PlaceInv
<1>. QED
  BY Negotiated, <1>1, PTL

(* The codec always holds the key of the session in use.                   *)
THEOREM SessionKey == Spec => []KeyFitsSession
<1>1. NegotiationInv => KeyFitsSession
  BY DEF NegotiationInv
<1>. QED
  BY Negotiated, <1>1, PTL

(* The version connect() latches is the device's, but for v3.3 as stated.  *)
THEOREM VersionFound == Spec => []VersionProven
<1>1. NegotiationInv => VersionProven
  BY DEF NegotiationInv
<1>. QED
  BY Negotiated, <1>1, PTL

(* InvalidAuth is deserved as long as connects do not overlap.             *)
THEOREM AuthErrorDeserved == Spec => []AuthErrorIsTrueAlone
<1>1. NegotiationInv => AuthErrorIsTrueAlone
  BY DEF NegotiationInv
<1>. QED
  BY Negotiated, <1>1, PTL
=============================================================================
