---------------------------- MODULE Negotiation -----------------------------
(***************************************************************************)
(* connect() opened up (client.py:186-234): negotiate() and the two        *)
(* handshakes of session.py, over the codecs every connect of the client   *)
(* shares. Module Connection has the lifecycle around it, where all this   *)
(* is one await.                                                           *)
(*                                                                         *)
(* A handshake is a START under the codec's key, a RESP decoded under the  *)
(* codec's key of that moment, and a FINISH. Cryptography is perfect: a    *)
(* frame is read with the key it was made with, or not at all.             *)
(***************************************************************************)

CONSTANTS
  Tasks,     \* the tasks that may call connect()
  Sockets,   \* socket identities; a closed one is used again
  None,      \* Python's None
  Devices,   \* the versions the device may be of
  Pins       \* the values of _protocol_version: a version or None

Versions == {"3.3", "3.4", "3.5"}
Keyed == {"3.4", "3.5"}  \* the versions that need a handshake

ASSUME NegotiationAssumption ==
  /\ None \notin Sockets \cup Versions \cup {"resp", "unreadable", "foreign", "auth", "cannot"}
  /\ "real" \notin Sockets
  /\ Devices \subseteq Versions /\ Pins \subseteq Versions \cup {None}

VARIABLES
  conf,    \* the device's version, whether local_key is right, the pin
  known,   \* _detected_version
  key,     \* the key of _codec_34 and _codec_35: "real" or a session's
  at,      \* where each task is in connect()
  net,     \* each socket: "free", "open", "eof" (closed by the device), or
           \* "dropped" (open, and nobody refers to it)
  start,   \* the key of the START sent on each socket
  answer,  \* what the device has answered to it, or None
  writer,  \* _writer: the socket of the session, or None
  read,    \* the sockets that have a read loop
  raised,  \* how each task's last connect ended: "auth", "cannot" or None
  silent   \* a handshake of the device's own version was left unfinished

vars == <<conf, known, key, at, net, start, answer, writer, read, raised, silent>>

Idle == [step |-> "idle", ver |-> None, probe |-> FALSE, sock |-> None]
Busy(t) == at[t].step # "idle"

(* The version a connect must use: the pin, else what an earlier one found.*)
Required == IF conf.pinned # None THEN conf.pinned ELSE known

(* The blind probe's next protocol, on a fresh socket.                     *)
NextProbe(v) == IF v = "3.5" THEN "3.4" ELSE "3.3"

RealKeys == [v \in Keyed |-> "real"]

Init ==
  /\ conf \in [device : Devices, rightKey : BOOLEAN, pinned : Pins]
  /\ known = None /\ key = RealKeys
  /\ at = [t \in Tasks |-> Idle] /\ raised = [t \in Tasks |-> None]
  /\ net = [s \in Sockets |-> "free"]
  /\ start = [s \in Sockets |-> "real"] /\ answer = [s \in Sockets |-> None]
  /\ writer = None /\ read = {} /\ silent = FALSE

-----------------------------------------------------------------------------
(* Mutants of Connect: a live session does not stop it; the codecs keep    *)
(* the keys of the last session.                                           *)
ConnectAnyway(t) ==
  /\ ~Busy(t)
  /\ known = "3.4" \/ \A u \in Tasks : ~Busy(u)
  /\ key' = RealKeys
  /\ at' = [at EXCEPT ![t] = [Idle EXCEPT !.step = "opening"]]
  /\ raised' = [raised EXCEPT ![t] = None]
  /\ UNCHANGED <<conf, known, net, start, answer, writer, read, silent>>

ConnectKeepsKeys(t) ==
  /\ ~Busy(t) /\ writer = None
  /\ known = "3.4" \/ \A u \in Tasks : ~Busy(u)
  /\ at' = [at EXCEPT ![t] = [Idle EXCEPT !.step = "opening"]]
  /\ raised' = [raised EXCEPT ![t] = None]
  /\ UNCHANGED <<conf, known, key, net, start, answer, writer, read, silent>>

(* connect() up to its first await. Connects overlap only as the lazy ones *)
(* of _request on v3.4; else the owner and the reconnect loop take turns   *)
(* (OwnerInv of ConnectionProofs).                                         *)
Connect(t) ==
  /\ ~Busy(t) /\ writer = None
  /\ known = "3.4" \/ \A u \in Tasks : ~Busy(u)
  /\ key' = RealKeys
  /\ at' = [at EXCEPT ![t] = [Idle EXCEPT !.step = "opening"]]
  /\ raised' = [raised EXCEPT ![t] = None]
  /\ UNCHANGED <<conf, known, net, start, answer, writer, read, silent>>

(* connect() ends with an error.                                           *)
Raise(t, error) ==
  /\ at' = [at EXCEPT ![t] = Idle]
  /\ raised' = [raised EXCEPT ![t] = error]

(* open_tcp raises, for the first socket or for a further probe.           *)
OpenFails(t) ==
  /\ at[t].step = "opening"
  /\ Raise(t, "cannot")
  /\ UNCHANGED <<conf, known, key, net, start, answer, writer, read, silent>>

(* Mutant of Install: negotiate()'s results are taken in the wrong order.  *)
InstallSwapped(t, s, v) ==
  /\ writer' = v /\ read' = read \cup {s} /\ known' = s
  /\ at' = [at EXCEPT ![t] = Idle]
  /\ UNCHANGED raised

(* The rest of connect(): the session and its read loop.                   *)
Install(t, s, v) ==
  /\ writer' = s /\ read' = read \cup {s} /\ known' = v
  /\ at' = [at EXCEPT ![t] = Idle]
  /\ UNCHANGED raised

(* The task of a connect is cancelled, as disconnect() does to the         *)
(* reconnect loop. No except clause of session.py catches that.            *)
Cancelled(t) ==
  /\ Busy(t)
  /\ at' = [at EXCEPT ![t] = Idle]
  /\ net' = [s \in Sockets |-> IF s = at[t].sock THEN "dropped" ELSE net[s]]
  /\ UNCHANGED <<conf, known, key, start, answer, writer, read, raised, silent>>

(* The finalizer of a dropped StreamWriter closes it.                      *)
CollectWriter(s) ==
  /\ net[s] = "dropped"
  /\ net' = [net EXCEPT ![s] = "free"]
  /\ UNCHANGED <<conf, known, key, at, start, answer, writer, read, raised, silent>>

(* A socket is open; negotiate() or its next probe takes it as far as the  *)
(* wait for a RESP. v3.3 has no handshake.                                 *)
Opened(t) ==
  /\ at[t].step = "opening"
  /\ \E s \in Sockets :
       LET probe == Required = None
           v == IF at[t].ver # None THEN at[t].ver
                ELSE IF probe THEN "3.5" ELSE Required
       IN
       /\ net[s] = "free"
       /\ net' = [net EXCEPT ![s] = "open"]
       /\ answer' = [answer EXCEPT ![s] = None]
       /\ \/ /\ v = "3.3"
             /\ Install(t, s, v)
             /\ UNCHANGED start
          \/ /\ v # "3.3"
             /\ at' = [at EXCEPT ![t] =
                  [step |-> "resp", ver |-> v, probe |-> probe, sock |-> s]]
             /\ start' = [start EXCEPT ![s] = key[v]]
             /\ UNCHANGED <<known, writer, read, raised>>
  /\ UNCHANGED <<conf, key, silent>>

-----------------------------------------------------------------------------
(* The device.                                                             *)

(* What it may answer to a START of version v under key k. v3.3 and v3.4   *)
(* share their framing, so what a v3.3 device says to a v3.4 START may     *)
(* look like a v3.4 frame that does not authenticate.                      *)
Answers(v, k) ==
  IF v = conf.device
  THEN IF conf.rightKey /\ k = "real" THEN {"resp"} ELSE {"unreadable"}
  ELSE IF v = "3.4" /\ conf.device = "3.3" THEN {"unreadable", "foreign"}
  ELSE {"foreign"}

DeviceAnswers(t) ==
  /\ at[t].step = "resp" /\ net[at[t].sock] = "open" /\ answer[at[t].sock] = None
  /\ \E a \in Answers(at[t].ver, start[at[t].sock]) :
       answer' = [answer EXCEPT ![at[t].sock] = a]
  /\ UNCHANGED <<conf, known, key, at, net, start, writer, read, raised, silent>>

(* The device closes a socket during a handshake.                          *)
DeviceCloses(t) ==
  /\ at[t].step = "resp" /\ net[at[t].sock] = "open"
  /\ net' = [net EXCEPT ![at[t].sock] = "eof"]
  /\ UNCHANGED <<conf, known, key, at, start, answer, writer, read, raised, silent>>

(* A session ends and its socket is closed (module Connection). On v3.4    *)
(* the read loop of a session that was overwritten closes _writer, too.    *)
SessionEnds(s) ==
  /\ s \in read
  /\ net' = [net EXCEPT ![s] = "free",
                        ![IF writer = None THEN s ELSE writer] = "free"]
  /\ read' = read \ {s, writer} /\ writer' = None
  /\ UNCHANGED <<conf, known, key, at, start, answer, raised, silent>>

-----------------------------------------------------------------------------
(* The handshakes' outcomes.                                               *)

(* The RESP does not authenticate under the codec's key of now.            *)
Unauthentic(t) ==
  \/ answer[at[t].sock] = "unreadable"
  \/ answer[at[t].sock] = "resp" /\ key[at[t].ver] # "real"

(* Mutant of Swallowed: so does every probe.                               *)
SwallowedAlways(t) == at[t].probe

(* A probe for v3.4 takes that for a device of another version.            *)
Swallowed(t) == at[t].ver = "3.4" /\ at[t].probe

(* Mutant of CloseSocket: the socket is left to the garbage collector.     *)
LeaveSocket(t) == UNCHANGED net

(* close_writer_silent(writer).                                            *)
CloseSocket(t) == net' = [net EXCEPT ![at[t].sock] = "free"]

(* handshake_34 or handshake_35 returns False: no answer within the time   *)
(* or before the socket is lost, a frame of another protocol, a FINISH     *)
(* that cannot be written, a swallowed mismatch.                           *)
HandshakeFails(t) ==
  /\ at[t].step = "resp"
  /\ \/ answer[at[t].sock] \in {None, "foreign"}
     \/ net[at[t].sock] = "eof" /\ ~Unauthentic(t)
     \/ Unauthentic(t) /\ Swallowed(t)
  /\ CloseSocket(t)
  /\ \/ /\ at[t].probe
        /\ at' = [at EXCEPT ![t] = [step |-> "opening", ver |-> NextProbe(@.ver),
                                    probe |-> TRUE, sock |-> None]]
        /\ UNCHANGED raised
     \/ ~at[t].probe /\ Raise(t, "cannot")
  /\ silent' = (silent \/ (at[t].ver = conf.device /\ ~Unauthentic(t)))
  /\ UNCHANGED <<conf, known, key, start, answer, writer, read>>

(* It raises InvalidAuth, and so does connect().                           *)
AuthFails(t) ==
  /\ at[t].step = "resp"
  /\ Unauthentic(t) /\ ~Swallowed(t)
  /\ CloseSocket(t)
  /\ Raise(t, "auth")
  /\ UNCHANGED <<conf, known, key, start, answer, writer, read, silent>>

(* The FINISH is sent, the codec takes the session key, and connect() goes *)
(* on to its end without another await.                                    *)
HandshakeSucceeds(t) ==
  /\ at[t].step = "resp"
  /\ answer[at[t].sock] = "resp" /\ ~Unauthentic(t)
  /\ key' = [key EXCEPT ![at[t].ver] = at[t].sock]
  /\ Install(t, at[t].sock, at[t].ver)
  /\ UNCHANGED <<conf, net, start, answer, silent>>

Next ==
  \/ \E t \in Tasks :
       \/ Connect(t) \/ Cancelled(t) \/ OpenFails(t) \/ Opened(t)
       \/ DeviceAnswers(t) \/ DeviceCloses(t)
       \/ HandshakeFails(t) \/ AuthFails(t) \/ HandshakeSucceeds(t)
  \/ \E s \in Sockets : SessionEnds(s) \/ CollectWriter(s)

Spec == Init /\ [][Next]_vars

-----------------------------------------------------------------------------
(* Properties.                                                             *)

(* Every variable keeps its type.                                          *)
TypeOK ==
  /\ conf \in [device : Devices, rightKey : BOOLEAN, pinned : Pins]
  /\ known \in Versions \cup {None} /\ key \in [Keyed -> Sockets \cup {"real"}]
  /\ at \in [Tasks -> [step : {"idle", "opening", "resp"}, ver : Versions \cup {None},
                       probe : BOOLEAN, sock : Sockets \cup {None}]]
  /\ net \in [Sockets -> {"free", "open", "eof", "dropped"}]
  /\ start \in [Sockets -> Sockets \cup {"real"}]
  /\ answer \in [Sockets -> {None, "resp", "unreadable", "foreign"}]
  /\ writer \in Sockets \cup {None} /\ read \subseteq Sockets
  /\ raised \in [Tasks -> {None, "auth", "cannot"}] /\ silent \in BOOLEAN

(* No way out of connect() but a cancellation leaves a socket open that no *)
(* read loop and no connect is responsible for (session.py:100-126).       *)
SocketsAccounted ==
  \A s \in Sockets : net[s] \in {"open", "eof"} => s \in read \/ \E t \in Tasks : at[t].sock = s

(* The session in use is read and written under the key its own handshake  *)
(* gave, though the codec is shared by overlapping connects, each of which *)
(* begins by resetting it (client.py:191-195, session.py:205-208).         *)
KeyFitsSession == writer # None /\ known \in Keyed => key[known] = writer

(* A version that sticks is the device's. Only v3.3 can be taken wrongly,  *)
(* for a pin, for a v3.4 device with a wrong key (session.py:243-250), or  *)
(* because the device left a handshake of its own version unfinished; a    *)
(* wrong key that it did answer to on v3.5 is no reason (113-115).         *)
VersionProven ==
  \/ known \in {None, conf.device}
  \/ /\ known = "3.3"
     /\ \/ conf.pinned = "3.3"
        \/ silent
        \/ conf.device = "3.4" /\ ~conf.rightKey

(* InvalidAuth says that the local key was rejected (exceptions.py:14-15), *)
(* and Home Assistant then asks the user for another: the key is wrong, or *)
(* the pin is.                                                             *)
AuthErrorIsTrue ==
  \A t \in Tasks : raised[t] = "auth" =>
    ~conf.rightKey \/ conf.pinned \notin {None, conf.device}

(* The same while connects do not overlap, that is, before v3.4 is known.  *)
AuthErrorIsTrueAlone == known = "3.4" \/ AuthErrorIsTrue

=============================================================================
