----------------------------- MODULE Connection -----------------------------
(***************************************************************************)
(* The session lifecycle of SilverlineClient (pysilverline/client.py):     *)
(* connect, disconnect, the read loop, the heartbeat loop, the reconnect   *)
(* loop and the requests that share one `_writer`.                         *)
(*                                                                         *)
(* Every asyncio task is an actor and every `await` ends an atomic step.   *)
(* A cancelled task runs its finally clause in the step that cancels it.   *)
(* Negotiation is one await with three outcomes (module Negotiation opens  *)
(* it up); what a request carries is the subject of module Dispatch.       *)
(***************************************************************************)

CONSTANTS
  Requests,   \* the tasks that call get_status or set_multiple
  Sockets,    \* socket identities; a finished one is used again
  NoSocket,   \* the value None of _writer and of the task attributes
  Version,    \* _detected_version, fixed once the first connect succeeded
  Drops       \* how a session may end: "eof" (the peer's FIN), "bad" (a
              \* reset or another socket error), "garbage" (a bad frame)

Actors == Requests \cup {"app", "loop"}
Requesters == Requests \cup {"loop"}

(* v3.3 and v3.5 keep one socket open; v3.4 sockets are request-scoped.    *)
Persistent == Version # "3.4"

ASSUME ConnectionAssumption ==
  /\ Requests \cap {"app", "loop"} = {}
  /\ NoSocket \notin Sockets
  /\ Version \in {"3.3", "3.4", "3.5"}
  /\ Drops \subseteq {"eof", "bad", "garbage"}

VARIABLES
  pc,       \* where each actor is
  net,      \* the transport of each socket
  rd,       \* the sockets whose read loop is alive
  hb,       \* the sockets whose heartbeat loop is alive
  writer,   \* _writer (and _reader: both are always set together)
  cur,      \* the session _reader_task and _heartbeat_task point to
  closing,  \* _closing
  lost,     \* _connection_lost_handled
  authErr,  \* _reconnect_auth_error is set
  pending,  \* the requesters with an entry in _pending
  notes     \* the last two connection events the listeners received

vars == <<pc, net, rd, hb, writer, cur, closing, lost, authErr, pending, notes>>

PcOf(a) ==
  IF a = "app" THEN {"down", "opening", "up", "gather", "wclose"}
  ELSE IF a = "loop" THEN {"off", "start", "closing", "sleep", "opening",
                           "lock", "wait", "check"}
  ELSE {"idle", "opening", "lock", "wait"}

PcStates == {"down", "opening", "up", "gather", "wclose", "off", "start",
             "closing", "sleep", "lock", "wait", "check", "idle"}

NetStates == {"up", "eof", "bad", "shut"}

(* A transport the peer half-closed is still open on this side: asyncio's  *)
(* stream protocol keeps it open after EOF, so is_closing() stays False.   *)
Open(s) == net[s] \in {"up", "eof"}

(* A write on the open _writer may fail: on a socket that is being reset,  *)
(* or on a half-closed one once the peer's reset came back, which is after *)
(* the read loop saw the EOF (asyncio polls a half-closed socket no more). *)
WriteMayFail ==
  \/ net[writer] = "up" /\ "bad" \in Drops
  \/ net[writer] = "eof" /\ writer \notin rd

Connected == writer # NoSocket /\ Open(writer)

(* Timers of a second and more fire only once every read loop that has     *)
(* something to report has run.                                            *)
ReadersIdle == \A s \in rd : net[s] = "up"

Unused(s) == s \notin rd \cup hb /\ s # writer /\ ~Open(s)

-----------------------------------------------------------------------------
(* Pieces the handlers share.                                              *)

(* Where a is when it has nothing to do.                                   *)
AtRest(a) == IF a = "app" THEN "down" ELSE IF a = "loop" THEN "off" ELSE "idle"

(* Where a's task goes on once its request is over.                        *)
After(a) == IF a = "loop" THEN "check" ELSE AtRest(a)

(* Mutant of FailPending: the futures are dropped, not failed.             *)
ForgetPending(p) == p

(* p with every request that awaits a future in _pending failed.           *)
FailPending(p) ==
  [a \in Actors |-> IF a \in pending /\ p[a] = "wait" THEN After(a) ELSE p[a]]

Notify(event) == notes' = <<notes[2], event>>

ShutWriter == [net EXCEPT ![writer] = "shut"]

(* Mutant of CloseWriterIfAny: the old socket is dropped without a close.  *)
AbandonWriter == net

CloseWriterIfAny == IF writer = NoSocket THEN net ELSE ShutWriter

(* Mutants of OnConnectionDropped: it reports every time; it stays silent  *)
(* while a reconnect task is alive; it schedules no reconnect.             *)
DroppedReportsAgain(p) ==
  /\ lost' = ~closing
  /\ Notify("down")
  /\ pc' = [p EXCEPT !["loop"] = IF @ = "off" /\ ~closing THEN "start" ELSE @]

DroppedOnlyWhenIdle(p) ==
  IF closing \/ lost \/ p["loop"] # "off"
  THEN pc' = p /\ UNCHANGED <<lost, notes>>
  ELSE lost' = TRUE /\ Notify("down") /\ pc' = [p EXCEPT !["loop"] = "start"]

DroppedWithoutRetry(p) ==
  IF closing \/ lost
  THEN pc' = p /\ UNCHANGED <<lost, notes>>
  ELSE lost' = TRUE /\ Notify("down") /\ pc' = p

(* _on_connection_dropped, where p is pc after the caller's own move.      *)
OnConnectionDropped(p) ==
  \/ /\ closing \/ lost
     /\ pc' = p
     /\ UNCHANGED <<lost, notes>>
  \/ /\ ~closing /\ ~lost
     /\ lost' = TRUE
     /\ Notify("down")
     /\ pc' = [p EXCEPT !["loop"] = IF @ = "off" THEN "start" ELSE @]

(* The part of connect() before its first await.                           *)
EnterConnect(a, done) ==
  \/ /\ Connected
     /\ pc' = [pc EXCEPT ![a] = done]
     /\ UNCHANGED closing
  \/ /\ ~Connected
     /\ closing' = FALSE
     /\ pc' = [pc EXCEPT ![a] = "opening"]

-----------------------------------------------------------------------------
Init ==
  /\ pc = [a \in Actors |-> AtRest(a)]
  /\ net = [s \in Sockets |-> "shut"]
  /\ rd = {} /\ hb = {} /\ pending = {}
  /\ writer = NoSocket /\ cur = NoSocket
  /\ closing = FALSE /\ lost = FALSE /\ authErr = FALSE
  /\ notes = <<"none", "none">>

(* The owner (the coordinator's setup) calls connect().                    *)
AppConnect ==
  /\ pc["app"] = "down"
  /\ EnterConnect("app", "up")
  /\ UNCHANGED <<net, rd, hb, writer, cur, lost, authErr, pending, notes>>

(* The rest of connect(): the socket is open and negotiated.               *)
ConnectSucceeds(a, s) ==
  /\ pc[a] = "opening" /\ Unused(s)
  /\ net' = [net EXCEPT ![s] = "up"]
  /\ writer' = s /\ cur' = s
  /\ rd' = rd \cup {s}
  /\ hb' = IF Persistent THEN hb \cup {s} ELSE hb
  /\ authErr' = FALSE
  /\ lost' = FALSE
  /\ IF lost THEN Notify("up") ELSE UNCHANGED notes
  /\ pc' = [pc EXCEPT ![a] = IF a = "app" THEN "up" ELSE "lock"]
  /\ UNCHANGED <<closing, pending>>

(* open_tcp or negotiate raised; only the reconnect loop records a         *)
(* rejected key.                                                           *)
ConnectFails(a, rejected) ==
  /\ pc[a] = "opening"
  /\ pc' = [pc EXCEPT ![a] = IF a = "loop" THEN "sleep" ELSE AtRest(a)]
  /\ authErr' = (authErr \/ (a = "loop" /\ rejected))
  /\ UNCHANGED <<net, rd, hb, writer, cur, closing, lost, pending, notes>>

-----------------------------------------------------------------------------
(* disconnect(), in three steps around its two awaits.                     *)

(* Mutant of DisconnectBegin: the reconnect task is not cancelled.         *)
DisconnectSparesLoop ==
  /\ pc["app"] = "up"
  /\ closing' = TRUE
  /\ rd' = rd \ {cur} /\ hb' = hb \ {cur}
  /\ pending' = IF cur \in rd THEN {} ELSE pending
  /\ pc' = [(IF cur \in rd THEN FailPending(pc) ELSE pc) EXCEPT !["app"] = "gather"]
  /\ UNCHANGED <<net, writer, cur, lost, authErr, notes>>

DisconnectBegin ==
  /\ pc["app"] = "up"
  /\ closing' = TRUE
  /\ rd' = rd \ {cur} /\ hb' = hb \ {cur}
  /\ pending' = IF cur \in rd THEN {} ELSE pending
  /\ pc' = [(IF cur \in rd THEN FailPending(pc) ELSE pc)
              EXCEPT !["app"] = "gather", !["loop"] = "off"]
  /\ UNCHANGED <<net, writer, cur, lost, authErr, notes>>

DisconnectClose ==
  /\ pc["app"] = "gather"
  /\ cur' = NoSocket
  /\ pending' = {}
  /\ pc' = [FailPending(pc) EXCEPT !["app"] = "wclose"]
  /\ net' = CloseWriterIfAny
  /\ UNCHANGED <<rd, hb, writer, closing, lost, authErr, notes>>

(* Mutant of DisconnectEnd: the recorded key rejection is kept.            *)
DisconnectKeepsAuthError ==
  /\ pc["app"] = "wclose"
  /\ pc' = [pc EXCEPT !["app"] = "down"]
  /\ writer' = NoSocket /\ lost' = FALSE
  /\ notes' = <<"none", "none">>
  /\ UNCHANGED <<net, rd, hb, cur, closing, authErr, pending>>

DisconnectEnd ==
  /\ pc["app"] = "wclose"
  /\ pc' = [pc EXCEPT !["app"] = "down"]
  /\ writer' = NoSocket
  /\ authErr' = FALSE /\ lost' = FALSE
  /\ notes' = <<"none", "none">>
  /\ UNCHANGED <<net, rd, hb, cur, closing, pending>>

-----------------------------------------------------------------------------
(* _request(). The owner stops issuing requests once it disconnects.       *)

RequestBegin(r) ==
  /\ pc["app"] = "up" /\ pc[r] = "idle"
  /\ \/ /\ Connected
        /\ pc' = [pc EXCEPT ![r] = "lock"]
        /\ UNCHANGED closing
     \/ /\ ~Connected /\ ~Persistent
        /\ EnterConnect(r, "lock")
  /\ UNCHANGED <<net, rd, hb, writer, cur, lost, authErr, pending, notes>>

(* The send lock is free: register the future, then write and drain. The   *)
(* entry stays behind when _writer is None and is popped on an OSError.    *)
RequestSend(a) ==
  /\ pc[a] = "lock"
  /\ \/ /\ writer = NoSocket
        /\ pending' = pending \cup {a}
        /\ pc' = [pc EXCEPT ![a] = After(a)]
        /\ UNCHANGED net
     \/ /\ Connected
        /\ pending' = pending \cup {a}
        /\ pc' = [pc EXCEPT ![a] = "wait"]
        /\ UNCHANGED net
     \/ /\ writer # NoSocket
        /\ ~Connected \/ WriteMayFail
        /\ net' = [net EXCEPT ![writer] = IF Open(writer) THEN "bad" ELSE @]
        /\ pending' = pending \ {a}
        /\ pc' = [pc EXCEPT ![a] = After(a)]
  /\ UNCHANGED <<rd, hb, writer, cur, closing, lost, authErr, notes>>

(* A read loop hands the answer over, or wait_for gives up.                *)
RequestEnds(a, answered) ==
  /\ pc[a] = "wait"
  /\ ~answered => ReadersIdle
  /\ answered => a \in pending /\ \E s \in rd : net[s] = "up"
  /\ pending' = pending \ {a}
  /\ pc' = [pc EXCEPT ![a] = After(a)]
  /\ UNCHANGED <<net, rd, hb, writer, cur, closing, lost, authErr, notes>>

-----------------------------------------------------------------------------
(* The peer and the garbage collector.                                     *)

PeerDrops(s, how) ==
  /\ how \in Drops
  /\ net[s] = "up"
  /\ net' = [net EXCEPT ![s] = how]
  /\ UNCHANGED <<pc, rd, hb, writer, cur, closing, lost, authErr, pending, notes>>

(* A StreamWriter nobody refers to closes its transport when collected.    *)
CollectWriter(s) ==
  /\ s # writer /\ Open(s)
  /\ net' = [net EXCEPT ![s] = "shut"]
  /\ UNCHANGED <<pc, rd, hb, writer, cur, closing, lost, authErr, pending, notes>>

-----------------------------------------------------------------------------
(* Mutant of ReaderExits: a clean close of a v3.4 socket is reported too.  *)
ReaderExitsLoudly(s) ==
  /\ s \in rd /\ (~Open(s) \/ net[s] = "eof" \/ closing)
  /\ rd' = rd \ {s} /\ pending' = {}
  /\ OnConnectionDropped(FailPending(pc))
  /\ UNCHANGED <<net, writer, hb, cur, closing, authErr>>

(* The way out of _read_loop for the session s: fail what is pending, then *)
(* either tear a cleanly closed v3.4 session down quietly or report it.    *)
ReaderExits(s) ==
  /\ s \in rd
  /\ ~Open(s) \/ net[s] = "eof" \/ closing
  /\ rd' = rd \ {s}
  /\ pending' = {}
  /\ IF ~Persistent /\ net[s] \in {"eof", "shut"} /\ ~closing
     THEN /\ pc' = FailPending(pc)
          /\ net' = CloseWriterIfAny
          /\ writer' = NoSocket
          /\ UNCHANGED <<lost, notes>>
     ELSE /\ OnConnectionDropped(FailPending(pc))
          /\ UNCHANGED <<net, writer>>
  /\ UNCHANGED <<hb, cur, closing, authErr>>

(* A frame that cannot be decoded, or a buffer that outgrew its bound: the *)
(* reader of s closes _writer and leaves.                                  *)
ReaderDesyncs(s) ==
  /\ "garbage" \in Drops /\ s \in rd /\ net[s] = "up"
  /\ rd' = rd \ {s}
  /\ pending' = {}
  /\ net' = CloseWriterIfAny
  /\ OnConnectionDropped(FailPending(pc))
  /\ UNCHANGED <<hb, writer, cur, closing, authErr>>

HeartbeatStops(s) ==
  /\ s \in hb /\ ReadersIdle
  /\ closing \/ ~Connected
  /\ hb' = hb \ {s}
  /\ UNCHANGED <<pc, net, rd, writer, cur, closing, lost, authErr, pending, notes>>

(* The heartbeat's write fails; it uses whatever _writer is by then.       *)
HeartbeatFails(s) ==
  /\ s \in hb /\ ReadersIdle /\ ~closing /\ Connected
  /\ WriteMayFail
  /\ net' = [net EXCEPT ![writer] = "bad"]
  /\ hb' = hb \ {s}
  /\ OnConnectionDropped(pc)
  /\ UNCHANGED <<rd, writer, cur, closing, authErr, pending>>

-----------------------------------------------------------------------------
(* _reconnect_loop().                                                      *)

LoopClose ==
  /\ pc["loop"] = "start"
  /\ net' = CloseWriterIfAny
  /\ pc' = [pc EXCEPT !["loop"] = "closing"]
  /\ UNCHANGED <<rd, hb, writer, cur, closing, lost, authErr, pending, notes>>

(* wait_closed() returned: forget the socket and reap its two tasks.       *)
LoopReap ==
  /\ pc["loop"] = "closing"
  /\ writer' = NoSocket /\ cur' = NoSocket
  /\ rd' = rd \ {cur} /\ hb' = hb \ {cur}
  /\ IF cur \in rd
     THEN /\ pending' = {}
          /\ OnConnectionDropped([FailPending(pc) EXCEPT !["loop"] = "sleep"])
     ELSE /\ pc' = [pc EXCEPT !["loop"] = "sleep"]
          /\ UNCHANGED <<pending, lost, notes>>
  /\ UNCHANGED <<net, closing, authErr>>

(* A backoff delay is over (the schedule never ends).                      *)
LoopWake ==
  /\ pc["loop"] = "sleep" /\ ReadersIdle
  /\ IF closing THEN pc' = [pc EXCEPT !["loop"] = "off"] /\ UNCHANGED closing
                ELSE EnterConnect("loop", "lock")
  /\ UNCHANGED <<net, rd, hb, writer, cur, lost, authErr, pending, notes>>

(* Mutant of LoopCheck: the loop trusts the session it has just opened.    *)
LoopCheckTrusts ==
  /\ pc["loop"] = "check"
  /\ pc' = [pc EXCEPT !["loop"] = "off"]
  /\ UNCHANGED <<net, rd, hb, writer, cur, closing, lost, authErr, pending, notes>>

(* After the refresh, whatever became of it.                               *)
LoopCheck ==
  /\ pc["loop"] = "check"
  /\ pc' = [pc EXCEPT !["loop"] = IF Connected THEN "off" ELSE "sleep"]
  /\ UNCHANGED <<net, rd, hb, writer, cur, closing, lost, authErr, pending, notes>>

-----------------------------------------------------------------------------
LoopStep == LoopClose \/ LoopReap \/ LoopWake \/ LoopCheck

Disconnect == DisconnectBegin \/ DisconnectClose \/ DisconnectEnd

Next ==
  \/ AppConnect \/ Disconnect \/ LoopStep
  \/ \E a \in Actors :
       \/ \E s \in Sockets : ConnectSucceeds(a, s)
       \/ \E rejected \in BOOLEAN : ConnectFails(a, rejected)
  \/ \E r \in Requests : RequestBegin(r)
  \/ \E a \in Requesters :
       \/ RequestSend(a)
       \/ \E answered \in BOOLEAN : RequestEnds(a, answered)
  \/ \E s \in Sockets :
       \/ \E how \in {"eof", "bad"} : PeerDrops(s, how)
       \/ CollectWriter(s) \/ ReaderExits(s) \/ ReaderDesyncs(s)
       \/ HeartbeatStops(s) \/ HeartbeatFails(s)

Spec == Init /\ [][Next]_vars

(* asyncio runs every ready task and every timer fires; a socket the peer  *)
(* left is seen; and a device that is asked for ever answers at some time. *)
Fairness ==
  /\ WF_vars(LoopStep) /\ WF_vars(DisconnectClose) /\ WF_vars(DisconnectEnd)
  /\ \A s \in Sockets : WF_vars(ReaderExits(s)) /\ WF_vars(HeartbeatStops(s))
  /\ WF_vars(RequestSend("loop"))
  /\ WF_vars(\E answered \in BOOLEAN : RequestEnds("loop", answered))
  /\ WF_vars(\E rejected \in BOOLEAN : ConnectFails("loop", rejected))
  /\ SF_vars(\E s \in Sockets : ConnectSucceeds("loop", s))

FairSpec == Spec /\ Fairness

-----------------------------------------------------------------------------
(* Properties.                                                             *)

(* Every variable keeps its type.                                          *)
TypeOK ==
  /\ pc \in [Actors -> PcStates]
  /\ \A a \in Actors : pc[a] \in PcOf(a)
  /\ net \in [Sockets -> NetStates]
  /\ rd \subseteq Sockets /\ hb \subseteq Sockets
  /\ writer \in Sockets \cup {NoSocket} /\ cur \in Sockets \cup {NoSocket}
  /\ closing \in BOOLEAN /\ lost \in BOOLEAN /\ authErr \in BOOLEAN
  /\ pending \subseteq Requesters
  /\ notes \in {"none", "down", "up"} \X {"none", "down", "up"}

(* The listeners are never told twice of the same loss, nor of a recovery  *)
(* from a loss they were not told of: the flag and the events agree.       *)
NotesAlternate ==
  /\ notes[1] = notes[2] => notes[1] = "none"
  /\ notes[2] = "up" => notes[1] = "down"
  /\ lost <=> notes[2] = "down"

(* A loss nobody stops has a reconnect task working on it: the client is   *)
(* never left dead with no scheduled retry.                                *)
LostHasRetry ==
  lost /\ pc["app"] \notin {"gather", "wclose"} => pc["loop"] # "off"

(* A v3.3 or v3.5 client that reports no loss watches the socket it        *)
(* writes to, so the next drop will be noticed.                            *)
WatchedWhileUp ==
  Persistent /\ pc["app"] = "up" /\ ~lost => writer \in rd

(* On v3.3 and v3.5 no request waits for an answer that no read loop can   *)
(* hand over: a session that ends fails what waits on it.                  *)
NoStrandedRequest ==
  Persistent /\ pc["app"] # "gather"
    => \A a \in Requesters : pc[a] = "wait" => writer \in rd /\ a \in pending

(* After disconnect() the client stays down until connect() is called: no  *)
(* socket, no reader, no reconnect task and no waiting request is left.    *)
DownStaysDown ==
  pc["app"] = "down" =>
    /\ writer = NoSocket /\ rd = {} /\ pc["loop"] = "off"
    /\ \A s \in Sockets : ~Open(s)
    /\ \A a \in Requesters : pc[a] # "wait"

(* v3.3 and v3.5 keep at most one socket open, the one _writer writes to,  *)
(* with one read loop on it that _reader_task points to.                   *)
SingleSession ==
  Persistent =>
    /\ \A s \in Sockets : Open(s) => writer = s
    /\ rd \subseteq {cur}

(* The dead heartbeat is reaped before a new one is started: there is      *)
(* never a heartbeat loop that _heartbeat_task does not point to.          *)
OneHeartbeat == hb \subseteq {cur}

(* A recorded key rejection is one the reconnect loop is still retrying:   *)
(* it never outlives the session that proves the key, nor a disconnect.    *)
AuthErrorIsFresh ==
  Persistent /\ authErr /\ pc["app"] \notin {"gather", "wclose"}
    => lost /\ pc["loop"] \in {"sleep", "opening"}

(* A v3.4 device closes its socket after every answer: as long as it does  *)
(* only that, however requests interleave, nobody is told of a loss and no *)
(* reconnect task is started.                                              *)
QuietScoped == notes = <<"none", "none">> /\ pc["loop"] = "off"

(* What the owner may rely on (module Link), for v3.3 and v3.5: the events *)
(* as a whole, and recovery from every loss that is not stopped.           *)
L == INSTANCE Link WITH
       phase <- IF pc["app"] \in {"down", "opening"} THEN "off"
                ELSE IF lost THEN "lost" ELSE "on"

LinkSafe == L!Safe
LinkSpec == L!Spec

=============================================================================
