------------------------------ MODULE Dispatch ------------------------------
(***************************************************************************)
(* Requests, answers and pushes on one session of SilverlineClient         *)
(* (pysilverline/client.py): how get_status and set_multiple register a    *)
(* future, how _dispatch finds the future a frame belongs to, and how the  *)
(* client's copy of the DPs follows the device.                            *)
(*                                                                         *)
(* One dispatched frame, one resumption of a task and one timer are one    *)
(* step each; tasks resume in the order their futures were completed       *)
(* (asyncio's ready queue). TCP keeps both directions in order.            *)
(***************************************************************************)
EXTENDS Naturals, SequencesExt

CONSTANTS
  Tasks,      \* the tasks that call the client: polls, refreshes, services
  DPs,        \* the device's data points
  Values,     \* their values
  Versions,   \* the protocol versions to consider
  MaxSeq,     \* sequence numbers are drawn from 1..MaxSeq, and reused
  MaxWire,    \* frames under way in one direction before a sender waits
  MaxEvents   \* writes, device changes, cancellations and drops, in all

ASSUME DispatchAssumption ==
  /\ Versions \subseteq {"3.3", "3.4", "3.5"}
  /\ MaxSeq \in Nat /\ MaxWire \in Nat /\ MaxEvents \in Nat
  /\ Values # {}

Unknown == "unknown"
Queries == {"query", "query_new"}
Sibling == [query |-> "query_new", query_new |-> "query"]

VARIABLES
  version,   \* _detected_version
  served,    \* the query opcodes this firmware serves
  dev,       \* the device's DPs
  had,       \* every value each DP of the device ever had (history)
  state,     \* _state
  toDev,     \* requests under way to the device
  toCli,     \* frames under way to the client
  pending,   \* _pending, in insertion order
  task,      \* what each task is doing
  fut,       \* the frame its future was completed with, or how it ended
  ready,     \* the tasks whose future is done and that have not yet resumed
  queryCmd,  \* _query_cmd, the latched opcode
  events     \* how many of MaxEvents happened

wire == <<toDev, toCli>>
vars == <<version, served, dev, had, state, toDev, toCli, pending, task, fut,
          ready, queryCmd, events>>

(* A frame from the device; ok says that its retcode is not an error.      *)
Frame(cmd, seq, ok, dps) == [cmd |-> cmd, seq |-> seq, ok |-> ok, dps |-> dps]

(* How a future is done without a frame.                                   *)
Ended(how) == Frame(how, 0, FALSE, <<>>)
NotDone == Ended("none")

Idle == [op |-> "none", seq |-> 0, dps |-> <<>>, fallback |-> FALSE]

Waits(r) == task[r] # Idle
Unresolved(r) == Waits(r) /\ fut[r] = NotDone

(* The future of an entry of _pending is not done.                         *)
Live(e) == Unresolved(e.task) /\ task[e.task].seq = e.seq

(* One data point, and DeviceState.merge: dps laid over base.              *)
Dp(d, v) == [x \in {d} |-> v]
Merged(dps, base) ==
  [d \in DOMAIN dps \cup DOMAIN base |-> IF d \in DOMAIN dps THEN dps[d] ELSE base[d]]

CmdMatches(pendingCmd, cmd) ==
  pendingCmd = cmd \/ {pendingCmd, cmd} \subseteq Queries

-----------------------------------------------------------------------------
(* _request(): a fresh sequence number, the entry in _pending, the write.  *)

(* The numbers nothing carries but r, when the entries in left are pending. *)
Fresh(r, left) ==
  (1 .. MaxSeq) \ ({m.seq : m \in ToSet(left \o toDev)}
                     \cup {f.seq : f \in ToSet(toCli)}
                     \cup {task[q].seq : q \in Tasks \ {r}})

(* left is _pending without the entries the caller has just popped.        *)
Request(r, op, dps, fallback, left) ==
  /\ Fresh(r, left) # {}
  /\ LET seq == Min(Fresh(r, left)) IN
     /\ task' = [task EXCEPT ![r] = [op |-> op, seq |-> seq, dps |-> dps,
                                     fallback |-> fallback]]
     /\ pending' = Append(left, [seq |-> seq, cmd |-> op, task |-> r])
     /\ toDev' = Append(toDev, [seq |-> seq, cmd |-> op, dps |-> dps])
  /\ fut' = [fut EXCEPT ![r] = NotDone]

(* Mutant of Primary: no default before the first opcode is latched.       *)
PrimaryUnset == queryCmd

Primary ==
  IF queryCmd # Unknown THEN queryCmd
  ELSE IF version = "3.5" THEN "query_new" ELSE "query"

Init ==
  /\ version \in Versions
  /\ served \in IF version = "3.3" THEN {{"query"}} ELSE SUBSET Queries \ {{}}
  /\ dev = [d \in DPs |-> CHOOSE v \in Values : TRUE]  \* which one is no matter
  /\ had = [d \in DPs |-> {dev[d]}]
  /\ state = [d \in DPs |-> Unknown]
  /\ toDev = <<>> /\ toCli = <<>> /\ pending = <<>> /\ ready = <<>>
  /\ task = [r \in Tasks |-> Idle]
  /\ fut = [r \in Tasks |-> NotDone]
  /\ queryCmd = Unknown
  /\ events = 0

(* Room for one more request or push (answers always find some).           *)
Room == Len(toDev) + Len(toCli) < MaxWire

Event == events < MaxEvents /\ events' = events + 1

(* get_status(), its first try.                                            *)
GetStatus(r) ==
  /\ ~Waits(r) /\ Room
  /\ Request(r, Primary, <<>>, FALSE, pending)
  /\ UNCHANGED <<version, served, dev, had, state, toCli, ready, queryCmd, events>>

(* set_multiple({d: v}); every entity writes one DP at a time.             *)
SetMultiple(r, d, v) ==
  /\ ~Waits(r) /\ Room /\ Event
  /\ Request(r, "control", Dp(d, v), FALSE, pending)
  /\ UNCHANGED <<version, served, dev, had, state, toCli, ready, queryCmd>>

-----------------------------------------------------------------------------
(* The device. A v3.3 or v3.4 firmware echoes the sequence number of the   *)
(* request, a v3.5 firmware counts on its own: its number is one nobody    *)
(* waits for (0), or that of any pending request by chance.                *)

AnswerSeqs(m) ==
  IF version = "3.5" THEN {0} \cup {e.seq : e \in ToSet(pending)} ELSE {m.seq}

Push(d) == Frame("status", 0, TRUE, Dp(d, dev'[d]))

(* A query is answered with every DP; an opcode the firmware does not      *)
(* serve is rejected or ignored.                                           *)
DeviceQuery ==
  /\ toDev # <<>> /\ Head(toDev).cmd \in Queries
  /\ LET m == Head(toDev) IN \E seq \in AnswerSeqs(m) :
     \/ m.cmd \in served
        /\ toCli' = Append(toCli, Frame(m.cmd, seq, TRUE, dev))
     \/ m.cmd \notin served
        /\ toCli' \in {toCli, Append(toCli, Frame(m.cmd, seq, FALSE, <<>>))}
  /\ toDev' = Tail(toDev)
  /\ UNCHANGED <<version, served, dev, had, state, pending, task, fut, ready, queryCmd, events>>

(* A write is rejected, or applied and acknowledged by an ack, by a push   *)
(* that echoes the DP (v3.4 and v3.5 only), or by both.                    *)
DeviceControl ==
  /\ toDev # <<>> /\ Head(toDev).cmd = "control"
  /\ LET m == Head(toDev) IN \E seq \in AnswerSeqs(m) :
     LET ack(ok) == Frame("control", seq, ok, <<>>)
         pushes == {Push(d) : d \in DOMAIN m.dps} IN
     \/ /\ toCli' = Append(toCli, ack(FALSE))
        /\ UNCHANGED <<dev, had>>
     \/ /\ dev' = Merged(m.dps, dev)
        /\ had' = [d \in DPs |-> had[d] \cup {dev'[d]}]
        /\ \E p \in pushes :
             toCli' \in {toCli \o <<ack(TRUE), p>>, toCli \o <<p, ack(TRUE)>>}
               \cup IF version = "3.3" THEN {} ELSE {Append(toCli, p)}
  /\ toDev' = Tail(toDev)
  /\ UNCHANGED <<version, served, state, pending, task, fut, ready, queryCmd, events>>

(* The device pushes a DP, because it changed or as telemetry.             *)
DevicePushes(d, v) ==
  /\ Room /\ Event
  /\ dev' = [dev EXCEPT ![d] = v]
  /\ had' = [had EXCEPT ![d] = @ \cup {v}]
  /\ toCli' = Append(toCli, Push(d))
  /\ UNCHANGED <<version, served, state, toDev, pending, task, fut, ready, queryCmd>>

-----------------------------------------------------------------------------
(* _take_pending: the position in _pending of the future that a frame      *)
(* completes, 0 if there is none.                                          *)

OldestOf(cmd) == SelectInSeq(pending, LAMBDA e : CmdMatches(e.cmd, cmd))

(* Mutant of TakePending: the fallback is not limited to v3.4 and v3.5.    *)
TakeByCmd(cmd, seq) ==
  LET exact == SelectInSeq(pending, LAMBDA e : e.seq = seq /\ CmdMatches(e.cmd, cmd))
  IN  IF exact # 0 THEN exact ELSE OldestOf(cmd)

TakePending(cmd, seq) ==
  LET exact == SelectInSeq(pending, LAMBDA e : e.seq = seq /\ CmdMatches(e.cmd, cmd))
  IN  IF exact # 0 THEN exact
      ELSE IF version = "3.3" THEN 0 ELSE OldestOf(cmd)

(* Mutant of Complete: a rejection is popped but not handed on.            *)
CompleteUnlessRejected(i, f) ==
  LET e == pending[i]
      live == Live(e) /\ f.ok
  IN  /\ pending' = RemoveAt(pending, i)
      /\ fut' = IF live THEN [fut EXCEPT ![e.task] = f] ELSE fut
      /\ ready' = IF live THEN Append(ready, e.task) ELSE ready

(* Pop the entry at i and complete its future, unless that is done: then   *)
(* the frame is lost with it.                                              *)
Complete(i, f) ==
  LET e == pending[i]
  IN  /\ pending' = RemoveAt(pending, i)
      /\ fut' = IF Live(e) THEN [fut EXCEPT ![e.task] = f] ELSE fut
      /\ ready' = IF Live(e) THEN Append(ready, e.task) ELSE ready

(* The written DPs of every write that has not yet resumed.                *)
InflightWrites == {DOMAIN task[r].dps : r \in {q \in Tasks : task[q].op = "control"}}

StatusPushAcksWrite(dps) == \E written \in InflightWrites : DOMAIN dps \cap written # {}

(* The ack a push is taken for; dps records the push it was made from.     *)
SyntheticAck(f) == Frame("control", f.seq, TRUE, f.dps)

(* Mutant of Unsolicited: the answer is dropped.                           *)
DropUnsolicited(f) == UNCHANGED state

(* A query response that no request awaits is merged all the same.         *)
Unsolicited(f) ==
  state' = IF f.cmd \in Queries /\ f.ok THEN Merged(f.dps, state) ELSE state

DispatchReply(f) ==
  /\ f.cmd # "status"
  /\ LET i == TakePending(f.cmd, f.seq) IN
     \/ i # 0 /\ Complete(i, f) /\ UNCHANGED state
     \/ i = 0 /\ Unsolicited(f) /\ UNCHANGED <<pending, fut, ready>>

DispatchPush(f) ==
  /\ f.cmd = "status"
  /\ state' = Merged(f.dps, state)
  /\ LET i == TakePending("control", f.seq)
         acks == version # "3.3" /\ StatusPushAcksWrite(f.dps) /\ i # 0
     IN  IF acks THEN Complete(i, SyntheticAck(f))
                 ELSE UNCHANGED <<pending, fut, ready>>

(* The read loop hands the next frame to _dispatch.                        *)
Dispatch ==
  /\ toCli # <<>>
  /\ DispatchReply(Head(toCli)) \/ DispatchPush(Head(toCli))
  /\ toCli' = Tail(toCli)
  /\ UNCHANGED <<version, served, dev, had, toDev, task, queryCmd, events>>

-----------------------------------------------------------------------------
(* A waiting task is cancelled: by wait_for's timer, or by its owner. It   *)
(* loses an answer that is there already but has not resumed it yet.       *)
EndWait(r, how) ==
  /\ Waits(r) /\ fut[r].cmd \notin {"expired", "cancelled"}
  /\ fut' = [fut EXCEPT ![r] = Ended(how)]
  /\ ready' = IF fut[r] = NotDone THEN Append(ready, r) ELSE ready
  /\ UNCHANGED <<version, served, dev, had, state, toDev, toCli, pending, task, queryCmd>>

Expire(r) == EndWait(r, "expired") /\ UNCHANGED events

Cancel(r) == EndWait(r, "cancelled") /\ Event

(* The session ends, its transport closed with it, and the next one begins *)
(* (module Connection has both, and the half-closed transport).            *)
SessionLost ==
  /\ Event
  /\ LET failed == {i \in DOMAIN pending : Live(pending[i])}
     IN  /\ fut' = [r \in Tasks |-> IF \E i \in failed : pending[i].task = r
                                    THEN Ended("lost") ELSE fut[r]]
         /\ \E order \in [1 .. Cardinality(failed) -> failed] :
              /\ \A i, j \in DOMAIN order : i < j => order[i] < order[j]
              /\ ready' = ready \o [i \in DOMAIN order |-> pending[order[i]].task]
  /\ pending' = <<>> /\ toDev' = <<>> /\ toCli' = <<>>
  /\ UNCHANGED <<version, served, dev, had, state, task, queryCmd>>

-----------------------------------------------------------------------------
(* The next ready task goes on after its `await wait_for(...)`.            *)

(* _pending once r is back: its own expired entry is popped, a cancelled   *)
(* one stays behind.                                                       *)
PendingAfter(r) ==
  LET i == SelectInSeq(pending, LAMBDA e : e.seq = task[r].seq)
  IN  IF fut[r].cmd = "expired" /\ i # 0 THEN RemoveAt(pending, i) ELSE pending

Finish(r) ==
  /\ task' = [task EXCEPT ![r] = Idle]
  /\ fut' = [fut EXCEPT ![r] = NotDone]
  /\ pending' = PendingAfter(r)
  /\ UNCHANGED toDev

(* get_status succeeds: merge, and latch the opcode.                       *)
StatusArrives(r) ==
  /\ task[r].op \in Queries /\ fut[r].ok
  /\ state' = Merged(fut[r].dps, state)
  /\ queryCmd' = task[r].op
  /\ Finish(r)

(* Whether a failed first try is repeated under the sibling opcode.        *)
FallsBack(r) ==
  /\ task[r].op \in Queries /\ ~task[r].fallback
  /\ version # "3.3" /\ fut[r].cmd \notin {"lost", "cancelled"}

StatusFails(r) ==
  /\ task[r].op \in Queries /\ ~fut[r].ok
  /\ \/ FallsBack(r) /\ Request(r, Sibling[task[r].op], <<>>, TRUE, PendingAfter(r))
     \/ ~FallsBack(r) /\ Finish(r)
  /\ UNCHANGED <<state, queryCmd>>

(* Mutant of WriteEnds: the retcode is not looked at.                      *)
WriteIgnoresRetcode(r) ==
  /\ task[r].op = "control"
  /\ state' = IF fut[r].cmd = "control" THEN Merged(task[r].dps, state) ELSE state
  /\ Finish(r) /\ UNCHANGED queryCmd

(* set_multiple merges what an accepted write asked for.                   *)
WriteEnds(r) ==
  /\ task[r].op = "control"
  /\ state' = IF fut[r].ok THEN Merged(task[r].dps, state) ELSE state
  /\ Finish(r) /\ UNCHANGED queryCmd

Resume ==
  /\ ready # <<>>
  /\ LET r == Head(ready) IN StatusArrives(r) \/ StatusFails(r) \/ WriteEnds(r)
  /\ ready' = Tail(ready)
  /\ UNCHANGED <<version, served, dev, had, toCli, events>>

-----------------------------------------------------------------------------
Device == DeviceQuery \/ DeviceControl

Next ==
  \/ Device \/ Dispatch \/ Resume \/ SessionLost
  \/ \E r \in Tasks :
       \/ GetStatus(r) \/ Expire(r) \/ Cancel(r)
       \/ \E d \in DPs, v \in Values : SetMultiple(r, d, v)
  \/ \E d \in DPs, v \in Values : DevicePushes(d, v)

Spec == Init /\ [][Next]_vars

(* A timer and a frame meet in one turn of the event loop: one of the two  *)
(* makes the other's work void before the task has run.                    *)
Race ==
  \/ Dispatch /\ \E r \in Tasks : fut[r].cmd = "expired"
  \/ \E r \in Tasks : Expire(r) /\ fut[r] # NotDone

(* The coordinator polls on and on, the device takes every request, every  *)
(* frame is read, every ready task runs and every timer fires; and timers  *)
(* and frames do not go on meeting for ever. Answers may all be late.      *)
Fairness ==
  /\ WF_vars(\E r \in Tasks : GetStatus(r))
  /\ WF_vars(Device) /\ WF_vars(Dispatch) /\ WF_vars(Resume)
  /\ \A r \in Tasks : WF_vars(Expire(r))
  /\ <>[][~Race]_vars

FairSpec == Spec /\ Fairness

-----------------------------------------------------------------------------
(* Properties.                                                             *)

Cmds == Queries \cup {"control"}

(* Every variable keeps its type.                                          *)
TypeOK ==
  /\ version \in Versions /\ served \subseteq Queries
  /\ dev \in [DPs -> Values] /\ had \in [DPs -> SUBSET Values]
  /\ state \in [DPs -> Values \cup {Unknown}]
  /\ ToSet(pending) \subseteq [seq : 1 .. MaxSeq, cmd : Cmds, task : Tasks]
  /\ ToSet(ready) \subseteq Tasks
  /\ queryCmd \in Queries \cup {Unknown}
  /\ events \in 0 .. MaxEvents

(* On v3.3 a request is completed only by the device's answer to it,       *)
(* however late the answers to earlier requests arrive.                    *)
OwnAnswer ==
  version = "3.3" =>
    \A r \in Tasks : fut[r].cmd \in Cmds => fut[r].seq = task[r].seq

(* A request that still waits can still be answered: its entry is in       *)
(* _pending, whatever frames were dispatched and whoever gave up before.   *)
NobodyForgotten ==
  \A r \in Tasks : Unresolved(r) =>
    \E e \in ToSet(pending) : e.task = r /\ e.seq = task[r].seq

(* On v3.3 the client never shows a value the device never had: a write    *)
(* the device rejected, or never received, is not merged.                  *)
NoPhantom ==
  version = "3.3" => \A d \in DPs : state[d] \in had[d] \cup {Unknown}

(* Only a push that carries a DP the write wrote counts as its ack.        *)
EchoAcksItsWrite ==
  \A r \in Tasks : task[r].op = "control" /\ fut[r].dps # <<>>
    => DOMAIN fut[r].dps \cap DOMAIN task[r].dps # {}

(* Whatever was overtaken, misattributed, lost or given up on, polling     *)
(* brings the client's copy back to what the device has, on every version. *)
Settles == <>[](state = dev)

=============================================================================
