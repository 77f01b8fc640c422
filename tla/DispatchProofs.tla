--------------------------- MODULE DispatchProofs ---------------------------
(***************************************************************************)
(* Theorems about module Dispatch, for any tasks, data points and values,  *)
(* and any bounds on numbers, frames and events.                           *)
(***************************************************************************)
EXTENDS Dispatch, FiniteSetTheorems, SequenceTheorems, WellFoundedInduction, TLAPS

-----------------------------------------------------------------------------
(* Sets and sequences.                                                     *)

LEMMA MinIn ==
  ASSUME NEW S \in SUBSET Nat, S # {}
  PROVE  Min(S) \in S
<1>. DEFINE Less == {ss \in Nat \X Nat : ss[1] < ss[2]}
<1>1. IsWellFoundedOn(Less, Nat)
  BY NatLessThanWellFounded DEF OpToRel
<1>2. PICK x \in S : \A y \in S : ~ (<<y, x>> \in Less)
  <2>. HIDE DEF Less
  <2>. QED  BY <1>1, WFMin
<1>3. ASSUME NEW y \in S PROVE x <= y
  <2>1. x \in Nat /\ y \in Nat /\ <<y, x>> \in Nat \X Nat
    OBVIOUS
  <2>2. ~ (y < x)
    BY <1>2, <2>1
  <2>. QED  BY <2>1, <2>2
<1>. QED  BY <1>3 DEF Min

LEMMA SetOfAppend ==
  ASSUME NEW S, NEW s \in Seq(S), NEW x \in S
  PROVE  /\ Append(s, x) \in Seq(S)
         /\ ToSet(Append(s, x)) = ToSet(s) \cup {x}
<1>1. /\ Append(s, x) \in Seq(S) /\ Len(Append(s, x)) = Len(s) + 1
      /\ \A i \in 1 .. Len(s) : Append(s, x)[i] = s[i]
      /\ Append(s, x)[Len(s) + 1] = x
  BY AppendProperties
<1>2. DOMAIN s = 1 .. Len(s) /\ DOMAIN Append(s, x) = 1 .. Len(s) + 1 /\ Len(s) \in Nat
  BY <1>1, LenProperties
<1>. QED  BY <1>1, <1>2 DEF ToSet

LEMMA SetOfTail ==
  ASSUME NEW S, NEW s \in Seq(S), s # <<>>
  PROVE  /\ Tail(s) \in Seq(S) /\ Head(s) \in S
         /\ ToSet(Tail(s)) \subseteq ToSet(s) /\ Head(s) \in ToSet(s)
<1>1. /\ Tail(s) \in Seq(S) /\ Head(s) \in S /\ Len(Tail(s)) = Len(s) - 1
      /\ \A i \in 1 .. Len(Tail(s)) : Tail(s)[i] = s[i + 1]
  BY HeadTailProperties
<1>2. DOMAIN s = 1 .. Len(s) /\ DOMAIN Tail(s) = 1 .. Len(s) - 1 /\ Len(s) \in Nat \ {0}
  BY <1>1, LenProperties, EmptySeq
<1>3. Head(s) = s[1]
  BY <1>2
<1>. QED  BY <1>1, <1>2, <1>3 DEF ToSet

LEMMA SetOfConcat ==
  ASSUME NEW S, NEW s \in Seq(S), NEW t \in Seq(S)
  PROVE  s \o t \in Seq(S) /\ ToSet(s \o t) = ToSet(s) \cup ToSet(t)
<1>1. /\ s \o t \in Seq(S) /\ Len(s \o t) = Len(s) + Len(t)
      /\ \A i \in 1 .. Len(s) + Len(t) :
           (s \o t)[i] = IF i <= Len(s) THEN s[i] ELSE t[i - Len(s)]
  BY ConcatProperties
<1>2. /\ DOMAIN s = 1 .. Len(s) /\ DOMAIN t = 1 .. Len(t)
      /\ DOMAIN (s \o t) = 1 .. Len(s) + Len(t) /\ Len(s) \in Nat /\ Len(t) \in Nat
  BY <1>1, LenProperties
<1>3. \A i \in 1 .. Len(t) : i + Len(s) \in 1 .. Len(s) + Len(t) /\ (s \o t)[i + Len(s)] = t[i]
  BY <1>1, <1>2
<1>4. \A i \in 1 .. Len(s) : i \in 1 .. Len(s) + Len(t) /\ (s \o t)[i] = s[i]
  BY <1>1, <1>2
<1>5. ASSUME NEW x \in ToSet(s \o t) PROVE x \in ToSet(s) \cup ToSet(t)
  <2>1. PICK i \in 1 .. Len(s) + Len(t) : x = (s \o t)[i]
    BY <1>2 DEF ToSet
  <2>2. CASE i <= Len(s)
    <3>1. i \in DOMAIN s /\ x = s[i]
      BY <1>1, <1>2, <2>1, <2>2
    <3>. QED  BY <3>1 DEF ToSet
  <2>3. CASE ~ (i <= Len(s))
    <3>1. i - Len(s) \in DOMAIN t /\ x = t[i - Len(s)]
      BY <1>1, <1>2, <2>1, <2>3
    <3>. QED  BY <3>1 DEF ToSet
  <2>. QED  BY <2>2, <2>3
<1>6. ToSet(s) \subseteq ToSet(s \o t)
  BY <1>2, <1>4 DEF ToSet
<1>7. ToSet(t) \subseteq ToSet(s \o t)
  BY <1>2, <1>3 DEF ToSet
<1>. QED  BY <1>1, <1>5, <1>6, <1>7

(* What is left after removing the i-th element: all the others.           *)
LEMMA SetOfRemoveAt ==
  ASSUME NEW S, NEW s \in Seq(S), NEW i \in 1 .. Len(s)
  PROVE  /\ RemoveAt(s, i) \in Seq(S)
         /\ ToSet(RemoveAt(s, i)) \subseteq ToSet(s)
         /\ \A j \in 1 .. Len(s) : j # i => s[j] \in ToSet(RemoveAt(s, i))
<1>. DEFINE a == SubSeq(s, 1, i - 1)
            b == SubSeq(s, i + 1, Len(s))
<1>0. Len(s) \in Nat /\ DOMAIN s = 1 .. Len(s) /\ \A j \in 1 .. Len(s) : s[j] \in S
  BY LenProperties
<1>1. /\ a \in Seq(S) /\ Len(a) = i - 1
      /\ \A j \in 1 .. i - 1 : a[j] = s[j]
  <2>1. 1 \in Int /\ i - 1 \in Int /\ \A j \in 1 .. i - 1 : s[j] \in S
    BY <1>0
  <2>2. /\ a \in Seq(S) /\ Len(a) = IF 1 <= i - 1 THEN i - 1 - 1 + 1 ELSE 0
        /\ \A j \in 1 .. i - 1 - 1 + 1 : a[j] = s[1 + j - 1]
    BY ONLY <2>1, SubSeqProperties
  <2>3. \A j \in 1 .. i - 1 : 1 + j - 1 = j /\ j \in 1 .. i - 1 - 1 + 1
    BY <1>0
  <2>. QED  BY <1>0, <2>2, <2>3
<1>2. /\ b \in Seq(S) /\ Len(b) = Len(s) - i
      /\ \A j \in 1 .. Len(s) - i : b[j] = s[j + i]
  <2>1. i + 1 \in Int /\ Len(s) \in Int /\ \A j \in i + 1 .. Len(s) : s[j] \in S
    BY <1>0
  <2>2. /\ b \in Seq(S) /\ Len(b) = IF i + 1 <= Len(s) THEN Len(s) - (i + 1) + 1 ELSE 0
        /\ \A j \in 1 .. Len(s) - (i + 1) + 1 : b[j] = s[i + 1 + j - 1]
    BY ONLY <2>1, SubSeqProperties
  <2>3. \A j \in 1 .. Len(s) - i : i + 1 + j - 1 = j + i /\ j \in 1 .. Len(s) - (i + 1) + 1
    BY <1>0
  <2>. HIDE DEF b
  <2>4. Len(b) = Len(s) - i
    <3>1. ASSUME NEW n \in Nat, NEW k \in 1 .. n
          PROVE  (IF k + 1 <= n THEN n - (k + 1) + 1 ELSE 0) = n - k
      OBVIOUS
    <3>2. Len(b) = IF i + 1 <= Len(s) THEN Len(s) - (i + 1) + 1 ELSE 0
      BY <2>2
    <3>. QED  BY <1>0, <3>1, <3>2
  <2>5. ASSUME NEW j \in 1 .. Len(s) - i PROVE b[j] = s[j + i]
    BY <2>2, <2>3
  <2>. QED  BY <2>2, <2>4, <2>5
<1>3. RemoveAt(s, i) \in Seq(S) /\ ToSet(RemoveAt(s, i)) = ToSet(a) \cup ToSet(b)
  BY <1>1, <1>2, SetOfConcat DEF RemoveAt
<1>4. DOMAIN a = 1 .. i - 1 /\ DOMAIN b = 1 .. Len(s) - i
  BY <1>1, <1>2, LenProperties
<1>. HIDE DEF a, b
<1>5. ToSet(a) \cup ToSet(b) \subseteq ToSet(s)
  <2>1. \A j \in 1 .. i - 1 : j \in 1 .. Len(s)
    BY <1>0
  <2>2. \A j \in 1 .. Len(s) - i : j + i \in 1 .. Len(s)
    BY <1>0
  <2>3. ToSet(a) \subseteq ToSet(s)
    BY <1>0, <1>1, <1>4, <2>1 DEF ToSet
  <2>4. ToSet(b) \subseteq ToSet(s)
    BY <1>0, <1>2, <1>4, <2>2 DEF ToSet
  <2>. QED  BY <2>3, <2>4
<1>6. ASSUME NEW j \in 1 .. Len(s), j # i PROVE s[j] \in ToSet(a) \cup ToSet(b)
  <2>1. CASE j < i
    BY <1>0, <1>1, <1>4, <2>1 DEF ToSet
  <2>2. CASE j > i
    <3>1. j - i \in DOMAIN b /\ b[j - i] = s[j]
      BY <1>0, <1>2, <1>4, <2>2
    <3>. QED  BY <3>1 DEF ToSet
  <2>. QED  BY <1>0, <1>6, <2>1, <2>2
<1>. QED  BY <1>3, <1>5, <1>6

-----------------------------------------------------------------------------
(* Types.                                                                  *)

(* What a frame can carry: values for some of the data points.             *)
PDps == UNION {[S -> Values] : S \in SUBSET DPs}

Messages == [seq : 1 .. MaxSeq, cmd : Cmds, dps : PDps]
Replies == [cmd : Cmds \cup {"status"}, seq : 0 .. MaxSeq, ok : BOOLEAN, dps : PDps]
Entries == [seq : 1 .. MaxSeq, cmd : Cmds, task : Tasks]
Calls == {Idle} \cup
  [op : Cmds, seq : 1 .. MaxSeq, dps : PDps, fallback : BOOLEAN]
Answers == [cmd : Cmds, seq : 0 .. MaxSeq, ok : BOOLEAN, dps : PDps]
Futures == Answers \cup {Ended(how) : how \in {"none", "expired", "cancelled", "lost"}}

DataTyped ==
  /\ version \in Versions /\ served \subseteq Queries
  /\ dev \in [DPs -> Values] /\ had \in [DPs -> SUBSET Values]
  /\ state \in [DPs -> Values \cup {Unknown}]
  /\ queryCmd \in Queries \cup {Unknown} /\ events \in 0 .. MaxEvents

WireTyped == toDev \in Seq(Messages) /\ toCli \in Seq(Replies)

TasksTyped ==
  /\ pending \in Seq(Entries) /\ ready \in Seq(Tasks)
  /\ task \in [Tasks -> Calls] /\ fut \in [Tasks -> Futures]

Typed == DataTyped /\ WireTyped /\ TasksTyped

LEMMA NoDps == <<>> \in PDps
<1>1. <<>> \in [{} -> Values]
  OBVIOUS
<1>. QED  BY <1>1 DEF PDps

LEMMA OneDp ==
  ASSUME NEW d \in DPs, NEW v \in Values
  PROVE  Dp(d, v) \in PDps
<1>1. Dp(d, v) \in [{d} -> Values]
  BY DEF Dp
<1>. QED  BY <1>1 DEF PDps

LEMMA PDpsIs ==
  ASSUME NEW dps \in PDps
  PROVE  DOMAIN dps \subseteq DPs /\ \A d \in DOMAIN dps : dps[d] \in Values
BY DEF PDps

LEMMA AllDps == [DPs -> Values] \subseteq PDps
BY DEF PDps

LEMMA MergedIs ==
  ASSUME NEW dps \in PDps, NEW X, Values \subseteq X, NEW base \in [DPs -> X]
  PROVE  /\ Merged(dps, base) \in [DPs -> X]
         /\ \A d \in DPs : Merged(dps, base)[d] = IF d \in DOMAIN dps THEN dps[d] ELSE base[d]
<1>1. DOMAIN dps \cup DOMAIN base = DPs
  BY PDpsIs
<1>2. Merged(dps, base) =
        [d \in DPs |-> IF d \in DOMAIN dps THEN dps[d] ELSE base[d]]
  BY <1>1 DEF Merged
<1>. QED  BY <1>2, PDpsIs

-----------------------------------------------------------------------------
(* What the pieces do that the handlers share.                             *)

(* A number nothing carries but the entries of r's own that were popped.   *)
Unused(seq, r, left) ==
  /\ seq \in 1 .. MaxSeq
  /\ \A e \in ToSet(left) : e.seq # seq
  /\ \A m \in ToSet(toDev) : m.seq # seq
  /\ \A f \in ToSet(toCli) : f.seq # seq
  /\ \A q \in Tasks \ {r} : task[q].seq # seq

LEMMA FreshIsUnused ==
  ASSUME NEW r, NEW left, Fresh(r, left) # {}, left \in Seq(Entries), WireTyped
  PROVE  Unused(Min(Fresh(r, left)), r, left)
<1>1. Fresh(r, left) \in SUBSET Nat
  BY DEF Fresh
<1>2. Min(Fresh(r, left)) \in Fresh(r, left)
  BY <1>1, MinIn
<1>3. \A m \in ToSet(left) : m \in ToSet(left \o toDev)
  <2>1. left \in Seq(Entries \cup Messages) /\ toDev \in Seq(Entries \cup Messages)
    BY SeqMonotonic DEF WireTyped
  <2>. QED  BY <2>1, SetOfConcat
<1>4. \A m \in ToSet(toDev) : m \in ToSet(left \o toDev)
  <2>1. left \in Seq(Entries \cup Messages) /\ toDev \in Seq(Entries \cup Messages)
    BY SeqMonotonic DEF WireTyped
  <2>. QED  BY <2>1, SetOfConcat
<1>. QED  BY <1>2, <1>3, <1>4 DEF Fresh, Unused

(* A request registers r's call, its entry and its message under an unused *)
(* number.                                                                 *)
Registers(r, seq, op, dps, fallback, left) ==
  /\ Unused(seq, r, left)
  /\ task' = [task EXCEPT ![r] = [op |-> op, seq |-> seq, dps |-> dps,
                                  fallback |-> fallback]]
  /\ fut' = [fut EXCEPT ![r] = NotDone]
  /\ pending' \in Seq(Entries)
  /\ ToSet(pending') = ToSet(left) \cup {[seq |-> seq, cmd |-> op, task |-> r]}
  /\ toDev' \in Seq(Messages)
  /\ ToSet(toDev') = ToSet(toDev) \cup {[seq |-> seq, cmd |-> op, dps |-> dps]}

LEMMA RequestRegisters ==
  ASSUME NEW r \in Tasks, NEW op \in Cmds, NEW dps \in PDps, NEW fallback \in BOOLEAN,
         NEW left \in Seq(Entries), WireTyped, Request(r, op, dps, fallback, left)
  PROVE  \E seq \in 1 .. MaxSeq : Registers(r, seq, op, dps, fallback, left)
<1>. DEFINE seq == Min(Fresh(r, left))
<1>1. Fresh(r, left) # {}
  BY DEF Request
<1>2. Unused(seq, r, left)
  BY <1>1, FreshIsUnused
<1>3. seq \in 1 .. MaxSeq
  BY <1>2 DEF Unused
<1>4. /\ task' = [task EXCEPT ![r] = [op |-> op, seq |-> seq, dps |-> dps,
                                     fallback |-> fallback]]
      /\ pending' = Append(left, [seq |-> seq, cmd |-> op, task |-> r])
      /\ toDev' = Append(toDev, [seq |-> seq, cmd |-> op, dps |-> dps])
      /\ fut' = [fut EXCEPT ![r] = NotDone]
  BY DEF Request
<1>. HIDE DEF seq
<1>5. [seq |-> seq, cmd |-> op, task |-> r] \in Entries
  BY <1>3 DEF Entries
<1>6. [seq |-> seq, cmd |-> op, dps |-> dps] \in Messages
  BY <1>3 DEF Messages
<1>7. pending' \in Seq(Entries)
      /\ ToSet(pending') = ToSet(left) \cup {[seq |-> seq, cmd |-> op, task |-> r]}
  BY <1>4, <1>5, SetOfAppend
<1>8. toDev' \in Seq(Messages)
      /\ ToSet(toDev') = ToSet(toDev) \cup {[seq |-> seq, cmd |-> op, dps |-> dps]}
  BY <1>4, <1>6, SetOfAppend DEF WireTyped
<1>. QED  BY <1>2, <1>3, <1>4, <1>7, <1>8 DEF Registers

(* What r leaves in _pending: every entry that has not its number.         *)
LEMMA PendingLeft ==
  ASSUME NEW r \in Tasks, pending \in Seq(Entries)
  PROVE  /\ PendingAfter(r) \in Seq(Entries)
         /\ ToSet(PendingAfter(r)) \subseteq ToSet(pending)
         /\ \A e \in ToSet(pending) : e.seq # task[r].seq => e \in ToSet(PendingAfter(r))
<1>. DEFINE I == {i \in 1 .. Len(pending) : pending[i].seq = task[r].seq}
            i == IF I # {} THEN Min(I) ELSE 0
<1>1. PendingAfter(r) = IF fut[r].cmd = "expired" /\ i # 0 THEN RemoveAt(pending, i) ELSE pending
  BY DEF PendingAfter, SelectInSeq
<1>2. CASE ~ (fut[r].cmd = "expired" /\ i # 0)
  BY <1>1, <1>2
<1>3. CASE fut[r].cmd = "expired" /\ i # 0
  <2>1. I \in SUBSET Nat /\ I # {}
    BY <1>3
  <2>2. i \in I
    BY <2>1, MinIn
  <2>3. i \in 1 .. Len(pending) /\ pending[i].seq = task[r].seq
    BY <2>2
  <2>4. PendingAfter(r) = RemoveAt(pending, i)
    BY <1>1, <1>3
  <2>. HIDE DEF i
  <2>5. /\ PendingAfter(r) \in Seq(Entries)
        /\ ToSet(PendingAfter(r)) \subseteq ToSet(pending)
        /\ \A j \in 1 .. Len(pending) : j # i => pending[j] \in ToSet(PendingAfter(r))
    BY <2>3, <2>4, SetOfRemoveAt
  <2>6. ASSUME NEW e \in ToSet(pending), e.seq # task[r].seq PROVE e \in ToSet(PendingAfter(r))
    <3>1. PICK j \in 1 .. Len(pending) : e = pending[j]
      BY LenProperties DEF ToSet
    <3>. QED  BY <2>3, <2>5, <2>6, <3>1
  <2>. QED  BY <2>5, <2>6
<1>. QED  BY <1>2, <1>3

(* _take_pending finds an entry of the frame's kind; on v3.3, of its own   *)
(* number.                                                                 *)
LEMMA TakesMatch ==
  ASSUME NEW cmd, NEW seq, pending \in Seq(Entries), TakePending(cmd, seq) # 0
  PROVE  LET i == TakePending(cmd, seq)
         IN /\ i \in 1 .. Len(pending) /\ CmdMatches(pending[i].cmd, cmd)
            /\ version = "3.3" => pending[i].seq = seq
<1>. DEFINE I == {i \in 1 .. Len(pending) : pending[i].seq = seq /\ CmdMatches(pending[i].cmd, cmd)}
            J == {i \in 1 .. Len(pending) : CmdMatches(pending[i].cmd, cmd)}
            i == TakePending(cmd, seq)
<1>1. I \in SUBSET Nat /\ J \in SUBSET Nat
  OBVIOUS
<1>2. CASE I # {}
  <2>0. Min(I) \in I
    BY <1>1, <1>2, MinIn
  <2>1. Min(I) \in I /\ Min(I) # 0
    <3>1. \A j \in I : j # 0
      OBVIOUS
    <3>. HIDE DEF I
    <3>. QED  BY <2>0, <3>1
  <2>2. i = Min(I)
    BY <1>2, <2>1 DEF TakePending, SelectInSeq
  <2>. QED  BY <2>1, <2>2
<1>3. CASE I = {}
  <2>1. version # "3.3" /\ i = OldestOf(cmd)
    BY <1>3 DEF TakePending, SelectInSeq
  <2>2. J # {} /\ i = Min(J)
    BY <2>1 DEF OldestOf, SelectInSeq
  <2>3. i \in J
    BY <1>1, <2>2, MinIn
  <2>. QED  BY <2>1, <2>3
<1>. QED  BY <1>2, <1>3

-----------------------------------------------------------------------------
(* Requests, entries and futures belong together by their numbers.         *)

(* Two calls under way have different numbers.                             *)
Distinct ==
  \A r, q \in Tasks : r # q /\ Waits(r) => task[r].seq # task[q].seq

(* An entry that is its task's own is of the kind of the task's call.      *)
EntryKnown ==
  \A e \in ToSet(pending) : e.seq = task[e.task].seq => e.cmd = task[e.task].op

(* So is a message under way, and it carries what the call wants written.  *)
MessageKnown ==
  \A m \in ToSet(toDev), r \in Tasks :
    m.seq = task[r].seq => m.cmd = task[r].op /\ m.dps = task[r].dps

Core == Distinct /\ NobodyForgotten /\ EntryKnown /\ MessageKnown /\ OwnAnswer

LEMMA CallIs ==
  ASSUME NEW r \in Tasks, TasksTyped
  PROVE  /\ task[r] \in Calls /\ task[r].seq \in 0 .. MaxSeq /\ task[r].dps \in PDps
         /\ Waits(r) <=> task[r].seq # 0
         /\ Waits(r) => task[r].op \in Cmds
         /\ task[r].op \in Cmds => Waits(r)
<1>1. task[r] \in Calls
  BY DEF TasksTyped
<1>2. CASE task[r] = Idle
  <2>1. "none" \notin Cmds
    BY DEF Cmds, Queries
  <2>. QED  BY <1>1, <1>2, <2>1, NoDps, DispatchAssumption DEF Idle, Waits
<1>3. CASE task[r] \in [op : Cmds, seq : 1 .. MaxSeq, dps : PDps, fallback : BOOLEAN]
  <2>1. task[r].seq # 0 /\ task[r].seq \in 0 .. MaxSeq
    BY <1>3, DispatchAssumption
  <2>2. task[r] # Idle
    BY <2>1 DEF Idle
  <2>. QED  BY <1>1, <1>3, <2>1, <2>2 DEF Waits
<1>. QED  BY <1>1, <1>2, <1>3 DEF Calls

(* What is no frame is not taken for one.                                  *)
LEMMA EndedIsNoAnswer ==
  ASSUME NEW how \in {"none", "expired", "cancelled", "lost"}
  PROVE  /\ Ended(how) \in Futures /\ Ended(how).cmd \notin Cmds /\ Ended(how).ok = FALSE
         /\ Ended(how).dps = <<>> /\ (Ended(how) = NotDone <=> how = "none")
BY DEF Futures, Ended, NotDone, Frame, Cmds, Queries

LEMMA AnswerIs ==
  ASSUME NEW f \in Answers
  PROVE  f \in Futures /\ f # NotDone /\ f.cmd \in Cmds
BY DEF Answers, Futures, Ended, NotDone, Frame, Cmds, Queries

(* A request that has been registered.                                     *)
LEMMA CoreRegisters ==
  ASSUME TasksTyped, Core, WireTyped, NEW r \in Tasks, NEW seq \in 1 .. MaxSeq,
         NEW op \in Cmds, NEW dps \in PDps, NEW fallback \in BOOLEAN,
         NEW left \in Seq(Entries), ToSet(left) \subseteq ToSet(pending),
         \A e \in ToSet(pending) : e.seq # task[r].seq => e \in ToSet(left),
         Registers(r, seq, op, dps, fallback, left),
         ready' \in Seq(Tasks), version' = version
  PROVE  TasksTyped' /\ Core'
<1>. DEFINE call == [op |-> op, seq |-> seq, dps |-> dps, fallback |-> fallback]
<1>1. call \in Calls /\ call.seq = seq /\ call.op = op /\ call.dps = dps
  BY DEF Calls
<1>2. /\ task' = [task EXCEPT ![r] = call] /\ fut' = [fut EXCEPT ![r] = NotDone]
      /\ pending' \in Seq(Entries)
      /\ ToSet(pending') = ToSet(left) \cup {[seq |-> seq, cmd |-> op, task |-> r]}
      /\ ToSet(toDev') = ToSet(toDev) \cup {[seq |-> seq, cmd |-> op, dps |-> dps]}
      /\ \A e \in ToSet(left) : e.seq # seq
      /\ \A m \in ToSet(toDev) : m.seq # seq
      /\ \A q \in Tasks \ {r} : task[q].seq # seq
  BY DEF Registers, Unused
<1>. HIDE DEF call
<1>3. NotDone \in Futures /\ NotDone.cmd \notin Cmds
  BY EndedIsNoAnswer DEF NotDone
<1>4. /\ task' \in [Tasks -> Calls] /\ task'[r] = call
      /\ \A q \in Tasks \ {r} : task'[q] = task[q]
  BY <1>1, <1>2 DEF TasksTyped
<1>5. /\ fut' \in [Tasks -> Futures] /\ fut'[r] = NotDone
      /\ \A q \in Tasks \ {r} : fut'[q] = fut[q]
  BY <1>2, <1>3 DEF TasksTyped
<1>6. TasksTyped'
  BY <1>2, <1>4, <1>5 DEF TasksTyped
<1>7. \A e \in ToSet(pending) : e \in Entries
  BY LenProperties DEF ToSet, TasksTyped
<1>8. Distinct'
  <2>. SUFFICES ASSUME NEW q \in Tasks, NEW p \in Tasks, q # p, Waits(q)'
                PROVE  task'[q].seq # task'[p].seq
    BY DEF Distinct
  <2>1. CASE q = r
    BY <1>1, <1>2, <1>4, <2>1
  <2>2. CASE q # r /\ p = r
    BY <1>1, <1>2, <1>4, <2>2
  <2>3. CASE q # r /\ p # r
    BY <1>4, <2>3 DEF Distinct, Core, Waits
  <2>. QED  BY <2>1, <2>2, <2>3
<1>9. NobodyForgotten'
  <2>. SUFFICES ASSUME NEW q \in Tasks, Unresolved(q)'
                PROVE  \E e \in ToSet(pending') : e.task = q /\ e.seq = task'[q].seq
    BY DEF NobodyForgotten
  <2>1. CASE q = r
    <3>. DEFINE e == [seq |-> seq, cmd |-> op, task |-> r]
    <3>1. e \in ToSet(pending') /\ e.task = r /\ e.seq = seq
      BY <1>2
    <3>2. task'[q].seq = seq
      BY <1>1, <1>4, <2>1
    <3>. QED  BY <2>1, <3>1, <3>2
  <2>2. CASE q # r
    <3>1. Unresolved(q) /\ task'[q] = task[q]
      BY <1>4, <1>5, <2>2 DEF Unresolved, Waits
    <3>2. PICK e \in ToSet(pending) : e.task = q /\ e.seq = task[q].seq
      BY <3>1 DEF Core, NobodyForgotten
    <3>3. task[q].seq # task[r].seq
      BY <2>2, <3>1 DEF Core, Distinct, Unresolved
    <3>. QED  BY <1>2, <3>1, <3>2, <3>3
  <2>. QED  BY <2>1, <2>2
<1>10. EntryKnown'
  <2>. SUFFICES ASSUME NEW e \in ToSet(pending'), e.seq = task'[e.task].seq
                PROVE  e.cmd = task'[e.task].op
    BY DEF EntryKnown
  <2>1. CASE e \in ToSet(left)
    <3>1. e \in ToSet(pending) /\ e.task \in Tasks
      BY <1>7, <2>1 DEF Entries
    <3>2. e.task # r
      BY <1>1, <1>2, <1>4, <2>1
    <3>. QED  BY <1>4, <3>1, <3>2 DEF Core, EntryKnown
  <2>2. CASE e = [seq |-> seq, cmd |-> op, task |-> r]
    BY <1>1, <1>4, <2>2
  <2>. QED  BY <1>2, <2>1, <2>2
<1>11. MessageKnown'
  <2>. SUFFICES ASSUME NEW m \in ToSet(toDev'), NEW q \in Tasks, m.seq = task'[q].seq
                PROVE  m.cmd = task'[q].op /\ m.dps = task'[q].dps
    BY DEF MessageKnown
  <2>1. CASE m \in ToSet(toDev)
    <3>1. q # r
      BY <1>1, <1>2, <1>4, <2>1
    <3>. QED  BY <1>4, <2>1, <3>1 DEF Core, MessageKnown
  <2>2. CASE m = [seq |-> seq, cmd |-> op, dps |-> dps]
    <3>1. q = r
      BY <1>2, <1>4, <2>2
    <3>. QED  BY <1>1, <1>4, <2>2, <3>1
  <2>. QED  BY <1>2, <2>1, <2>2
<1>12. OwnAnswer'
  <2>. SUFFICES ASSUME version = "3.3", NEW q \in Tasks, fut'[q].cmd \in Cmds
                PROVE  fut'[q].seq = task'[q].seq
    BY DEF OwnAnswer, Cmds
  <2>1. q # r
    BY <1>3, <1>5
  <2>. QED  BY <1>4, <1>5, <2>1 DEF Core, OwnAnswer
<1>. QED  BY <1>6, <1>8, <1>9, <1>10, <1>11, <1>12 DEF Core

(* A frame that has been handed to the entry at i.                         *)
LEMMA CoreCompletes ==
  ASSUME TasksTyped, Core, NEW i \in 1 .. Len(pending), NEW f \in Answers,
         version = "3.3" => pending[i].seq = f.seq,
         Complete(i, f), UNCHANGED <<version, toDev, task>>
  PROVE  /\ TasksTyped' /\ Core'
         /\ \A r \in Tasks :
              \/ fut'[r] = fut[r]
              \/ fut'[r] = f /\ pending[i].task = r /\ pending[i].seq = task[r].seq
<1>. DEFINE e == pending[i]
<1>1. e \in Entries /\ e \in ToSet(pending)
  BY LenProperties, ElementOfSeq DEF TasksTyped, ToSet
<1>2. /\ pending' = RemoveAt(pending, i)
      /\ fut' = IF Live(e) THEN [fut EXCEPT ![e.task] = f] ELSE fut
      /\ ready' = IF Live(e) THEN Append(ready, e.task) ELSE ready
  BY DEF Complete
<1>3. /\ pending' \in Seq(Entries) /\ ToSet(pending') \subseteq ToSet(pending)
      /\ \A j \in 1 .. Len(pending) : j # i => pending[j] \in ToSet(pending')
  BY <1>2, SetOfRemoveAt DEF TasksTyped
<1>4. \A j \in DOMAIN pending : j \in 1 .. Len(pending)
  BY LenProperties DEF TasksTyped
<1>5. f \in Futures /\ f # NotDone
  BY AnswerIs
<1>. HIDE DEF e
<1>6. e.task \in Tasks
  BY <1>1 DEF Entries
<1>7. ready' \in Seq(Tasks)
  BY <1>2, <1>6, SetOfAppend DEF TasksTyped
<1>8. fut' \in [Tasks -> Futures]
  BY <1>2, <1>5, <1>6 DEF TasksTyped
<1>9. ASSUME NEW r \in Tasks
      PROVE  IF Live(e) /\ e.task = r THEN fut'[r] = f ELSE fut'[r] = fut[r]
  BY <1>2, <1>6 DEF TasksTyped
<1>10. TasksTyped'
  BY <1>3, <1>7, <1>8 DEF TasksTyped
<1>11. NobodyForgotten'
  <2>. SUFFICES ASSUME NEW q \in Tasks, Unresolved(q)'
                PROVE  \E x \in ToSet(pending') : x.task = q /\ x.seq = task[q].seq
    BY DEF NobodyForgotten
  <2>1. Unresolved(q) /\ ~ (Live(e) /\ e.task = q)
    BY <1>5, <1>9 DEF Unresolved, Waits
  <2>2. PICK x \in ToSet(pending) : x.task = q /\ x.seq = task[q].seq
    BY <2>1 DEF Core, NobodyForgotten
  <2>3. PICK j \in 1 .. Len(pending) : x = pending[j]
    BY <1>4 DEF ToSet
  <2>4. Live(x)
    BY <2>1, <2>2 DEF Live
  <2>5. j # i
    BY <2>1, <2>2, <2>3, <2>4 DEF e
  <2>. QED  BY <1>3, <2>2, <2>3, <2>5
<1>12. Distinct' /\ EntryKnown' /\ MessageKnown'
  <2>1. Distinct'
    BY DEF Core, Distinct, Waits
  <2>2. EntryKnown'
    BY <1>3 DEF Core, EntryKnown
  <2>3. MessageKnown'
    BY DEF Core, MessageKnown
  <2>. QED  BY <2>1, <2>2, <2>3
<1>13. OwnAnswer'
  <2>. SUFFICES ASSUME version = "3.3", NEW q \in Tasks, fut'[q].cmd \in Cmds
                PROVE  fut'[q].seq = task[q].seq
    BY DEF OwnAnswer, Cmds
  <2>1. CASE Live(e) /\ e.task = q
    <3>1. e.seq = f.seq /\ e.seq = task[q].seq
      BY <2>1 DEF Live, e
    <3>. QED  BY <1>9, <2>1, <3>1
  <2>2. CASE ~ (Live(e) /\ e.task = q)
    BY <1>9, <2>2 DEF Core, OwnAnswer
  <2>. QED  BY <2>1, <2>2
<1>14. ASSUME NEW r \in Tasks
       PROVE  fut'[r] = fut[r] \/ (fut'[r] = f /\ e.task = r /\ e.seq = task[r].seq)
  BY <1>9 DEF Live
<1>. QED  BY <1>10, <1>11, <1>12, <1>13, <1>14 DEF Core, e

(* A call that has ended.                                                  *)
LEMMA CoreFinishes ==
  ASSUME TasksTyped, WireTyped, Core, NEW r \in Tasks, Finish(r), ready' \in Seq(Tasks),
         version' = version
  PROVE  TasksTyped' /\ Core'
<1>1. /\ task' = [task EXCEPT ![r] = Idle] /\ fut' = [fut EXCEPT ![r] = NotDone]
      /\ pending' \in Seq(Entries) /\ ToSet(pending') \subseteq ToSet(pending)
      /\ \A e \in ToSet(pending) : e.seq # task[r].seq => e \in ToSet(pending')
      /\ toDev' = toDev
  BY PendingLeft DEF Finish, TasksTyped
<1>2. NotDone \in Futures /\ NotDone.cmd \notin Cmds
  BY EndedIsNoAnswer DEF NotDone
<1>3. /\ task' \in [Tasks -> Calls] /\ task'[r] = Idle /\ Idle.seq = 0
      /\ \A q \in Tasks \ {r} : task'[q] = task[q]
  BY <1>1 DEF TasksTyped, Calls, Idle
<1>4. /\ fut' \in [Tasks -> Futures] /\ fut'[r] = NotDone
      /\ \A q \in Tasks \ {r} : fut'[q] = fut[q]
  BY <1>1, <1>2 DEF TasksTyped
<1>5. TasksTyped'
  BY <1>1, <1>3, <1>4 DEF TasksTyped
<1>6. /\ \A e \in ToSet(pending) : e.seq # 0 /\ e.task \in Tasks
      /\ \A m \in ToSet(toDev) : m.seq # 0
  <2>1. \A e \in ToSet(pending) : e \in Entries
    BY LenProperties DEF ToSet, TasksTyped
  <2>2. \A m \in ToSet(toDev) : m \in Messages
    BY LenProperties DEF ToSet, WireTyped
  <2>. QED  BY <2>1, <2>2 DEF Entries, Messages
<1>7. Distinct'
  <2>. SUFFICES ASSUME NEW q \in Tasks, NEW p \in Tasks, q # p, Waits(q)'
                PROVE  task'[q].seq # task'[p].seq
    BY DEF Distinct
  <2>1. q # r /\ Waits(q)
    BY <1>3 DEF Waits
  <2>2. CASE p = r
    BY <1>3, <2>1, <2>2, CallIs
  <2>3. CASE p # r
    BY <1>3, <2>1, <2>3 DEF Distinct, Core
  <2>. QED  BY <2>2, <2>3
<1>8. NobodyForgotten'
  <2>. SUFFICES ASSUME NEW q \in Tasks, Unresolved(q)'
                PROVE  \E e \in ToSet(pending') : e.task = q /\ e.seq = task'[q].seq
    BY DEF NobodyForgotten
  <2>1. q # r /\ Unresolved(q) /\ task'[q] = task[q]
    BY <1>3, <1>4 DEF Unresolved, Waits
  <2>2. PICK e \in ToSet(pending) : e.task = q /\ e.seq = task[q].seq
    BY <2>1 DEF Core, NobodyForgotten
  <2>3. task[q].seq # task[r].seq
    BY <2>1 DEF Core, Distinct, Unresolved
  <2>. QED  BY <1>1, <2>1, <2>2, <2>3
<1>9. EntryKnown'
  <2>. SUFFICES ASSUME NEW e \in ToSet(pending'), e.seq = task'[e.task].seq
                PROVE  e.cmd = task'[e.task].op
    BY DEF EntryKnown
  <2>1. e \in ToSet(pending) /\ e.task \in Tasks /\ e.task # r
    BY <1>1, <1>3, <1>6
  <2>. QED  BY <1>3, <2>1 DEF Core, EntryKnown
<1>10. MessageKnown'
  <2>. SUFFICES ASSUME NEW m \in ToSet(toDev), NEW q \in Tasks, m.seq = task'[q].seq
                PROVE  m.cmd = task'[q].op /\ m.dps = task'[q].dps
    BY <1>1 DEF MessageKnown
  <2>1. q # r
    BY <1>3, <1>6
  <2>. QED  BY <1>3, <2>1 DEF Core, MessageKnown
<1>11. OwnAnswer'
  <2>. SUFFICES ASSUME version = "3.3", NEW q \in Tasks, fut'[q].cmd \in Cmds
                PROVE  fut'[q].seq = task'[q].seq
    BY DEF OwnAnswer, Cmds
  <2>1. q # r
    BY <1>2, <1>4
  <2>. QED  BY <1>3, <1>4, <2>1 DEF Core, OwnAnswer
<1>. QED  BY <1>5, <1>7, <1>8, <1>9, <1>10, <1>11 DEF Core

(* A step of the device, or a push nobody waits for.                       *)
LEMMA CoreStays ==
  ASSUME TasksTyped, Core, UNCHANGED <<version, task, pending, fut, ready>>,
         ToSet(toDev') \subseteq ToSet(toDev)
  PROVE  TasksTyped' /\ Core'
<1>1. TasksTyped'
  BY DEF TasksTyped
<1>2. Distinct' /\ EntryKnown' /\ OwnAnswer'
  BY DEF Core, Distinct, EntryKnown, OwnAnswer, Waits, Cmds
<1>3. NobodyForgotten'
  BY DEF Core, NobodyForgotten, Unresolved, Waits
<1>4. MessageKnown'
  BY DEF Core, MessageKnown
<1>. QED  BY <1>1, <1>2, <1>3, <1>4 DEF Core

(* A call that has timed out or was cancelled.                             *)
LEMMA CoreEnds ==
  ASSUME TasksTyped, Core, NEW r \in Tasks, NEW how \in {"expired", "cancelled"},
         EndWait(r, how)
  PROVE  TasksTyped' /\ Core'
<1>1. /\ fut' = [fut EXCEPT ![r] = Ended(how)] /\ Waits(r)
      /\ ready' = IF fut[r] = NotDone THEN Append(ready, r) ELSE ready
      /\ UNCHANGED <<version, task, pending, toDev>>
  BY DEF EndWait
<1>2. Ended(how) \in Futures /\ Ended(how).cmd \notin Cmds /\ Ended(how) # NotDone
  BY EndedIsNoAnswer
<1>3. /\ fut' \in [Tasks -> Futures] /\ fut'[r] = Ended(how)
      /\ \A q \in Tasks \ {r} : fut'[q] = fut[q]
  BY <1>1, <1>2 DEF TasksTyped
<1>4. ready' \in Seq(Tasks)
  BY <1>1, SetOfAppend DEF TasksTyped
<1>5. TasksTyped'
  BY <1>1, <1>3, <1>4 DEF TasksTyped
<1>6. Distinct' /\ EntryKnown' /\ MessageKnown'
  BY <1>1 DEF Core, Distinct, EntryKnown, MessageKnown, Waits
<1>7. NobodyForgotten'
  <2>. SUFFICES ASSUME NEW q \in Tasks, Unresolved(q)'
                PROVE  \E e \in ToSet(pending) : e.task = q /\ e.seq = task[q].seq
    BY <1>1 DEF NobodyForgotten
  <2>1. Unresolved(q)
    BY <1>1, <1>2, <1>3 DEF Unresolved, Waits
  <2>. QED  BY <2>1 DEF Core, NobodyForgotten
<1>8. OwnAnswer'
  BY <1>1, <1>2, <1>3 DEF Core, OwnAnswer, Cmds
<1>. QED  BY <1>5, <1>6, <1>7, <1>8 DEF Core

(* A session that has ended leaves nobody waiting.                         *)
LEMMA CoreLost ==
  ASSUME TasksTyped, Core, SessionLost
  PROVE  TasksTyped' /\ Core' /\ WireTyped'
<1>. DEFINE failed == {i \in DOMAIN pending : Live(pending[i])}
<1>1. /\ fut' = [r \in Tasks |-> IF \E i \in failed : pending[i].task = r
                                 THEN Ended("lost") ELSE fut[r]]
      /\ \E order \in [1 .. Cardinality(failed) -> failed] :
           ready' = ready \o [i \in DOMAIN order |-> pending[order[i]].task]
      /\ pending' = <<>> /\ toDev' = <<>> /\ toCli' = <<>>
      /\ UNCHANGED <<version, task>>
  BY DEF SessionLost
<1>2. /\ Ended("lost") \in Futures /\ Ended("lost").cmd \notin Cmds
      /\ Ended("lost") # NotDone
  BY EndedIsNoAnswer
<1>3. /\ DOMAIN pending = 1 .. Len(pending) /\ Len(pending) \in Nat
      /\ \A i \in failed : pending[i].task \in Tasks
  <2>1. \A i \in 1 .. Len(pending) : pending[i] \in Entries
    BY LenProperties DEF TasksTyped
  <2>2. DOMAIN pending = 1 .. Len(pending) /\ Len(pending) \in Nat
    BY LenProperties DEF TasksTyped
  <2>. QED  BY <2>1, <2>2 DEF Entries
<1>4. Cardinality(failed) \in Nat
  <2>1. IsFiniteSet(1 .. Len(pending))
    BY <1>3, FS_Interval
  <2>2. IsFiniteSet(failed)
    BY <1>3, <2>1, FS_Subset
  <2>. QED  BY <2>2, FS_CardinalityType
<1>. HIDE DEF failed
<1>5. ready' \in Seq(Tasks)
  <2>1. PICK order \in [1 .. Cardinality(failed) -> failed] :
               ready' = ready \o [i \in DOMAIN order |-> pending[order[i]].task]
    BY <1>1
  <2>. DEFINE more == [i \in DOMAIN order |-> pending[order[i]].task]
  <2>2. more \in [1 .. Cardinality(failed) -> Tasks]
    BY <1>3
  <2>3. more \in Seq(Tasks)
    BY <1>4, <2>2, SeqDef
  <2>. HIDE DEF more
  <2>4. ready' = ready \o more
    BY <2>1 DEF more
  <2>. QED  BY <2>3, <2>4, SetOfConcat DEF TasksTyped
<1>6. fut' \in [Tasks -> Futures]
  BY <1>1, <1>2 DEF TasksTyped
<1>7. \A S : <<>> \in Seq(S) /\ ToSet(<<>>) = {}
  BY EmptySeq DEF ToSet
<1>8. TasksTyped' /\ WireTyped'
  BY <1>1, <1>5, <1>6, <1>7 DEF TasksTyped, WireTyped
<1>9. Distinct' /\ EntryKnown' /\ MessageKnown'
  BY <1>1, <1>7 DEF Core, Distinct, EntryKnown, MessageKnown, Waits
<1>10. NobodyForgotten'
  <2>. SUFFICES ASSUME NEW q \in Tasks, Unresolved(q)' PROVE FALSE
    BY DEF NobodyForgotten
  <2>1. Unresolved(q) /\ ~ \E i \in failed : pending[i].task = q
    BY <1>1, <1>2 DEF Unresolved, Waits
  <2>2. PICK e \in ToSet(pending) : e.task = q /\ e.seq = task[q].seq
    BY <2>1 DEF Core, NobodyForgotten
  <2>3. PICK i \in DOMAIN pending : e = pending[i]
    BY DEF ToSet
  <2>4. i \in failed
    BY <2>1, <2>2, <2>3 DEF failed, Live
  <2>. QED  BY <2>1, <2>2, <2>3, <2>4
<1>11. OwnAnswer'
  BY <1>1, <1>2 DEF Core, OwnAnswer, Cmds
<1>. QED  BY <1>8, <1>9, <1>10, <1>11 DEF Core

-----------------------------------------------------------------------------
(* Where the values come from that the client shows.                       *)

(* Every value of dps is one its data point has had, when h is had.        *)
InHad(dps, h) == \A d \in DOMAIN dps : dps[d] \in h[d]

DevHad == \A d \in DPs : dev[d] \in had[d]

FramesHad == \A f \in ToSet(toCli) : InHad(f.dps, had)

FutHad == \A r \in Tasks : InHad(fut[r].dps, had)

(* On v3.3 an ack under way that a write still waits for means that the    *)
(* device has had what was written.                                        *)
AckWire ==
  version = "3.3" => \A f \in ToSet(toCli), r \in Tasks :
    f.cmd = "control" /\ f.ok /\ task[r].op = "control" /\ f.seq = task[r].seq
      => InHad(task[r].dps, had)

(* And so does one that has arrived.                                       *)
AckFut ==
  version = "3.3" => \A r \in Tasks :
    task[r].op = "control" /\ fut[r].ok => InHad(task[r].dps, had)

Origins == DevHad /\ FramesHad /\ FutHad /\ AckWire /\ AckFut

Grows(h, k) == \A d \in DPs : h[d] \subseteq k[d]

LEMMA InHadGrows ==
  ASSUME NEW h, NEW k, Grows(h, k), NEW dps \in PDps, InHad(dps, h)
  PROVE  InHad(dps, k)
BY PDpsIs DEF InHad, Grows

LEMMA NothingInHad == \A h : InHad(<<>>, h)
BY DEF InHad

LEMMA FramesAre ==
  ASSUME Typed
  PROVE  /\ \A f \in ToSet(toCli) : f \in Replies /\ f.dps \in PDps
         /\ \A m \in ToSet(toDev) : m \in Messages
         /\ \A r \in Tasks : fut[r] \in Futures /\ fut[r].dps \in PDps
<1>1. \A f \in ToSet(toCli) : f \in Replies
  BY LenProperties DEF ToSet, Typed, WireTyped
<1>2. \A m \in ToSet(toDev) : m \in Messages
  BY LenProperties DEF ToSet, Typed, WireTyped
<1>3. ASSUME NEW r \in Tasks PROVE fut[r] \in Futures /\ fut[r].dps \in PDps
  <2>1. fut[r] \in Futures
    BY DEF Typed, TasksTyped
  <2>2. CASE fut[r] \in Answers
    BY <2>1, <2>2 DEF Answers
  <2>3. CASE \E how \in {"none", "expired", "cancelled", "lost"} : fut[r] = Ended(how)
    BY <2>1, <2>3, EndedIsNoAnswer, NoDps
  <2>. QED  BY <2>1, <2>2, <2>3 DEF Futures
<1>. QED  BY <1>1, <1>2, <1>3 DEF Replies

(* Calls that begin, end or fail.                                          *)
LEMMA OriginsCalls ==
  ASSUME Origins, UNCHANGED <<version, dev, had>>, ToSet(toCli') \subseteq ToSet(toCli),
         \A q \in Tasks : \/ fut'[q] = fut[q] /\ task'[q] = task[q]
                          \/ fut'[q].ok = FALSE /\ fut'[q].dps = <<>>,
         \A q \in Tasks : \/ task'[q] = task[q]
                          \/ task'[q].op # "control"
                          \/ \A f \in ToSet(toCli) : f.seq # task'[q].seq
  PROVE  Origins'
<1>1. DevHad' /\ FramesHad'
  BY DEF Origins, DevHad, FramesHad, InHad
<1>2. FutHad'
  <2>. SUFFICES ASSUME NEW r \in Tasks PROVE InHad(fut'[r].dps, had)
    BY DEF FutHad
  <2>1. CASE fut'[r] = fut[r]
    BY <2>1 DEF Origins, FutHad
  <2>2. CASE fut'[r].dps = <<>>
    BY <2>2, NothingInHad
  <2>. QED  BY <2>1, <2>2
<1>3. AckWire'
  <2>. SUFFICES ASSUME version = "3.3", NEW f \in ToSet(toCli), NEW r \in Tasks,
                       f.cmd = "control", f.ok, task'[r].op = "control",
                       f.seq = task'[r].seq
                PROVE  InHad(task'[r].dps, had)
    BY DEF AckWire
  <2>1. task'[r] = task[r]
    OBVIOUS
  <2>. QED  BY <2>1 DEF Origins, AckWire
<1>4. AckFut'
  <2>. SUFFICES ASSUME version = "3.3", NEW r \in Tasks, task'[r].op = "control", fut'[r].ok
                PROVE  InHad(task'[r].dps, had)
    BY DEF AckFut
  <2>1. fut'[r] = fut[r] /\ task'[r] = task[r]
    OBVIOUS
  <2>. QED  BY <2>1 DEF Origins, AckFut
<1>. QED  BY <1>1, <1>2, <1>3, <1>4 DEF Origins

(* The device sends frames and may take new values.                        *)
LEMMA OriginsDevice ==
  ASSUME Typed, Origins, UNCHANGED <<version, task, fut>>, Grows(had, had'), DevHad',
         \A f \in ToSet(toCli') : f \in ToSet(toCli) \/
           /\ InHad(f.dps, had')
           /\ version = "3.3" /\ f.cmd = "control" /\ f.ok =>
                \A r \in Tasks : task[r].seq = f.seq => InHad(task[r].dps, had')
  PROVE  Origins'
<1>1. /\ \A f \in ToSet(toCli) : f.dps \in PDps
      /\ \A r \in Tasks : fut[r].dps \in PDps /\ task[r].dps \in PDps
  BY FramesAre, CallIs DEF Typed
<1>2. FramesHad'
  BY <1>1, InHadGrows DEF Origins, FramesHad
<1>3. FutHad'
  BY <1>1, InHadGrows DEF Origins, FutHad
<1>4. AckWire'
  <2>. SUFFICES ASSUME version = "3.3", NEW f \in ToSet(toCli'), NEW r \in Tasks,
                       f.cmd = "control", f.ok, task[r].op = "control", f.seq = task[r].seq
                PROVE  InHad(task[r].dps, had')
    BY DEF AckWire
  <2>1. CASE f \in ToSet(toCli)
    BY <1>1, <2>1, InHadGrows DEF Origins, AckWire
  <2>. QED  BY <2>1
<1>5. AckFut'
  BY <1>1, InHadGrows DEF Origins, AckFut
<1>. QED  BY <1>2, <1>3, <1>4, <1>5 DEF Origins

(* The client's copy takes values the device has had.                      *)
LEMMA MergesHad ==
  ASSUME Typed, NoPhantom, NEW dps \in PDps, state' = Merged(dps, state),
         UNCHANGED <<version, had>>, version = "3.3" => InHad(dps, had)
  PROVE  state' \in [DPs -> Values \cup {Unknown}] /\ NoPhantom'
<1>1. /\ state' \in [DPs -> Values \cup {Unknown}]
      /\ \A d \in DPs : state'[d] = IF d \in DOMAIN dps THEN dps[d] ELSE state[d]
  <2>. DEFINE X == Values \cup {Unknown}
  <2>1. state \in [DPs -> X] /\ Values \subseteq X
    BY DEF Typed, DataTyped
  <2>. HIDE DEF X
  <2>2. /\ Merged(dps, state) \in [DPs -> X]
        /\ \A d \in DPs : Merged(dps, state)[d] = IF d \in DOMAIN dps THEN dps[d] ELSE state[d]
    BY <2>1, MergedIs
  <2>. QED  BY <2>2 DEF X
<1>. QED  BY <1>1 DEF NoPhantom, InHad

-----------------------------------------------------------------------------
(* The invariant, and every action.                                        *)

Inv == Typed /\ Core /\ Origins /\ NoPhantom

LEMMA InvInit == Init => Inv
<1>. SUFFICES ASSUME Init PROVE Inv
  OBVIOUS
<1>. USE DEF Init
<1>1. \A S : <<>> \in Seq(S) /\ ToSet(<<>>) = {}
  BY EmptySeq DEF ToSet
<1>2. dev \in [DPs -> Values] /\ had \in [DPs -> SUBSET Values]
  <2>1. (CHOOSE v \in Values : TRUE) \in Values
    BY DispatchAssumption
  <2>. QED  BY <2>1
<1>3. state \in [DPs -> Values \cup {Unknown}] /\ \A d \in DPs : state[d] = Unknown
  OBVIOUS
<1>4. served \subseteq Queries /\ queryCmd = Unknown /\ events \in 0 .. MaxEvents
  BY DispatchAssumption DEF Queries
<1>5. DataTyped
  BY <1>2, <1>3, <1>4 DEF DataTyped
<1>6. /\ NotDone \in Futures /\ NotDone.cmd \notin Cmds
      /\ NotDone.ok = FALSE /\ NotDone.dps = <<>>
  BY EndedIsNoAnswer DEF NotDone
<1>7. WireTyped /\ TasksTyped
  BY <1>1, <1>6 DEF WireTyped, TasksTyped, Calls
<1>8. \A r \in Tasks : ~ Waits(r) /\ fut[r] = NotDone /\ task[r].op = "none"
  BY DEF Waits, Idle
<1>9. Core
  BY <1>1, <1>6, <1>8 DEF Core, Distinct, NobodyForgotten, EntryKnown, MessageKnown,
                           OwnAnswer, Unresolved, Cmds
<1>10. Origins
  BY <1>1, <1>2, <1>6, <1>8, NothingInHad DEF Origins, DevHad, FramesHad, FutHad, AckWire, AckFut
<1>11. NoPhantom
  BY <1>3 DEF NoPhantom
<1>. QED  BY <1>5, <1>7, <1>9, <1>10, <1>11 DEF Inv, Typed

(* What a request leaves of the invariant, whoever makes it.               *)
LEMMA InvRequest ==
  ASSUME Inv, NEW r \in Tasks, NEW op \in Cmds, NEW dps \in PDps, NEW fallback \in BOOLEAN,
         NEW left \in Seq(Entries), ToSet(left) \subseteq ToSet(pending),
         \A e \in ToSet(pending) : e.seq # task[r].seq => e \in ToSet(left),
         Request(r, op, dps, fallback, left), ready' \in Seq(Tasks),
         UNCHANGED <<version, dev, had, state, toCli>>
  PROVE  TasksTyped' /\ Core' /\ WireTyped' /\ Origins' /\ NoPhantom'
<1>1. PICK seq \in 1 .. MaxSeq : Registers(r, seq, op, dps, fallback, left)
  BY RequestRegisters DEF Inv, Typed
<1>2. TasksTyped' /\ Core'
  BY <1>1, CoreRegisters DEF Inv, Typed
<1>3. WireTyped'
  BY <1>1 DEF Registers, WireTyped, Inv, Typed
<1>4. /\ \A q \in Tasks : \/ fut'[q] = fut[q] /\ task'[q] = task[q]
                          \/ fut'[q].ok = FALSE /\ fut'[q].dps = <<>>
      /\ \A q \in Tasks : \/ task'[q] = task[q]
                          \/ \A f \in ToSet(toCli) : f.seq # task'[q].seq
  <2>1. NotDone.ok = FALSE /\ NotDone.dps = <<>>
    BY EndedIsNoAnswer DEF NotDone
  <2>2. /\ task'[r].seq = seq /\ fut'[r] = NotDone
        /\ \A q \in Tasks \ {r} : task'[q] = task[q] /\ fut'[q] = fut[q]
    BY <1>1 DEF Registers, Inv, Typed, TasksTyped
  <2>3. \A f \in ToSet(toCli) : f.seq # seq
    BY <1>1 DEF Registers, Unused
  <2>. QED  BY <2>1, <2>2, <2>3
<1>5. Origins'
  BY <1>4, OriginsCalls DEF Inv
<1>6. NoPhantom'
  BY DEF Inv, NoPhantom
<1>. QED  BY <1>2, <1>3, <1>5, <1>6

LEMMA InvGetStatus ==
  ASSUME Inv, NEW r \in Tasks, GetStatus(r)
  PROVE  Inv'
<1>1. Primary \in Cmds
  BY DEF Primary, Cmds, Queries, Inv, Typed, DataTyped
<1>2. /\ Request(r, Primary, <<>>, FALSE, pending)
      /\ UNCHANGED <<version, served, dev, had, state, toCli, ready, queryCmd, events>>
  BY DEF GetStatus
<1>3. pending \in Seq(Entries) /\ ready' \in Seq(Tasks)
  BY <1>2 DEF Inv, Typed, TasksTyped
<1>4. TasksTyped' /\ Core' /\ WireTyped' /\ Origins' /\ NoPhantom'
  BY <1>1, <1>2, <1>3, NoDps, InvRequest
<1>5. DataTyped'
  BY <1>2 DEF Inv, Typed, DataTyped
<1>. QED  BY <1>4, <1>5 DEF Inv, Typed

LEMMA EventCounts ==
  ASSUME Event, events \in 0 .. MaxEvents
  PROVE  events' \in 0 .. MaxEvents
BY DispatchAssumption DEF Event

LEMMA InvSetMultiple ==
  ASSUME Inv, NEW r \in Tasks, NEW d \in DPs, NEW v \in Values, SetMultiple(r, d, v)
  PROVE  Inv'
<1>1. "control" \in Cmds /\ Dp(d, v) \in PDps
  BY OneDp DEF Cmds
<1>2. /\ Request(r, "control", Dp(d, v), FALSE, pending) /\ Event
      /\ UNCHANGED <<version, served, dev, had, state, toCli, ready, queryCmd>>
  BY DEF SetMultiple
<1>3. pending \in Seq(Entries) /\ ready' \in Seq(Tasks)
  BY <1>2 DEF Inv, Typed, TasksTyped
<1>4. TasksTyped' /\ Core' /\ WireTyped' /\ Origins' /\ NoPhantom'
  BY <1>1, <1>2, <1>3, InvRequest
<1>5. DataTyped'
  BY <1>2, EventCounts DEF Inv, Typed, DataTyped
<1>. QED  BY <1>4, <1>5 DEF Inv, Typed

LEMMA InvEndWait ==
  ASSUME Inv, NEW r \in Tasks, NEW how \in {"expired", "cancelled"}, EndWait(r, how),
         events' \in 0 .. MaxEvents
  PROVE  Inv'
<1>1. TasksTyped' /\ Core'
  BY CoreEnds DEF Inv, Typed
<1>2. /\ fut' = [fut EXCEPT ![r] = Ended(how)]
      /\ UNCHANGED <<version, served, dev, had, state, toDev, toCli, task, queryCmd>>
  BY DEF EndWait
<1>3. DataTyped' /\ WireTyped'
  BY <1>2 DEF Inv, Typed, DataTyped, WireTyped
<1>4. Origins'
  <2>1. Ended(how).ok = FALSE /\ Ended(how).dps = <<>>
    BY EndedIsNoAnswer
  <2>2. \A q \in Tasks : fut'[q] = fut[q] \/ fut'[q] = Ended(how)
    BY <1>2 DEF Inv, Typed, TasksTyped
  <2>. QED  BY <1>2, <2>1, <2>2, OriginsCalls DEF Inv
<1>5. NoPhantom'
  BY <1>2 DEF Inv, NoPhantom
<1>. QED  BY <1>1, <1>3, <1>4, <1>5 DEF Inv, Typed

LEMMA InvSessionLost ==
  ASSUME Inv, SessionLost
  PROVE  Inv'
<1>1. TasksTyped' /\ Core' /\ WireTyped'
  BY CoreLost DEF Inv, Typed
<1>2. /\ Event /\ toCli' = <<>>
      /\ UNCHANGED <<version, served, dev, had, state, task, queryCmd>>
      /\ \E S : fut' = [r \in Tasks |-> IF \E i \in S : pending[i].task = r
                                        THEN Ended("lost") ELSE fut[r]]
  <2>1. fut' = [r \in Tasks |-> IF \E i \in {i \in DOMAIN pending : Live(pending[i])} : pending[i].task = r
                                        THEN Ended("lost") ELSE fut[r]]
    BY DEF SessionLost
  <2>2. \E S : fut' = [r \in Tasks |-> IF \E i \in S : pending[i].task = r
                                        THEN Ended("lost") ELSE fut[r]]
    BY ONLY <2>1
  <2>. QED  BY <2>2 DEF SessionLost
<1>3. DataTyped'
  BY <1>2, EventCounts DEF Inv, Typed, DataTyped
<1>4. Origins'
  <2>1. Ended("lost").ok = FALSE /\ Ended("lost").dps = <<>>
    BY EndedIsNoAnswer
  <2>2. \A q \in Tasks : fut'[q] = fut[q] \/ fut'[q] = Ended("lost")
    BY <1>2
  <2>3. ToSet(toCli') = {}
    BY <1>2 DEF ToSet
  <2>. QED  BY <1>2, <2>1, <2>2, <2>3, OriginsCalls DEF Inv
<1>5. NoPhantom'
  BY <1>2 DEF Inv, NoPhantom
<1>. QED  BY <1>1, <1>3, <1>4, <1>5 DEF Inv, Typed

LEMMA SetOfTwo ==
  ASSUME NEW S, NEW s \in Seq(S), NEW x \in S, NEW y \in S
  PROVE  s \o <<x, y>> \in Seq(S) /\ ToSet(s \o <<x, y>>) = ToSet(s) \cup {x, y}
<1>. DEFINE t == <<x, y>>
<1>1. t \in Seq(S)
  OBVIOUS
<1>2. ToSet(t) = {x, y}
  BY DEF ToSet
<1>. HIDE DEF t
<1>3. s \o t \in Seq(S) /\ ToSet(s \o t) = ToSet(s) \cup ToSet(t)
  BY <1>1, SetOfConcat
<1>. QED  BY <1>2, <1>3 DEF t

(* What the device takes off the wire is a message; what it may number its *)
(* answer with is a number.                                                *)
LEMMA DeviceTakes ==
  ASSUME Inv, toDev # <<>>, toDev' = Tail(toDev)
  PROVE  LET m == Head(toDev)
         IN /\ m \in Messages /\ m \in ToSet(toDev)
            /\ toDev' \in Seq(Messages) /\ ToSet(toDev') \subseteq ToSet(toDev)
            /\ AnswerSeqs(m) \subseteq 0 .. MaxSeq
            /\ version = "3.3" => AnswerSeqs(m) = {m.seq}
<1>1. /\ Head(toDev) \in Messages /\ Head(toDev) \in ToSet(toDev)
      /\ toDev' \in Seq(Messages) /\ ToSet(toDev') \subseteq ToSet(toDev)
  BY SetOfTail DEF Inv, Typed, WireTyped
<1>2. \A e \in ToSet(pending) : e.seq \in 0 .. MaxSeq
  <2>1. \A e \in ToSet(pending) : e \in Entries
    BY LenProperties DEF ToSet, Inv, Typed, TasksTyped
  <2>. QED  BY <2>1 DEF Entries
<1>3. Head(toDev).seq \in 0 .. MaxSeq
  BY <1>1 DEF Messages
<1>4. 0 \in 0 .. MaxSeq
  BY DispatchAssumption
<1>. QED  BY <1>1, <1>2, <1>3, <1>4 DEF AnswerSeqs

LEMMA InvDeviceQuery ==
  ASSUME Inv, DeviceQuery
  PROVE  Inv'
<1>. DEFINE m == Head(toDev)
<1>1. PICK seq \in AnswerSeqs(m) :
        \/ m.cmd \in served /\ toCli' = Append(toCli, Frame(m.cmd, seq, TRUE, dev))
        \/ m.cmd \notin served
           /\ toCli' \in {toCli, Append(toCli, Frame(m.cmd, seq, FALSE, <<>>))}
  BY DEF DeviceQuery
<1>2. /\ m.cmd \in Queries /\ toDev # <<>> /\ toDev' = Tail(toDev)
      /\ UNCHANGED <<version, served, dev, had, state, pending, task, fut, ready, queryCmd, events>>
  BY DEF DeviceQuery
<1>3. /\ toDev' \in Seq(Messages) /\ ToSet(toDev') \subseteq ToSet(toDev)
      /\ seq \in 0 .. MaxSeq
  BY <1>2, DeviceTakes
<1>. HIDE DEF m
<1>4. dev \in PDps /\ <<>> \in PDps /\ InHad(dev, had) /\ InHad(<<>>, had)
  BY AllDps, NoDps, NothingInHad DEF Inv, Typed, DataTyped, Origins, DevHad, InHad
<1>. DEFINE yes == Frame(m.cmd, seq, TRUE, dev)
            no == Frame(m.cmd, seq, FALSE, <<>>)
<1>5. /\ yes \in Replies /\ no \in Replies /\ yes.cmd # "control" /\ no.cmd # "control"
      /\ yes.dps = dev /\ no.dps = <<>>
  BY <1>2, <1>3, <1>4 DEF Frame, Replies, Cmds, Queries
<1>. HIDE DEF yes, no
<1>6. toCli' = toCli \/ toCli' = Append(toCli, yes) \/ toCli' = Append(toCli, no)
  BY <1>1 DEF yes, no
<1>7. toCli' \in Seq(Replies) /\ ToSet(toCli') \subseteq ToSet(toCli) \cup {yes, no}
  <2>1. toCli \in Seq(Replies)
    BY DEF Inv, Typed, WireTyped
  <2>2. ASSUME NEW f \in {yes, no}
        PROVE  /\ Append(toCli, f) \in Seq(Replies)
               /\ ToSet(Append(toCli, f)) = ToSet(toCli) \cup {f}
    <3>1. f \in Replies
      BY <1>5
    <3>. QED  BY ONLY <2>1, <3>1, SetOfAppend
  <2>3. CASE toCli' = toCli
    BY <2>1, <2>3
  <2>4. CASE toCli' = Append(toCli, yes)
    BY <2>2, <2>4
  <2>5. CASE toCli' = Append(toCli, no)
    BY <2>2, <2>5
  <2>. QED  BY <1>6, <2>3, <2>4, <2>5
<1>8. TasksTyped' /\ Core'
  BY <1>2, <1>3, CoreStays DEF Inv, Typed
<1>9. WireTyped' /\ DataTyped'
  BY <1>2, <1>3, <1>7 DEF WireTyped, Inv, Typed, DataTyped
<1>10. Origins'
  <2>1. Grows(had, had') /\ DevHad'
    BY <1>2 DEF Grows, Inv, Origins, DevHad
  <2>2. \A f \in ToSet(toCli') :
          f \in ToSet(toCli) \/ (InHad(f.dps, had') /\ f.cmd # "control")
    BY <1>2, <1>4, <1>5, <1>7
  <2>. QED  BY <1>2, <2>1, <2>2, OriginsDevice DEF Inv
<1>11. NoPhantom'
  BY <1>2 DEF Inv, NoPhantom
<1>. QED  BY <1>8, <1>9, <1>10, <1>11 DEF Inv, Typed

LEMMA InvDeviceControl ==
  ASSUME Inv, DeviceControl
  PROVE  Inv'
<1>. DEFINE m == Head(toDev)
            ack(seq, ok) == Frame("control", seq, ok, <<>>)
<1>1. PICK seq \in AnswerSeqs(m) :
        \/ toCli' = Append(toCli, ack(seq, FALSE)) /\ UNCHANGED <<dev, had>>
        \/ /\ dev' = Merged(m.dps, dev)
           /\ had' = [d \in DPs |-> had[d] \cup {dev'[d]}]
           /\ \E p \in {Push(d) : d \in DOMAIN m.dps} :
                \/ toCli' = toCli \o <<ack(seq, TRUE), p>>
                \/ toCli' = toCli \o <<p, ack(seq, TRUE)>>
                \/ toCli' = Append(toCli, p)
  BY DEF DeviceControl
<1>2. /\ m.cmd = "control" /\ toDev # <<>> /\ toDev' = Tail(toDev)
      /\ UNCHANGED <<version, served, state, pending, task, fut, ready, queryCmd, events>>
  BY DEF DeviceControl
<1>3. /\ m \in Messages /\ m \in ToSet(toDev)
      /\ toDev' \in Seq(Messages) /\ ToSet(toDev') \subseteq ToSet(toDev)
      /\ seq \in 0 .. MaxSeq /\ (version = "3.3" => seq = m.seq)
  BY <1>2, DeviceTakes
<1>. HIDE DEF m
<1>4. m.dps \in PDps
  BY <1>3 DEF Messages
<1>5. ASSUME NEW ok \in BOOLEAN
      PROVE  /\ ack(seq, ok) \in Replies /\ ack(seq, ok).dps = <<>>
             /\ ack(seq, ok).ok = ok /\ ack(seq, ok).seq = seq
  BY <1>3, NoDps DEF Frame, Replies, Cmds
<1>. HIDE DEF ack
<1>6. TasksTyped' /\ Core'
  BY <1>2, <1>3, CoreStays DEF Inv, Typed
<1>7. CASE toCli' = Append(toCli, ack(seq, FALSE)) /\ UNCHANGED <<dev, had>>
  <2>1. toCli' \in Seq(Replies) /\ ToSet(toCli') = ToSet(toCli) \cup {ack(seq, FALSE)}
    <3>1. toCli \in Seq(Replies) /\ ack(seq, FALSE) \in Replies
      BY <1>5 DEF Inv, Typed, WireTyped
    <3>. QED  BY <1>7, <3>1, SetOfAppend
  <2>2. WireTyped' /\ DataTyped'
    BY <1>2, <1>3, <1>7, <2>1 DEF WireTyped, Inv, Typed, DataTyped
  <2>3. Grows(had, had') /\ DevHad'
    BY <1>7 DEF Grows, Inv, Origins, DevHad
  <2>4. ack(seq, FALSE).ok = FALSE /\ InHad(ack(seq, FALSE).dps, had')
    BY <1>5, NothingInHad
  <2>5. \A f \in ToSet(toCli') :
          f \in ToSet(toCli) \/ (InHad(f.dps, had') /\ f.ok = FALSE)
    BY <2>1, <2>4
  <2>6. Origins'
    BY <1>2, <2>3, <2>5, OriginsDevice DEF Inv
  <2>7. NoPhantom'
    BY <1>2, <1>7 DEF Inv, NoPhantom
  <2>. QED  BY <1>6, <2>2, <2>6, <2>7 DEF Inv, Typed
<1>8. CASE /\ dev' = Merged(m.dps, dev)
           /\ had' = [d \in DPs |-> had[d] \cup {dev'[d]}]
           /\ \E p \in {Push(d) : d \in DOMAIN m.dps} :
                \/ toCli' = toCli \o <<ack(seq, TRUE), p>>
                \/ toCli' = toCli \o <<p, ack(seq, TRUE)>>
                \/ toCli' = Append(toCli, p)
  <2>1. /\ dev' \in [DPs -> Values]
        /\ \A d \in DOMAIN m.dps : d \in DPs /\ dev'[d] = m.dps[d]
    BY <1>4, <1>8, PDpsIs, MergedIs DEF Inv, Typed, DataTyped
  <2>2. /\ had' \in [DPs -> SUBSET Values] /\ Grows(had, had') /\ DevHad'
        /\ \A d \in DPs : dev'[d] \in had'[d]
    BY <1>8, <2>1 DEF Inv, Typed, DataTyped, Grows, DevHad
  <2>3. InHad(m.dps, had')
    BY <2>1, <2>2 DEF InHad
  <2>4. PICK d \in DOMAIN m.dps :
                \/ toCli' = toCli \o <<ack(seq, TRUE), Push(d)>>
                \/ toCli' = toCli \o <<Push(d), ack(seq, TRUE)>>
                \/ toCli' = Append(toCli, Push(d))
    BY <1>8
  <2>. DEFINE p == Push(d)
              a == ack(seq, TRUE)
  <2>5. p \in Replies /\ p.cmd = "status" /\ InHad(p.dps, had')
    <3>1. Dp(d, dev'[d]) \in PDps /\ InHad(Dp(d, dev'[d]), had')
      BY <2>1, <2>2, OneDp DEF InHad, Dp
    <3>2. 0 \in 0 .. MaxSeq
      BY DispatchAssumption
    <3>. QED  BY <3>1, <3>2 DEF Push, Frame, Replies
  <2>6. a \in Replies /\ InHad(a.dps, had') /\ a.seq = seq
    BY <1>5, NothingInHad
  <2>. HIDE DEF p, a
  <2>7. toCli' = toCli \o <<a, p>> \/ toCli' = toCli \o <<p, a>> \/ toCli' = Append(toCli, p)
    BY <2>4 DEF p, a
  <2>8. toCli' \in Seq(Replies) /\ ToSet(toCli') \subseteq ToSet(toCli) \cup {a, p}
    <3>1. toCli \in Seq(Replies) /\ a \in Replies /\ p \in Replies
      BY <2>5, <2>6 DEF Inv, Typed, WireTyped
    <3>2. CASE toCli' = toCli \o <<a, p>>
      BY ONLY <3>1, <3>2, SetOfTwo
    <3>3. CASE toCli' = toCli \o <<p, a>>
      <4>1. ToSet(toCli \o <<p, a>>) = ToSet(toCli) \cup {p, a} /\ toCli \o <<p, a>> \in Seq(Replies)
        BY ONLY <3>1, SetOfTwo
      <4>. QED  BY <3>3, <4>1
    <3>4. CASE toCli' = Append(toCli, p)
      <4>1. ToSet(Append(toCli, p)) = ToSet(toCli) \cup {p} /\ Append(toCli, p) \in Seq(Replies)
        BY ONLY <3>1, SetOfAppend
      <4>. QED  BY <3>4, <4>1
    <3>. QED  BY <2>7, <3>2, <3>3, <3>4
  <2>9. WireTyped' /\ DataTyped'
    BY <1>2, <1>3, <2>1, <2>2, <2>8 DEF WireTyped, Inv, Typed, DataTyped
  <2>10. version = "3.3" => \A r \in Tasks : task[r].seq = a.seq => InHad(task[r].dps, had')
    BY <1>3, <2>3, <2>6 DEF Inv, Core, MessageKnown
  <2>11. \A f \in ToSet(toCli') : f \in ToSet(toCli) \/
           /\ InHad(f.dps, had')
           /\ version = "3.3" /\ f.cmd = "control" =>
                \A r \in Tasks : task[r].seq = f.seq => InHad(task[r].dps, had')
    BY <2>5, <2>6, <2>8, <2>10
  <2>12. Origins'
    BY <1>2, <2>2, <2>11, OriginsDevice DEF Inv
  <2>13. NoPhantom'
    BY <1>2, <2>2 DEF Inv, NoPhantom, Grows
  <2>. QED  BY <1>6, <2>9, <2>12, <2>13 DEF Inv, Typed
<1>. QED  BY <1>1, <1>7, <1>8

LEMMA InvDevicePushes ==
  ASSUME Inv, NEW d \in DPs, NEW v \in Values, DevicePushes(d, v)
  PROVE  Inv'
<1>1. /\ Event /\ dev' = [dev EXCEPT ![d] = v] /\ had' = [had EXCEPT ![d] = @ \cup {v}]
      /\ toCli' = Append(toCli, Push(d))
      /\ UNCHANGED <<version, served, state, toDev, pending, task, fut, ready, queryCmd>>
  BY DEF DevicePushes
<1>2. /\ dev' \in [DPs -> Values] /\ had' \in [DPs -> SUBSET Values]
      /\ Grows(had, had') /\ DevHad'
  BY <1>1 DEF Inv, Typed, DataTyped, Origins, DevHad, Grows
<1>3. Push(d) \in Replies /\ Push(d).cmd = "status" /\ InHad(Push(d).dps, had')
  <2>1. Dp(d, dev'[d]) \in PDps /\ InHad(Dp(d, dev'[d]), had')
    BY <1>2, OneDp DEF InHad, Dp, DevHad
  <2>2. 0 \in 0 .. MaxSeq
    BY DispatchAssumption
  <2>. QED  BY <2>1, <2>2 DEF Push, Frame, Replies
<1>4. toCli' \in Seq(Replies) /\ ToSet(toCli') = ToSet(toCli) \cup {Push(d)}
  BY <1>1, <1>3, SetOfAppend DEF Inv, Typed, WireTyped
<1>5. TasksTyped' /\ Core'
  BY <1>1, CoreStays DEF Inv, Typed
<1>6. WireTyped' /\ DataTyped'
  BY <1>1, <1>2, <1>4, EventCounts DEF WireTyped, Inv, Typed, DataTyped
<1>7. Origins'
  <2>1. \A f \in ToSet(toCli') :
          f \in ToSet(toCli) \/ (InHad(f.dps, had') /\ f.cmd # "control")
    BY <1>3, <1>4
  <2>. QED  BY <1>1, <1>2, <2>1, OriginsDevice DEF Inv
<1>8. NoPhantom'
  BY <1>1, <1>2 DEF Inv, NoPhantom, Grows
<1>. QED  BY <1>5, <1>6, <1>7, <1>8 DEF Inv, Typed

(* Calls that are answered with g, or not.                                 *)
LEMMA OriginsAnswered ==
  ASSUME Origins, NEW g, InHad(g.dps, had), UNCHANGED <<version, dev, had, task>>,
         ToSet(toCli') \subseteq ToSet(toCli),
         \A r \in Tasks : fut'[r] = fut[r] \/
           /\ fut'[r] = g
           /\ version = "3.3" /\ task[r].op = "control" /\ g.ok => InHad(task[r].dps, had)
  PROVE  Origins'
<1>1. DevHad' /\ FramesHad'
  BY DEF Origins, DevHad, FramesHad, InHad
<1>2. FutHad'
  <2>. SUFFICES ASSUME NEW r \in Tasks PROVE InHad(fut'[r].dps, had)
    BY DEF FutHad
  <2>1. CASE fut'[r] = fut[r]
    BY <2>1 DEF Origins, FutHad
  <2>2. CASE fut'[r] = g
    BY <2>2
  <2>. QED  BY <2>1, <2>2
<1>3. AckWire'
  BY DEF Origins, AckWire, InHad
<1>4. AckFut'
  <2>. SUFFICES ASSUME version = "3.3", NEW r \in Tasks, task[r].op = "control", fut'[r].ok
                PROVE  InHad(task[r].dps, had)
    BY DEF AckFut
  <2>. QED  BY DEF Origins, AckFut
<1>. QED  BY <1>1, <1>2, <1>3, <1>4 DEF Origins

LEMMA InvReply ==
  ASSUME Inv, toCli # <<>>, DispatchReply(Head(toCli)), toCli' = Tail(toCli),
         UNCHANGED <<version, served, dev, had, toDev, task, queryCmd, events>>
  PROVE  Inv'
<1>1. PICK f : f = Head(toCli)
  OBVIOUS
<1>2. /\ f \in Replies /\ f \in ToSet(toCli)
      /\ toCli' \in Seq(Replies) /\ ToSet(toCli') \subseteq ToSet(toCli)
  BY <1>1, SetOfTail DEF Inv, Typed, WireTyped
<1>3. f.cmd # "status" /\ DispatchReply(f)
  BY <1>1 DEF DispatchReply
<1>4. f \in Answers /\ f.dps \in PDps /\ InHad(f.dps, had)
  BY <1>2, <1>3 DEF Replies, Answers, Inv, Origins, FramesHad
<1>5. WireTyped'
  BY <1>2 DEF WireTyped, Inv, Typed
<1>. DEFINE i == TakePending(f.cmd, f.seq)
<1>6. CASE i # 0 /\ Complete(i, f) /\ UNCHANGED state
  <2>1. pending \in Seq(Entries)
    BY DEF Inv, Typed, TasksTyped
  <2>2. /\ i \in 1 .. Len(pending) /\ CmdMatches(pending[i].cmd, f.cmd)
        /\ version = "3.3" => pending[i].seq = f.seq
    BY <1>6, <2>1, TakesMatch
  <2>. HIDE DEF i
  <2>3. pending[i] \in ToSet(pending)
    BY <2>1, <2>2, LenProperties DEF ToSet
  <2>4. /\ TasksTyped' /\ Core'
        /\ \A r \in Tasks :
             \/ fut'[r] = fut[r]
             \/ fut'[r] = f /\ pending[i].task = r /\ pending[i].seq = task[r].seq
    BY <1>4, <1>6, <2>2, CoreCompletes DEF Inv, Typed
  <2>5. ASSUME NEW r \in Tasks, fut'[r] # fut[r], version = "3.3",
               task[r].op = "control", f.ok
        PROVE  InHad(task[r].dps, had)
    <3>1. pending[i].task = r /\ pending[i].seq = task[r].seq /\ f.seq = task[r].seq
      BY <2>2, <2>4, <2>5
    <3>2. pending[i].cmd = "control"
      BY <2>3, <2>5, <3>1 DEF Inv, Core, EntryKnown
    <3>3. f.cmd = "control"
      BY <2>2, <3>2 DEF CmdMatches, Queries
    <3>. QED  BY <1>2, <2>5, <3>1, <3>3 DEF Inv, Origins, AckWire
  <2>6. Origins'
    BY <1>2, <1>4, <2>4, <2>5, OriginsAnswered DEF Inv
  <2>7. DataTyped' /\ NoPhantom'
    BY <1>6 DEF Inv, Typed, DataTyped, NoPhantom
  <2>. QED  BY <1>5, <2>4, <2>6, <2>7 DEF Inv, Typed
<1>7. CASE Unsolicited(f) /\ UNCHANGED <<pending, fut, ready>>
  <2>1. TasksTyped' /\ Core'
    BY <1>7, CoreStays DEF Inv, Typed
  <2>2. Origins'
    BY <1>2, <1>4, <1>7, OriginsAnswered DEF Inv
  <2>3. state' \in [DPs -> Values \cup {Unknown}] /\ NoPhantom'
    <3>1. CASE state' = Merged(f.dps, state)
      BY <1>4, <3>1, MergesHad DEF Inv
    <3>2. CASE state' = state
      BY <3>2 DEF Inv, Typed, DataTyped, NoPhantom
    <3>. QED  BY <1>7, <3>1, <3>2 DEF Unsolicited
  <2>4. DataTyped'
    BY <2>3 DEF Inv, Typed, DataTyped
  <2>. QED  BY <1>5, <2>1, <2>2, <2>3, <2>4 DEF Inv, Typed
<1>. QED  BY <1>3, <1>6, <1>7 DEF DispatchReply

LEMMA InvPush ==
  ASSUME Inv, toCli # <<>>, DispatchPush(Head(toCli)), toCli' = Tail(toCli),
         UNCHANGED <<version, served, dev, had, toDev, task, queryCmd, events>>
  PROVE  Inv'
<1>1. PICK f : f = Head(toCli)
  OBVIOUS
<1>2. /\ f \in Replies /\ f \in ToSet(toCli)
      /\ toCli' \in Seq(Replies) /\ ToSet(toCli') \subseteq ToSet(toCli)
  BY <1>1, SetOfTail DEF Inv, Typed, WireTyped
<1>3. f.dps \in PDps /\ InHad(f.dps, had)
  BY <1>2 DEF Replies, Inv, Origins, FramesHad
<1>4. WireTyped'
  BY <1>2 DEF WireTyped, Inv, Typed
<1>5. state' \in [DPs -> Values \cup {Unknown}] /\ NoPhantom'
  BY <1>1, <1>3, MergesHad DEF Inv, DispatchPush
<1>6. DataTyped'
  BY <1>5 DEF Inv, Typed, DataTyped
<1>. DEFINE g == SyntheticAck(f)
            i == TakePending("control", f.seq)
<1>7. g \in Answers /\ g.dps = f.dps
  BY <1>2 DEF SyntheticAck, Frame, Replies, Answers, Cmds
<1>8. \/ version # "3.3" /\ i # 0 /\ Complete(i, g)
      \/ UNCHANGED <<pending, fut, ready>>
  BY <1>1 DEF DispatchPush
<1>9. CASE version # "3.3" /\ i # 0 /\ Complete(i, g)
  <2>1. i \in 1 .. Len(pending)
    BY <1>9, TakesMatch DEF Inv, Typed, TasksTyped
  <2>. HIDE DEF i, g
  <2>2. /\ TasksTyped' /\ Core'
        /\ \A r \in Tasks : fut'[r] = fut[r] \/ fut'[r] = g
    BY <1>7, <1>9, <2>1, CoreCompletes DEF Inv, Typed
  <2>3. Origins'
    BY <1>2, <1>3, <1>7, <1>9, <2>2, OriginsAnswered DEF Inv
  <2>. QED  BY <1>4, <1>5, <1>6, <2>2, <2>3 DEF Inv, Typed
<1>10. CASE UNCHANGED <<pending, fut, ready>>
  <2>1. TasksTyped' /\ Core'
    BY <1>10, CoreStays DEF Inv, Typed
  <2>2. Origins'
    BY <1>2, <1>3, <1>10, OriginsAnswered DEF Inv
  <2>. QED  BY <1>4, <1>5, <1>6, <2>1, <2>2 DEF Inv, Typed
<1>. QED  BY <1>8, <1>9, <1>10

(* What a call that ends leaves of the invariant, whatever it was.         *)
LEMMA InvFinish ==
  ASSUME Inv, NEW r \in Tasks, Finish(r), ready' \in Seq(Tasks),
         UNCHANGED <<version, dev, had, toCli>>
  PROVE  TasksTyped' /\ Core' /\ WireTyped' /\ Origins'
<1>1. TasksTyped' /\ Core'
  BY CoreFinishes DEF Inv, Typed
<1>2. WireTyped'
  BY DEF Finish, WireTyped, Inv, Typed
<1>3. Origins'
  <2>1. NotDone.ok = FALSE /\ NotDone.dps = <<>> /\ Idle.op # "control"
    BY EndedIsNoAnswer DEF NotDone, Idle
  <2>2. /\ task'[r] = Idle /\ fut'[r] = NotDone
        /\ \A q \in Tasks \ {r} : task'[q] = task[q] /\ fut'[q] = fut[q]
    BY DEF Finish, Inv, Typed, TasksTyped
  <2>. QED  BY <2>1, <2>2, OriginsCalls DEF Inv
<1>. QED  BY <1>1, <1>2, <1>3

LEMMA InvResume ==
  ASSUME Inv, Resume
  PROVE  Inv'
<1>1. PICK r : r = Head(ready)
  OBVIOUS
<1>2. /\ StatusArrives(r) \/ StatusFails(r) \/ WriteEnds(r)
      /\ ready # <<>> /\ ready' = Tail(ready)
      /\ UNCHANGED <<version, served, dev, had, toCli, events>>
  BY <1>1 DEF Resume
<1>3. r \in Tasks /\ ready' \in Seq(Tasks)
  BY <1>1, <1>2, SetOfTail DEF Inv, Typed, TasksTyped
<1>4. fut[r].dps \in PDps /\ InHad(fut[r].dps, had) /\ task[r].dps \in PDps
  BY <1>3, FramesAre, CallIs DEF Inv, Typed, Origins, FutHad
<1>5. CASE StatusArrives(r)
  <2>1. TasksTyped' /\ Core' /\ WireTyped' /\ Origins'
    BY <1>2, <1>3, <1>5, InvFinish DEF StatusArrives
  <2>2. state' \in [DPs -> Values \cup {Unknown}] /\ NoPhantom'
    BY <1>2, <1>4, <1>5, MergesHad DEF Inv, StatusArrives
  <2>3. DataTyped'
    BY <1>2, <1>5, <2>2 DEF Inv, Typed, DataTyped, StatusArrives
  <2>. QED  BY <2>1, <2>2, <2>3 DEF Inv, Typed
<1>6. CASE StatusFails(r)
  <2>1. DataTyped' /\ NoPhantom'
    BY <1>2, <1>6 DEF Inv, Typed, DataTyped, NoPhantom, StatusFails
  <2>2. CASE Finish(r)
    BY <1>2, <1>3, <2>1, <2>2, InvFinish DEF Inv, Typed
  <2>3. CASE Request(r, Sibling[task[r].op], <<>>, TRUE, PendingAfter(r))
    <3>1. Sibling[task[r].op] \in Cmds
      BY <1>6 DEF StatusFails, Sibling, Cmds, Queries
    <3>2. /\ PendingAfter(r) \in Seq(Entries)
          /\ ToSet(PendingAfter(r)) \subseteq ToSet(pending)
          /\ \A e \in ToSet(pending) : e.seq # task[r].seq => e \in ToSet(PendingAfter(r))
      BY <1>3, PendingLeft DEF Inv, Typed, TasksTyped
    <3>3. UNCHANGED state
      BY <1>6 DEF StatusFails
    <3>4. TasksTyped' /\ Core' /\ WireTyped' /\ Origins'
      BY <1>2, <1>3, <2>3, <3>1, <3>2, <3>3, NoDps, InvRequest
    <3>. QED  BY <2>1, <3>4 DEF Inv, Typed
  <2>. QED  BY <1>6, <2>2, <2>3 DEF StatusFails
<1>7. CASE WriteEnds(r)
  <2>1. TasksTyped' /\ Core' /\ WireTyped' /\ Origins'
    BY <1>2, <1>3, <1>7, InvFinish DEF WriteEnds
  <2>2. state' \in [DPs -> Values \cup {Unknown}] /\ NoPhantom'
    <3>1. CASE fut[r].ok
      <4>1. version = "3.3" => InHad(task[r].dps, had)
        BY <1>3, <1>7, <3>1 DEF Inv, Origins, AckFut, WriteEnds
      <4>2. state' = Merged(task[r].dps, state)
        BY <1>7, <3>1 DEF WriteEnds
      <4>. QED  BY <1>2, <1>4, <4>1, <4>2, MergesHad DEF Inv
    <3>2. CASE ~ fut[r].ok
      <4>1. state' = state
        BY <1>7, <3>2 DEF WriteEnds
      <4>. QED  BY <1>2, <4>1 DEF Inv, Typed, DataTyped, NoPhantom
    <3>. QED  BY <3>1, <3>2
  <2>3. DataTyped'
    BY <1>2, <1>7, <2>2 DEF Inv, Typed, DataTyped, WriteEnds
  <2>. QED  BY <2>1, <2>2, <2>3 DEF Inv, Typed
<1>. QED  BY <1>2, <1>5, <1>6, <1>7

LEMMA InvStep == Inv /\ [Next]_vars => Inv'
<1>. SUFFICES ASSUME Inv, [Next]_vars PROVE Inv'
  OBVIOUS
<1>1. CASE DeviceQuery
  BY <1>1, InvDeviceQuery
<1>2. CASE DeviceControl
  BY <1>2, InvDeviceControl
<1>3. CASE Dispatch
  <2>1. CASE DispatchReply(Head(toCli))
    BY <1>3, <2>1, InvReply DEF Dispatch
  <2>2. CASE DispatchPush(Head(toCli))
    BY <1>3, <2>2, InvPush DEF Dispatch
  <2>. QED  BY <1>3, <2>1, <2>2 DEF Dispatch
<1>4. CASE Resume
  BY <1>4, InvResume
<1>5. CASE SessionLost
  BY <1>5, InvSessionLost
<1>6. CASE \E r \in Tasks : GetStatus(r)
  BY <1>6, InvGetStatus
<1>7. ASSUME NEW r \in Tasks, Expire(r) PROVE Inv'
  <2>1. EndWait(r, "expired") /\ events' \in 0 .. MaxEvents
    BY <1>7 DEF Expire, Inv, Typed, DataTyped
  <2>. QED  BY <2>1, InvEndWait
<1>8. ASSUME NEW r \in Tasks, Cancel(r) PROVE Inv'
  <2>1. EndWait(r, "cancelled") /\ events' \in 0 .. MaxEvents
    BY <1>8, EventCounts DEF Cancel, Inv, Typed, DataTyped
  <2>. QED  BY <2>1, InvEndWait
<1>9. CASE \E r \in Tasks, d \in DPs, v \in Values : SetMultiple(r, d, v)
  BY <1>9, InvSetMultiple
<1>10. CASE \E d \in DPs, v \in Values : DevicePushes(d, v)
  BY <1>10, InvDevicePushes
<1>11. CASE UNCHANGED vars
  <2>. USE <1>11 DEF vars
  <2>1. TasksTyped' /\ Core'
    BY CoreStays DEF Inv, Typed
  <2>2. DataTyped' /\ WireTyped'
    BY DEF Inv, Typed, DataTyped, WireTyped
  <2>3. Origins'
    BY OriginsCalls DEF Inv
  <2>4. NoPhantom'
    BY DEF Inv, NoPhantom
  <2>. QED  BY <2>1, <2>2, <2>3, <2>4 DEF Inv, Typed
<1>. QED  BY <1>1, <1>2, <1>3, <1>4, <1>5, <1>6, <1>7, <1>8, <1>9, <1>10, <1>11
          DEF Next, Device

-----------------------------------------------------------------------------
(* The theorems.                                                           *)

LEMMA Invariance == Spec => []Inv
BY InvInit, InvStep, PTL DEF Spec

(* Whatever the device answers and whoever gives up, every variable keeps  *)
(* its type: only entries of known tasks in _pending, only the device's    *)
(* data points in _state.                                                  *)
THEOREM TypeCorrect == Spec => []TypeOK
<1>1. Inv => TypeOK
  <2>. SUFFICES ASSUME Inv PROVE TypeOK
    OBVIOUS
  <2>1. \A e \in ToSet(pending) : e \in Entries
    BY LenProperties DEF ToSet, Inv, Typed, TasksTyped
  <2>2. \A r \in ToSet(ready) : r \in Tasks
    BY LenProperties DEF ToSet, Inv, Typed, TasksTyped
  <2>. QED  BY <2>1, <2>2 DEF TypeOK, Inv, Typed, DataTyped, Entries
<1>. QED  BY <1>1, Invariance, PTL

(* On v3.3 a request is completed only by the device's answer to it,       *)
(* however many tasks call at once and however late answers arrive         *)
(* (_take_pending, _request).                                              *)
THEOREM Answered == Spec => []OwnAnswer
<1>1. Inv => OwnAnswer
  BY DEF Inv, Core
<1>. QED  BY <1>1, Invariance, PTL

(* No frame that is dispatched and no caller that gives up takes another's *)
(* entry from _pending while that one waits for it.                        *)
THEOREM Remembered == Spec => []NobodyForgotten
<1>1. Inv => NobodyForgotten
  BY DEF Inv, Core
<1>. QED  BY <1>1, Invariance, PTL

(* On v3.3 the client shows no value the device never had: set_multiple    *)
(* merges only writes that the device has applied.                         *)
THEOREM NoPhantoms == Spec => []NoPhantom
<1>1. Inv => NoPhantom
  BY DEF Inv
<1>. QED  BY <1>1, Invariance, PTL

=============================================================================
