---------------------------- MODULE FrameProofs -----------------------------
(***************************************************************************)
(* Theorems about module Frames, for any bodies, any read size and any     *)
(* caps that leave room for one read over the largest frame, as the        *)
(* code's do (64 KiB, 4 KiB and 256 KiB).                                  *)
(***************************************************************************)
EXTENDS Frames, SequenceTheorems, TLAPS

Bytes == {"0", "3", ".", "v", "{", "j"}

(* How long the parts of a payload are.                                    *)
LEMMA PartLengths ==
  /\ Ret \in Seq(Bytes) /\ Len(Ret) = 4
  /\ Ver \in Seq(Bytes) /\ Len(Ver) = 15
  /\ \A n \in Nat : Json(n) \in Seq(Bytes) /\ Len(Json(n)) = n
<1>1. Ret \in Seq(Bytes) /\ Len(Ret) = 4
  BY DEF Ret, Bytes
<1>2. Ver \in Seq(Bytes) /\ Len(Ver) = 15
  <2>. DEFINE front == <<"3", ".">>
              rest == [i \in 1..13 |-> "v"]
  <2>1. rest \in Seq(Bytes) /\ Len(rest) = 13
    BY IsASeq DEF Bytes
  <2>2. front \in Seq(Bytes) /\ Len(front) = 2
    BY DEF Bytes
  <2>3. Ver = front \o rest
    BY DEF Ver
  <2>. HIDE DEF front, rest
  <2>4. front \o rest \in Seq(Bytes) /\ Len(front \o rest) = Len(front) + Len(rest)
    BY <2>1, <2>2, ConcatProperties, Zenon
  <2>. QED  BY <2>1, <2>2, <2>3, <2>4
<1>3. ASSUME NEW n \in Nat PROVE Json(n) \in Seq(Bytes) /\ Len(Json(n)) = n
  <2>. DEFINE byte(i) == IF i = 1 THEN "{" ELSE "j"
  <2>1. \A i \in 1..n : byte(i) \in Bytes
    BY DEF Bytes
  <2>2. Json(n) = [i \in 1..n |-> byte(i)]
    BY DEF Json
  <2>. HIDE DEF byte
  <2>. QED  BY <2>1, <2>2, IsASeq
<1>. QED  BY <1>1, <1>2, <1>3

LEMMA WhenLength ==
  ASSUME NEW b \in BOOLEAN, NEW bytes \in Seq(Bytes)
  PROVE  When(b, bytes) \in Seq(Bytes) /\ Len(When(b, bytes)) = IF b THEN Len(bytes) ELSE 0
BY EmptySeq DEF When

(* What surrounds a body is at most 35 bytes.                              *)
LEMMA SizeBound ==
  ASSUME NEW v \in Versions, NEW s, s.ret \in BOOLEAN, s.ver \in BOOLEAN, s.body \in Nat
  PROVE  Size(Payload(v, s)) \in 0 .. s.body + 35
<1>. DEFINE a == When(s.ret, Ret)
            b == When(s.ver /\ v # "3.4", Ver)
            c == When(v = "3.5", Json(s.body))
            d == When(s.ver /\ v = "3.4", Ver)
            e == When(v # "3.5", Json(s.body))
<1>1. a \in Seq(Bytes) /\ Len(a) \in 0..4
  BY PartLengths, WhenLength
<1>2. b \in Seq(Bytes) /\ Len(b) = (IF s.ver /\ v # "3.4" THEN 15 ELSE 0)
  BY PartLengths, WhenLength
<1>3. c \in Seq(Bytes) /\ Len(c) = (IF v = "3.5" THEN s.body ELSE 0)
  BY PartLengths, WhenLength
<1>4. d \in Seq(Bytes) /\ Len(d) = (IF s.ver /\ v = "3.4" THEN 15 ELSE 0)
  BY PartLengths, WhenLength
<1>5. e \in Seq(Bytes) /\ Len(e) = (IF v # "3.5" THEN s.body ELSE 0)
  BY PartLengths, WhenLength
<1>6. /\ a \o b \in Seq(Bytes) /\ Len(a \o b) = Len(a) + Len(b)
      /\ (a \o b) \o c \in Seq(Bytes) /\ Len((a \o b) \o c) = Len(a) + Len(b) + Len(c)
  BY <1>1, <1>2, <1>3, ConcatProperties
<1>7. d \o e \in Seq(Bytes) /\ Len(d \o e) = Len(d) + Len(e)
  BY <1>4, <1>5, ConcatProperties
<1>. DEFINE clear == (a \o b) \o c
            cipher == d \o e
<1>8. Size(Payload(v, s)) = Len(clear) + CipherSize(cipher)
  BY DEF Size, Payload
<1>. HIDE DEF a, b, c, d, e, clear, cipher
<1>9. CipherSize(cipher) \in 0 .. Len(cipher) + 16
  <2>1. Len(cipher) \in Nat
    BY <1>7, LenProperties DEF cipher
  <2>. QED  BY <2>1 DEF CipherSize
<1>10. v = "3.5" => CipherSize(cipher) = 0
  <2>1. v = "3.5" => Len(cipher) = 0
    BY <1>4, <1>5, <1>7 DEF cipher
  <2>2. v = "3.5" => cipher = <<>>
    BY <2>1, <1>7, EmptySeq DEF cipher
  <2>. QED  BY <2>2 DEF CipherSize
<1>11. Len(cipher) = Len(d) + Len(e) /\ Len(clear) = Len(a) + Len(b) + Len(c)
  BY <1>6, <1>7 DEF clear, cipher
<1>12. Len(a) \in 0..4 /\ Len(b) + Len(d) <= 15 /\ Len(c) + Len(e) = s.body
       /\ Len(b) \in Nat /\ Len(c) \in Nat /\ Len(d) \in Nat /\ Len(e) \in Nat
  BY <1>1, <1>2, <1>3, <1>4, <1>5
<1>13. ASSUME NEW n \in Nat, NEW la \in 0..4, NEW lb \in Nat, NEW lc \in Nat,
              NEW ld \in Nat, NEW le \in Nat, lb + ld <= 15, lc + le = n,
              NEW size \in 0 .. (ld + le) + 16
       PROVE  la + lb + lc + size \in 0 .. n + 35
  BY <1>13
<1>14. Size(Payload(v, s)) = Len(a) + Len(b) + Len(c) + CipherSize(cipher)
  BY <1>8, <1>11
<1>15. CipherSize(cipher) \in 0 .. (Len(d) + Len(e)) + 16
  BY <1>9, <1>11
<1>16. Len(a) + Len(b) + Len(c) + CipherSize(cipher) \in 0 .. s.body + 35
  BY <1>12, <1>13, <1>15
<1>. QED  BY <1>14, <1>16

-----------------------------------------------------------------------------
(* A frame is right about its size, and no larger than a frame may be; a   *)
(* size field is never less than nothing.                                  *)
LEMMA HeadFacts ==
  ASSUME NEW v \in Versions, NEW h \in Heads[v]
  PROVE  /\ h.claim \in Nat
         /\ h.flaw \in Flaws \cup {"none", "size"}
         /\ h.flaw # "size" => Trailer[v] <= h.claim /\ h.claim <= MaxFrame
<1>1. Trailer[v] \in 8..36
  BY DEF Trailer, Versions
<1>2. ASSUME NEW s \in Shapes(v)
      PROVE  SizeField(v, s) \in Nat /\ Trailer[v] <= SizeField(v, s) /\ SizeField(v, s) <= MaxFrame
  <2>1. s.ret \in BOOLEAN /\ s.ver \in BOOLEAN /\ s.body \in Bodies \cup {0}
    <3>1. CASE s = [kind |-> "heartbeat", ret |-> FALSE, ver |-> FALSE, body |-> 0]
      BY <3>1
    <3>2. CASE s \in [kind : {"answer"}, ret : BOOLEAN, ver : BOOLEAN, body : Bodies \cup {0}]
      BY <3>2
    <3>3. CASE s \in [kind : {"push"}, ret : BOOLEAN, ver : BOOLEAN, body : Bodies]
      BY <3>3
    <3>. QED  BY <3>1, <3>2, <3>3, Zenon DEF Shapes
  <2>2. s.body \in Nat /\ s.body + 71 <= MaxFrame
    <3>1. CASE s.body \in Bodies
      BY <3>1, FramesAssumption
    <3>2. CASE s.body = 0
      BY <3>2, FramesAssumption
    <3>. QED  BY <2>1, <3>1, <3>2
  <2>3. Size(Payload(v, s)) \in 0 .. s.body + 35
    BY <2>1, <2>2, SizeBound
  <2>. QED  BY <1>1, <2>2, <2>3, FramesAssumption DEF SizeField
<1>3. CASE \E s \in Shapes(v), f \in Flaws \cup {"none"} : h = Frame(s, f, SizeField(v, s))
  <2>1. PICK s \in Shapes(v), f \in Flaws \cup {"none"} : h = Frame(s, f, SizeField(v, s))
    BY <1>3
  <2>2. h.claim = SizeField(v, s) /\ h.flaw = f
    BY <2>1 DEF Frame
  <2>. QED  BY <1>2, <2>2 DEF Flaws
<1>4. CASE \E s \in Shapes(v) : \E c \in Claims(v, s) : h = Frame(s, "size", c)
  <2>1. PICK s \in Shapes(v) : \E c \in Claims(v, s) : h = Frame(s, "size", c)
    BY <1>4
  <2>2. PICK c \in Claims(v, s) : h = Frame(s, "size", c)
    BY <2>1
  <2>3. c \in Nat
    BY <1>1, <1>2, FramesAssumption DEF Claims
  <2>4. h.claim = c /\ h.flaw = "size"
    BY <2>2 DEF Frame
  <2>. QED  BY <2>3, <2>4
<1>. DEFINE right == {Frame(s, f, SizeField(v, s)) : s \in Shapes(v), f \in Flaws \cup {"none"}}
            wrong(s) == {Frame(s, "size", c) : c \in Claims(v, s)}
<1>5. Heads[v] = right \cup UNION {wrong(s) : s \in Shapes(v)}
  BY DEF Heads
<1>6. CASE h \in right
  BY <1>3, <1>6
<1>7. CASE \E s \in Shapes(v) : h \in wrong(s)
  BY <1>4, <1>7, Zenon
<1>. HIDE DEF right, wrong
<1>. QED  BY <1>5, <1>6, <1>7

(* The three codecs as one decision.                                       *)
LEMMA DecodeIs ==
  ASSUME NEW v \in Versions, NEW h \in Heads[v], NEW have \in Nat
  PROVE  Decode(v, h, have) =
           IF have < Least[v] THEN "wait"
           ELSE IF h.flaw = "prefix" \/ h.claim > MaxFrame THEN "protocol"
           ELSE IF v = "3.4" /\ h.claim < Trailer[v] THEN "protocol"
           ELSE IF have < Total(v, h) THEN "wait"
           ELSE IF h.flaw \in {"suffix", "size"} THEN "protocol"
           ELSE IF Passes(v, h) THEN "frame"
           ELSE IF v = "3.3" THEN "protocol" ELSE "auth"
<1>1. h.flaw \in Flaws \cup {"none", "size"}
  BY HeadFacts
<1>2. CASE v = "3.3"
  BY <1>1, <1>2 DEF Decode, Decode33, Passes, Sound, Flaws
<1>3. CASE v = "3.4"
  BY <1>1, <1>3 DEF Decode, Decode34, Passes, Sound, Flaws
<1>4. CASE v = "3.5"
  BY <1>1, <1>4 DEF Decode, Decode35, Passes, Sound, Flaws
<1>. QED  BY <1>2, <1>3, <1>4 DEF Versions

(* What each of its outcomes means.                                        *)
LEMMA DecodeFacts ==
  ASSUME NEW v \in Versions, NEW h \in Heads[v], NEW have \in Nat
  PROVE  /\ Total(v, h) \in Nat /\ Least[v] \in 18..52
         /\ Decode(v, h, have) \in {"wait", "protocol", "auth", "frame"}
         /\ Decode(v, h, have) = "wait" => have <= MaxFrame + 21
         /\ Decode(v, h, have) = "frame" => Total(v, h) <= have
         /\ Passes(v, h) => /\ Decode(v, h, have) \in {"wait", "frame"}
                            /\ Decode(v, h, have) = "wait" => have < Total(v, h)
                            /\ 18 <= Total(v, h)
<1>1. /\ h.claim \in Nat
      /\ h.flaw \in Flaws \cup {"none", "size"}
      /\ h.flaw # "size" => Trailer[v] <= h.claim /\ h.claim <= MaxFrame
  BY HeadFacts
<1>2. /\ Trailer[v] \in 8..36 /\ Around[v] \in {16, 22}
      /\ Least[v] = Around[v] + Trailer[v] /\ Least[v] \in 18..52
      /\ v = "3.4" => Trailer[v] = 36
  BY DEF Trailer, Around, Least, Versions
<1>3. Total(v, h) \in Nat
  BY <1>1, <1>2 DEF Total
<1>4. Decode(v, h, have) \in {"wait", "protocol", "auth", "frame"}
  BY DecodeIs
<1>5. Decode(v, h, have) = "wait" => have <= MaxFrame + 21
  BY <1>1, <1>2, DecodeIs, FramesAssumption DEF Total
<1>6. Decode(v, h, have) = "frame" => Total(v, h) <= have
  BY <1>1, <1>2, <1>3, DecodeIs
<1>7. ASSUME Passes(v, h)
      PROVE  /\ Decode(v, h, have) \in {"wait", "frame"}
             /\ Decode(v, h, have) = "wait" => have < Total(v, h)
             /\ 18 <= Total(v, h)
  <2>1. h.flaw \notin {"size", "prefix", "suffix"}
    BY <1>7 DEF Passes, Sound
  <2>2. Least[v] <= Total(v, h) /\ h.claim <= MaxFrame /\ ~(h.claim < Trailer[v])
    BY <1>1, <1>2, <2>1, FramesAssumption DEF Total
  <2>3. ~(h.claim > MaxFrame)
    BY <1>1, <2>2, FramesAssumption
  <2>4. Decode(v, h, have) \in {"wait", "frame"}
    BY <1>7, <2>1, <2>2, <2>3, DecodeIs
  <2>5. Decode(v, h, have) = "wait" => have < Total(v, h)
    BY <1>2, <1>3, <1>7, <2>1, <2>2, <2>3, DecodeIs
  <2>. QED  BY <1>2, <1>3, <2>2, <2>4, <2>5
<1>. QED  BY <1>2, <1>3, <1>4, <1>5, <1>6, <1>7

-----------------------------------------------------------------------------
Inv == TypeOK /\ Drained /\ EndsForCause

LEMMA InvInit == Init => Inv
<1>. SUFFICES ASSUME Init PROVE Inv
  OBVIOUS
<1>1. 18 <= Total(version, head) \/ ~Passes(version, head)
  BY DecodeFacts DEF Init
<1>2. Total(version, head) \in Nat
  BY DecodeFacts DEF Init
<1>. QED  BY <1>1, <1>2, FramesAssumption DEF Init, Inv, TypeOK, Drained, EndsForCause

LEMMA InvStep == Inv /\ [Next]_vars => Inv'
<1>. SUFFICES ASSUME Inv, [Next]_vars PROVE Inv'
  OBVIOUS
<1>1. version \in Versions /\ head \in Heads[version] /\ buf \in Nat
  BY FramesAssumption DEF Inv, TypeOK
<1>2. CASE Receive
  <2>1. PICK n \in 1..ReadChunk : buf' = buf + n
    BY <1>2 DEF Receive
  <2>2. buf \in 0..(MaxFrame + 21)
    BY <1>2, FramesAssumption DEF Receive, Inv, TypeOK
  <2>3. buf' \in 0..(MaxFrame + 21 + ReadChunk) /\ ~(buf' > MaxBuffer)
    BY <2>1, <2>2, FramesAssumption
  <2>4. pc' = "decode" /\ UNCHANGED <<version, head, why>>
    BY <1>2, <2>3 DEF Receive
  <2>5. why = None
    BY <1>2 DEF Receive, Inv, TypeOK
  <2>. QED  BY <1>1, <2>3, <2>4, <2>5, FramesAssumption DEF TypeOK, Drained, EndsForCause, Inv
<1>3. CASE Dispatch
  <2>1. Total(version, head) \in Nat /\ Total(version, head) <= buf
    BY <1>1, <1>3, DecodeFacts DEF Dispatch, Whole
  <2>2. buf \in 0..(MaxFrame + 21 + ReadChunk) /\ why = None
    BY <1>3 DEF Dispatch, Whole, Inv, TypeOK
  <2>3. buf' \in 0..(MaxFrame + 21 + ReadChunk)
    BY <1>3, <2>1, <2>2, FramesAssumption DEF Dispatch
  <2>. QED  BY <1>1, <1>3, <2>2, <2>3, FramesAssumption
            DEF Dispatch, Whole, TypeOK, Drained, EndsForCause, Inv
<1>4. CASE AwaitMore
  <2>1. buf <= MaxFrame + 21 /\ (Passes(version, head) => buf < Total(version, head))
    <3>1. CASE buf < 18
      <4>1. Passes(version, head) => 18 <= Total(version, head)
        BY <1>1, DecodeFacts
      <4>2. Total(version, head) \in Nat
        BY <1>1, DecodeFacts
      <4>. QED  BY <1>1, <3>1, <4>1, <4>2, FramesAssumption
    <3>2. CASE Decode(version, head, buf) = "wait"
      BY <1>1, <3>2, DecodeFacts
    <3>. QED  BY <1>4, <3>1, <3>2 DEF AwaitMore
  <2>2. why = None /\ pc' = "read" /\ UNCHANGED <<version, head, buf, why>>
    BY <1>4 DEF AwaitMore, Inv, TypeOK
  <2>3. buf' \in 0..(MaxFrame + 21)
    BY <1>1, <2>1, <2>2, FramesAssumption
  <2>4. TypeOK'
    BY <1>1, <2>2, <2>3, FramesAssumption DEF TypeOK
  <2>5. Drained'
    BY <2>1, <2>2 DEF Drained, Passes, Sound, Total
  <2>. QED  BY <2>2, <2>4, <2>5, FramesAssumption DEF EndsForCause, Inv
<1>5. CASE BadFrame
  <2>1. ~Passes(version, head)
    BY <1>1, <1>5, DecodeFacts DEF BadFrame
  <2>2. buf' = 0 /\ pc' = "ended" /\ why' = "bad" /\ UNCHANGED <<version, head>>
    BY <1>5 DEF BadFrame
  <2>. QED  BY <1>1, <2>1, <2>2, FramesAssumption
            DEF TypeOK, Drained, EndsForCause, Inv, Passes, Sound
<1>6. CASE PeerCloses
  <2>1. pc' = "ended" /\ why' = "peer" /\ UNCHANGED <<version, head, buf>>
    BY <1>6 DEF PeerCloses
  <2>2. buf' \in 0..(MaxFrame + 21 + ReadChunk)
    BY <1>1, <1>6, FramesAssumption DEF PeerCloses, Inv, TypeOK
  <2>. QED  BY <1>1, <2>1, <2>2, FramesAssumption DEF TypeOK, Drained, EndsForCause, Inv
<1>7. CASE Reconnect
  <2>1. version' \in Versions /\ head' \in Heads[version']
    BY <1>1, <1>7 DEF Reconnect
  <2>2. buf' = 0 /\ pc' = "read" /\ why' = None
    BY <1>7 DEF Reconnect
  <2>3. Passes(version', head') => 18 <= Total(version', head')
    BY <2>1, DecodeFacts
  <2>4. Total(version', head') \in Nat
    BY <2>1, DecodeFacts
  <2>5. Drained'
    BY <2>2, <2>3, <2>4 DEF Drained, Passes, Sound, Total
  <2>. QED  BY <2>1, <2>2, <2>5, FramesAssumption DEF TypeOK, EndsForCause, Inv
<1>8. CASE UNCHANGED vars
  BY <1>8 DEF vars, Inv, TypeOK, Drained, EndsForCause, Passes, Sound, Total
<1>. QED  BY <1>2, <1>3, <1>4, <1>5, <1>6, <1>7, <1>8 DEF Next

THEOREM Safety == Spec => []Inv
<1>. QED  BY InvInit, InvStep, PTL DEF Spec

(* The buffer stays below one frame and one read, whatever a size field    *)
(* claims.                                                                 *)
THEOREM BufferBounded == Spec => []TypeOK
<1>1. Inv => TypeOK
  BY DEF Inv
<1>. QED  BY <1>1, Safety, PTL

(* No whole frame is left in the buffer when the loop waits, however TCP   *)
(* cuts the stream.                                                        *)
THEOREM NothingHeldBack == Spec => []Drained
<1>1. Inv => Drained
  BY DEF Inv
<1>. QED  BY <1>1, Safety, PTL

(* The client drops a connection only over a frame that is wrong, and the  *)
(* cap on the buffer is never what ends it.                                *)
THEOREM GoodStreamsLive == Spec => []EndsForCause
<1>1. Inv => EndsForCause
  BY DEF Inv
<1>. QED  BY <1>1, Safety, PTL

-----------------------------------------------------------------------------
(* What is read out of a payload: its parts, byte by byte where they are   *)
(* looked at, and the peeling off of the front one.                        *)

LEMMA PartBytes ==
  /\ Ret[1] = "0"
  /\ Ver[1] = "3" /\ Ver[2] = "."
  /\ Json(0) = <<>>
  /\ \A n \in Nat : n > 0 => Json(n)[1] = "{"
  /\ \A n \in Nat : \A i \in 2..n : Json(n)[i] = "j"
<1>1. Ret[1] = "0"
  BY DEF Ret
<1>2. Ver[1] = "3" /\ Ver[2] = "."
  <2>. DEFINE front == <<"3", ".">>
              rest == [i \in 1..13 |-> "v"]
  <2>1. rest \in Seq(Bytes) /\ Len(rest) = 13
    BY IsASeq DEF Bytes
  <2>2. front \in Seq(Bytes) /\ Len(front) = 2 /\ front[1] = "3" /\ front[2] = "."
    BY DEF Bytes
  <2>3. Ver = front \o rest
    BY DEF Ver
  <2>. HIDE DEF front, rest
  <2>4. \A i \in 1 .. Len(front) + Len(rest) :
          (front \o rest)[i] = IF i <= Len(front) THEN front[i] ELSE rest[i - Len(front)]
    BY <2>1, <2>2, ConcatProperties
  <2>5. (front \o rest)[1] = front[1] /\ (front \o rest)[2] = front[2]
    <3>1. 1 \in 1 .. Len(front) + Len(rest) /\ 2 \in 1 .. Len(front) + Len(rest)
      BY <2>1, <2>2
    <3>2. 1 <= Len(front) /\ 2 <= Len(front)
      BY <2>2
    <3>. QED  BY <2>4, <3>1, <3>2
  <2>. QED  BY <2>2, <2>3, <2>5
<1>3. Json(0) = <<>>
  <2>1. Json(0) \in Seq(Bytes) /\ Len(Json(0)) = 0
    BY PartLengths
  <2>. QED  BY <2>1, EmptySeq
<1>4. ASSUME NEW n \in Nat, n > 0 PROVE Json(n)[1] = "{"
  <2>1. 1 \in 1..n
    BY <1>4
  <2>. QED  BY <2>1, Zenon DEF Json
<1>5. ASSUME NEW n \in Nat, NEW i \in 2..n PROVE Json(n)[i] = "j"
  <2>1. i \in 1..n /\ i # 1
    OBVIOUS
  <2>. QED  BY <2>1, Zenon DEF Json
<1>. QED  BY <1>1, <1>2, <1>3, <1>4, <1>5

(* Two parts, one behind the other.                                        *)
LEMMA Joined ==
  ASSUME NEW f \in Seq(Bytes), NEW g \in Seq(Bytes), NEW c, c = f \o g
  PROVE  /\ c \in Seq(Bytes) /\ Len(c) = Len(f) + Len(g)
         /\ Len(f) \in Nat /\ Len(g) \in Nat /\ Len(c) \in Nat
         /\ \A i \in 1..Len(f) : c[i] = f[i]
         /\ \A i \in 1..Len(g) : c[Len(f) + i] = g[i]
         /\ SubSeq(c, Len(f) + 1, Len(c)) = g
<1>1. Len(f) \in Nat /\ Len(g) \in Nat
  BY LenProperties
<1>2. /\ c \in Seq(Bytes) /\ Len(c) = Len(f) + Len(g)
      /\ \A i \in 1 .. Len(f) + Len(g) : c[i] = IF i <= Len(f) THEN f[i] ELSE g[i - Len(f)]
  BY ConcatProperties
<1>3. \A i \in 1..Len(f) : c[i] = f[i]
  BY <1>1, <1>2
<1>4. \A i \in 1..Len(g) : c[Len(f) + i] = g[i]
  BY <1>1, <1>2
<1>5. PICK m, n, e : m = Len(f) + 1 /\ n = Len(c) /\ e = SubSeq(c, m, n)
  OBVIOUS
<1>6. m \in Int /\ n \in Int /\ n - m + 1 = Len(g) /\ (m <= n <=> Len(g) # 0)
  BY <1>1, <1>2, <1>5
<1>7. \A i \in m..n : c[i] \in Bytes
  <2>1. \A i \in m..n : i \in 1..Len(c)
    BY <1>1, <1>2, <1>5
  <2>. QED  BY <1>2, <2>1, ElementOfSeq
<1>8. /\ e \in Seq(Bytes) /\ Len(e) = IF m <= n THEN n - m + 1 ELSE 0
      /\ \A i \in 1 .. n - m + 1 : e[i] = c[m + i - 1]
  BY <1>5, <1>6, <1>7, SubSeqProperties
<1>9. Len(e) = Len(g)
  BY <1>1, <1>6, <1>8
<1>10. ASSUME NEW i \in 1..Len(g) PROVE e[i] = g[i]
  <2>1. i \in 1 .. n - m + 1 /\ m + i - 1 = Len(f) + i
    BY <1>1, <1>5, <1>6
  <2>2. e[i] = c[m + i - 1]
    BY <1>8, <2>1
  <2>. QED  BY <1>4, <2>1, <2>2
<1>11. e = g
  BY <1>8, <1>9, <1>10, SeqEqual
<1>. QED  BY <1>1, <1>2, <1>3, <1>4, <1>5, <1>11

(* A payload, as split_*_payload takes it apart.                           *)
Parts(c, k) == [clear |-> c, cipher |-> k]

(* Its two fields.                                                         *)
LEMMA PartsIs ==
  ASSUME NEW c, NEW k
  PROVE  Parts(c, k).clear = c /\ Parts(c, k).cipher = k
BY DEF Parts

(* Cutting the front part off the clear bytes leaves what is behind it.    *)
LEMMA DropFront ==
  ASSUME NEW f \in Seq(Bytes), NEW g \in Seq(Bytes), NEW k
  PROVE  Drop(Parts(f \o g, k), Len(f)) = Parts(g, k)
<1>0. PICK c : c = f \o g
  OBVIOUS
<1>1. Len(f) <= Len(c) /\ SubSeq(c, Len(f) + 1, Len(c)) = g
  BY <1>0, Joined
<1>2. Drop(Parts(c, k), Len(f)) = [Parts(c, k) EXCEPT !.clear = SubSeq(c, Len(f) + 1, Len(c))]
  BY <1>1, PartsIs DEF Drop
<1>3. [Parts(c, k) EXCEPT !.clear = g] = Parts(g, k)
  BY DEF Parts
<1>. QED  BY <1>0, <1>1, <1>2, <1>3

(* ... and nothing, if nothing is.                                         *)
LEMMA DropAll ==
  ASSUME NEW f \in Seq(Bytes), NEW k
  PROVE  Drop(Parts(f, k), Len(f)) = Parts(<<>>, k)
<1>1. f \o <<>> = f /\ <<>> \in Seq(Bytes)
  BY ConcatEmptySeq, EmptySeq
<1>2. Drop(Parts(f \o <<>>, k), Len(f)) = Parts(<<>>, k)
  BY <1>1, DropFront
<1>. QED  BY <1>1, <1>2

(* A version header is seen where there is one, and only there.            *)
LEMMA VerPrefix ==
  /\ \A g \in Seq(Bytes) : IsPrefix(Ver, Ver \o g)
  /\ IsPrefix(Ver, Ver)
  /\ \A g \in Seq(Bytes) : g = <<>> \/ g[1] # "3" => ~IsPrefix(Ver, g)
<1>1. Ver \in Seq(Bytes) /\ Len(Ver) = 15 /\ SubSeq(Ver, 1, 15) = Ver
  BY PartLengths, SubSeqFull
<1>2. IsPrefix(Ver, Ver)
  BY <1>1 DEF IsPrefix
<1>3. ASSUME NEW g \in Seq(Bytes) PROVE IsPrefix(Ver, Ver \o g)
  <2>1. Len(Ver \o g) = Len(Ver) + Len(g) /\ Len(g) \in Nat
    BY <1>1, ConcatProperties, LenProperties
  <2>2. SubSeq(Ver \o g, 1, Len(Ver)) = SubSeq(Ver, 1, Len(Ver))
    <3>1. 1 \in 1..Len(Ver) /\ Len(Ver) \in 1..Len(Ver)
      BY <1>1
    <3>. QED  BY <1>1, <3>1, SubSeqOfConcat1
  <2>3. Len(Ver) <= Len(Ver \o g)
    BY <1>1, <2>1
  <2>. QED  BY <2>2, <2>3, Zenon DEF IsPrefix
<1>4. ASSUME NEW g \in Seq(Bytes), g = <<>> \/ g[1] # "3" PROVE ~IsPrefix(Ver, g)
  <2>1. CASE g = <<>>
    BY <1>1, <2>1, EmptySeq DEF IsPrefix
  <2>2. CASE g[1] # "3"
    <3>. SUFFICES ASSUME IsPrefix(Ver, g) PROVE FALSE
      OBVIOUS
    <3>1. 15 <= Len(g) /\ SubSeq(Ver, 1, 15) = SubSeq(g, 1, 15) /\ Len(g) \in Nat
      BY <1>1, LenProperties DEF IsPrefix
    <3>2. \A i \in 1..15 : g[i] \in Bytes
      BY <3>1, ElementOfSeq
    <3>3. SubSeq(g, 1, 15)[1] = g[1]
      BY <3>2, SubSeqProperties
    <3>. QED  BY <1>1, <2>2, <3>1, <3>3, PartBytes
  <2>. QED  BY <1>4, <2>1, <2>2
<1>. QED  BY <1>2, <1>3, <1>4

(* The two bytes the 3.5 code looks for, wherever they are in the text.    *)
LEMMA Dotted == <<"3", ".">> \in Seq(Bytes)
BY DEF Bytes

LEMMA PairIs ==
  ASSUME NEW c \in Seq(Bytes), NEW m \in Nat, m + 2 <= Len(c)
  PROVE  SubSeq(c, m + 1, m + 2) = <<"3", ".">> <=> c[m + 1] = "3" /\ c[m + 2] = "."
<1>1. Len(c) \in Nat
  BY LenProperties
<1>2. \A i \in (m + 1)..(m + 2) : c[i] \in Bytes
  BY <1>1, ElementOfSeq
<1>3. PICK a, b : a = m + 1 /\ b = m + 2 /\ a \in Int /\ b \in Int /\ b - a + 1 = 2 /\ a <= b
  OBVIOUS
<1>4. PICK e : e = SubSeq(c, a, b)
  OBVIOUS
<1>5. e \in Seq(Bytes) /\ Len(e) = 2 /\ \A i \in 1..2 : e[i] = c[a + i - 1]
  BY <1>2, <1>3, <1>4, SubSeqProperties
<1>6. e[1] = c[m + 1] /\ e[2] = c[m + 2]
  <2>1. e[1] = c[a + 1 - 1] /\ e[2] = c[a + 2 - 1]
    BY <1>5
  <2>2. a + 1 - 1 = m + 1 /\ a + 2 - 1 = m + 2
    BY <1>3
  <2>. QED  BY <2>1, <2>2
<1>7. PICK w : w = <<"3", ".">>
  OBVIOUS
<1>8. w \in Seq(Bytes) /\ Len(w) = 2 /\ w[1] = "3" /\ w[2] = "."
  BY <1>7, Dotted
<1>9. e = w <=> e[1] = "3" /\ e[2] = "."
  <2>1. e = w => e[1] = "3" /\ e[2] = "."
    BY <1>8
  <2>2. ASSUME e[1] = "3" /\ e[2] = "." PROVE e = w
    <3>1. \A i \in 1..2 : e[i] = w[i]
      BY <1>8, <2>2
    <3>. QED  BY <1>5, <1>8, <3>1, SeqEqual
  <2>. QED  BY <2>1, <2>2
<1>. QED  BY <1>3, <1>4, <1>6, <1>7, <1>9

(* A cipher is a multiple of its block long, and empty only if nothing is  *)
(* in it.                                                                  *)
LEMMA CipherSizes ==
  ASSUME NEW c \in Seq(Bytes)
  PROVE  /\ CipherSize(c) \in Nat /\ CipherSize(c) % 16 = 0
         /\ (CipherSize(c) + 4) % 16 = 4
         /\ CipherSize(c) = 0 <=> c = <<>>
         /\ c # <<>> => CipherSize(c) >= 16
<1>1. CASE c = <<>>
  BY <1>1 DEF CipherSize
<1>2. CASE c # <<>>
  <2>1. Len(c) \in Nat
    BY LenProperties
  <2>2. PICK m \in Nat : m = Len(c) \div 16
    BY <2>1
  <2>3. CipherSize(c) = 16 * (m + 1)
    BY <1>2, <2>2 DEF CipherSize
  <2>. QED  BY <1>2, <2>2, <2>3
<1>. QED  BY <1>1, <1>2

-----------------------------------------------------------------------------
(* What the shapes of the docstrings have in common.                       *)
LEMMA ShapeKinds ==
  ASSUME NEW v \in Versions, NEW s \in Shapes(v)
  PROVE  /\ s.kind \in {"heartbeat", "answer", "push"}
         /\ s.ret \in BOOLEAN /\ s.ver \in BOOLEAN
         /\ s.body \in Nat /\ s.body # 1
         /\ s.kind = "heartbeat" => s.body = 0
         /\ s.kind = "answer" => s.ret \/ v = "3.4"
         /\ s.kind = "answer" => (s.ver => s.body # 0)
         /\ s.kind = "push" => s.body # 0
         /\ s.kind = "push" => (v = "3.3" /\ s.ret => s.ver)
<1>1. Bodies \subseteq Nat \ {0, 1}
  BY FramesAssumption
<1>. DEFINE answers == {t \in [kind : {"answer"}, ret : BOOLEAN, ver : BOOLEAN, body : Bodies \cup {0}] :
                          /\ t.ret \/ v = "3.4"
                          /\ t.ver => t.body # 0}
            pushes == {t \in [kind : {"push"}, ret : BOOLEAN, ver : BOOLEAN, body : Bodies] :
                         v = "3.3" /\ t.ret => t.ver}
<1>2. CASE s = [kind |-> "heartbeat", ret |-> FALSE, ver |-> FALSE, body |-> 0]
  BY <1>2
<1>3. CASE s \in answers
  <2>1. /\ s \in [kind : {"answer"}, ret : BOOLEAN, ver : BOOLEAN, body : Bodies \cup {0}]
        /\ s.ret \/ v = "3.4"
        /\ s.ver => s.body # 0
    BY <1>3
  <2>2. s.kind = "answer" /\ s.ret \in BOOLEAN /\ s.ver \in BOOLEAN /\ s.body \in Bodies \cup {0}
    BY <2>1
  <2>3. CASE s.body \in Bodies
    BY <1>1, <2>1, <2>2, <2>3
  <2>4. CASE s.body = 0
    BY <2>1, <2>2, <2>4
  <2>. QED  BY <2>2, <2>3, <2>4
<1>4. CASE s \in pushes
  BY <1>1, <1>4
<1>. QED  BY <1>2, <1>3, <1>4, Zenon DEF Shapes

(* json.loads takes a text that is an object.                              *)
LEMMA ParsedJson ==
  ASSUME NEW n \in Nat, n # 0
  PROVE  Parsed(Json(n)) = n
<1>1. Json(n) \in Seq(Bytes) /\ Len(Json(n)) = n
  BY PartLengths
<1>2. Json(n) # <<>>
  BY <1>1, EmptySeq
<1>3. Head(Json(n)) = Json(n)[1]
  BY <1>1, <1>2, HeadTailProperties
<1>4. Json(n)[1] = "{"
  <2>1. n > 0
    OBVIOUS
  <2>. QED  BY <2>1, PartBytes
<1>. QED  BY <1>1, <1>2, <1>3, <1>4 DEF Parsed

(* How long a payload is.                                                  *)
LEMMA SizeIs ==
  ASSUME NEW c, NEW k
  PROVE  /\ Size(Parts(c, k)) = Len(c) + CipherSize(k)
         /\ Size(Parts(c, <<>>)) = Len(c) + 0
BY PartsIs DEF Size, CipherSize

(* The payload of each protocol.                                           *)
LEMMA PayloadIs ==
  ASSUME NEW s, s.ret \in BOOLEAN, s.ver \in BOOLEAN, s.body \in Nat
  PROVE  /\ Payload("3.3", s) = Parts(When(s.ret, Ret) \o When(s.ver, Ver), Json(s.body))
         /\ Payload("3.4", s) = Parts(When(s.ret, Ret), When(s.ver, Ver) \o Json(s.body))
         /\ Payload("3.5", s) = Parts((When(s.ret, Ret) \o When(s.ver, Ver)) \o Json(s.body), <<>>)
<1>1. PICK a, b, j, t : /\ a = When(s.ret, Ret) /\ b = When(s.ver, Ver)
                        /\ j = Json(s.body) /\ t = s.ver
  OBVIOUS
<1>2. a \in Seq(Bytes) /\ b \in Seq(Bytes) /\ j \in Seq(Bytes) /\ a \o b \in Seq(Bytes)
  BY <1>1, PartLengths, WhenLength, ConcatProperties
<1>3. /\ a \o <<>> = a /\ (a \o b) \o <<>> = a \o b
      /\ <<>> \o j = j /\ <<>> \o <<>> = <<>>
  BY <1>2, EmptySeq, ConcatEmptySeq
<1>4. /\ When(TRUE, Json(s.body)) = j /\ When(FALSE, Json(s.body)) = <<>>
      /\ When(FALSE, Ver) = <<>>
  BY <1>1 DEF When
<1>5. Payload("3.3", s) = Parts((a \o b) \o <<>>, <<>> \o j)
  BY <1>1, <1>4 DEF Payload, Parts
<1>6. Payload("3.4", s) = Parts((a \o <<>>) \o <<>>, b \o j)
  BY <1>1, <1>4 DEF Payload, Parts
<1>7. Payload("3.5", s) = Parts((a \o b) \o j, <<>> \o <<>>)
  BY <1>1, <1>4 DEF Payload, Parts
<1>. QED  BY <1>1, <1>3, <1>5, <1>6, <1>7

(* A return code in front of a version header.                             *)
LEMMA RetVer ==
  /\ Ret \in Seq(Bytes) /\ Len(Ret) = 4 /\ Ret # <<>>
  /\ Ver \in Seq(Bytes) /\ Len(Ver) = 15
  /\ <<>> \in Seq(Bytes) /\ Len(<<>>) = 0
  /\ <<>> \o Ver = Ver /\ Ret \o <<>> = Ret /\ <<>> \o <<>> = <<>>
  /\ Ret \o Ver \in Seq(Bytes) /\ Len(Ret \o Ver) = 19 /\ (Ret \o Ver)[1] = "0"
<1>1. Ret \in Seq(Bytes) /\ Len(Ret) = 4 /\ Ver \in Seq(Bytes) /\ Len(Ver) = 15
  BY PartLengths
<1>2. <<>> \in Seq(Bytes) /\ Len(<<>>) = 0
  BY EmptySeq
<1>3. <<>> \o Ver = Ver /\ Ret \o <<>> = Ret /\ <<>> \o <<>> = <<>>
  BY <1>1, <1>2, ConcatEmptySeq, Zenon
<1>4. ASSUME Ret = <<>> PROVE FALSE
  <2>1. Len(Ret) = Len(<<>>)
    BY <1>4, Zenon
  <2>. QED  BY <1>1, <1>2, <2>1
<1>5. PICK f, g, c : f = Ret /\ g = Ver /\ c = f \o g
  OBVIOUS
<1>6. /\ c \in Seq(Bytes) /\ Len(c) = Len(f) + Len(g)
      /\ \A i \in 1..Len(f) : c[i] = f[i]
  BY <1>1, <1>5, Joined
<1>7. Len(c) = 19 /\ c[1] = f[1]
  <2>1. Len(f) = 4 /\ Len(g) = 15
    BY <1>1, <1>5
  <2>2. 1 \in 1..Len(f)
    BY <2>1
  <2>. QED  BY <1>6, <2>1, <2>2
<1>8. f[1] = "0"
  BY <1>5, PartBytes
<1>. QED  BY <1>1, <1>2, <1>3, <1>4, <1>5, <1>6, <1>7, <1>8

(* Taking the parts off one after the other, or two at once.               *)
LEMMA DropTwo ==
  ASSUME NEW g \in Seq(Bytes), NEW k
  PROVE  /\ Drop(Parts(Ret \o g, k), 4) = Parts(g, k)
         /\ Drop(Parts(Ver \o g, k), 15) = Parts(g, k)
         /\ Drop(Parts((Ret \o Ver) \o g, k), 19) = Parts(g, k)
         /\ Drop(Parts((Ret \o Ver) \o g, k), 4) = Parts(Ver \o g, k)
         /\ (Ret \o Ver) \o g = Ret \o (Ver \o g)
         /\ Ver \o g \in Seq(Bytes)
         /\ Drop(Parts(Ret, k), 4) = Parts(<<>>, k)
         /\ Drop(Parts(Ver, k), 15) = Parts(<<>>, k)
         /\ Drop(Parts(Ret \o Ver, k), 19) = Parts(<<>>, k)
<1>1. Ret \in Seq(Bytes) /\ Len(Ret) = 4 /\ Ver \in Seq(Bytes) /\ Len(Ver) = 15
  BY PartLengths
<1>2. Ret \o Ver \in Seq(Bytes) /\ Len(Ret \o Ver) = 19
  BY RetVer
<1>3. Ver \o g \in Seq(Bytes)
  BY <1>1, ConcatProperties
<1>4. (Ret \o Ver) \o g = Ret \o (Ver \o g)
  BY <1>1, ConcatAssociative
<1>5. Drop(Parts(Ret \o g, k), Len(Ret)) = Parts(g, k)
  BY <1>1, DropFront
<1>6. Drop(Parts(Ver \o g, k), Len(Ver)) = Parts(g, k)
  BY <1>1, DropFront
<1>7. Drop(Parts((Ret \o Ver) \o g, k), Len(Ret \o Ver)) = Parts(g, k)
  BY <1>2, DropFront
<1>8. Drop(Parts(Ret \o (Ver \o g), k), Len(Ret)) = Parts(Ver \o g, k)
  BY <1>1, <1>3, DropFront
<1>9. /\ Drop(Parts(Ret, k), Len(Ret)) = Parts(<<>>, k)
      /\ Drop(Parts(Ver, k), Len(Ver)) = Parts(<<>>, k)
      /\ Drop(Parts(Ret \o Ver, k), Len(Ret \o Ver)) = Parts(<<>>, k)
  BY <1>1, <1>2, DropAll
<1>. QED  BY <1>1, <1>2, <1>3, <1>4, <1>5, <1>6, <1>7, <1>8, <1>9

-----------------------------------------------------------------------------
(* 3.3: whatever is in clear goes, and the cipher is the body.             *)
LEMMA Right33 ==
  ASSUME NEW s \in Shapes("3.3"), s.kind # "heartbeat"
  PROVE  Peeled("3.3", s) = Parts(<<>>, Json(s.body))
<1>1. /\ s.kind \in {"answer", "push"}
      /\ s.ret \in BOOLEAN /\ s.ver \in BOOLEAN /\ s.body \in Nat
      /\ s.kind = "answer" => s.ret
      /\ s.kind = "push" => (s.ret => s.ver)
  BY ShapeKinds DEF Versions
<1>2. PICK k : k = Json(s.body)
  OBVIOUS
<1>3. Payload("3.3", s) = Parts(When(s.ret, Ret) \o When(s.ver, Ver), k)
  BY <1>1, <1>2, PayloadIs
<1>4. CipherSize(k) \in Nat
  BY <1>1, <1>2, PartLengths, CipherSizes
<1>5. /\ Ret \in Seq(Bytes) /\ Len(Ret) = 4 /\ Ret # <<>>
      /\ Ver \in Seq(Bytes) /\ Len(Ver) = 15
      /\ <<>> \in Seq(Bytes) /\ Len(<<>>) = 0
      /\ <<>> \o Ver = Ver /\ Ret \o <<>> = Ret /\ <<>> \o <<>> = <<>>
  BY RetVer
<1>6. Ret \o Ver \in Seq(Bytes) /\ Len(Ret \o Ver) = 19 /\ (Ret \o Ver)[1] = "0"
  BY RetVer
<1>7. IsPrefix(Ver, Ver) /\ ~IsPrefix(Ver, Ret \o Ver) /\ ~IsPrefix(Ver, <<>>)
  BY <1>5, <1>6, VerPrefix
<1>8. CASE s.ret /\ s.ver
  <2>1. Payload("3.3", s) = Parts(Ret \o Ver, k)
    BY <1>3, <1>8 DEF When
  <2>2. Size(Parts(Ret \o Ver, k)) >= 4
    <3>1. Size(Parts(Ret \o Ver, k)) = Len(Ret \o Ver) + CipherSize(k)
      BY SizeIs, Zenon
    <3>. QED  BY <1>4, <1>6, <3>1
  <2>3. Drop(Parts(Ret \o Ver, k), 4) = Parts(Ver, k)
    BY <1>5, DropFront
  <2>4. Drop(Parts(Ver, k), 15) = Parts(<<>>, k) /\ Drop(Parts(Ret \o Ver, k), 19) = Parts(<<>>, k)
    BY <1>5, DropTwo
  <2>5. Response33(Parts(Ret \o Ver, k)) = Parts(<<>>, k)
    BY <1>7, <2>2, <2>3, <2>4, PartsIs DEF Response33, DropVer33
  <2>6. Request33(Parts(Ret \o Ver, k)) = Parts(<<>>, k)
    BY <1>7, <2>2, <2>3, <2>4, PartsIs DEF Request33
  <2>. QED  BY <1>2, <2>1, <2>5, <2>6 DEF Peeled
<1>9. CASE s.ret /\ ~s.ver
  <2>1. Payload("3.3", s) = Parts(Ret, k)
    BY <1>3, <1>5, <1>9 DEF When
  <2>2. Size(Parts(Ret, k)) >= 4
    <3>1. Size(Parts(Ret, k)) = Len(Ret) + CipherSize(k)
      BY SizeIs, Zenon
    <3>. QED  BY <1>4, <1>5, <3>1
  <2>3. Drop(Parts(Ret, k), 4) = Parts(<<>>, k)
    BY <1>5, DropTwo
  <2>4. Response33(Parts(Ret, k)) = Parts(<<>>, k)
    BY <1>7, <2>2, <2>3, PartsIs DEF Response33, DropVer33
  <2>. QED  BY <1>1, <1>2, <1>9, <2>1, <2>4 DEF Peeled
<1>10. CASE ~s.ret /\ s.ver
  <2>1. Payload("3.3", s) = Parts(Ver, k)
    BY <1>3, <1>5, <1>10 DEF When
  <2>2. Drop(Parts(Ver, k), 15) = Parts(<<>>, k)
    BY <1>5, DropTwo
  <2>3. Request33(Parts(Ver, k)) = Parts(<<>>, k)
    BY <1>7, <2>2, PartsIs DEF Request33
  <2>. QED  BY <1>1, <1>2, <1>10, <2>1, <2>3 DEF Peeled
<1>11. CASE ~s.ret /\ ~s.ver
  <2>1. Payload("3.3", s) = Parts(<<>>, k)
    BY <1>3, <1>5, <1>11 DEF When
  <2>2. Drop(Parts(<<>>, k), 4).clear = <<>>
    BY <1>5, PartsIs DEF Drop, Garbage
  <2>3. Request33(Parts(<<>>, k)) = Parts(<<>>, k)
    BY <1>7, <2>2, PartsIs DEF Request33
  <2>. QED  BY <1>1, <1>2, <1>11, <2>1, <2>3 DEF Peeled
<1>. QED  BY <1>1, <1>8, <1>9, <1>10, <1>11

(* 3.4: the return code shows in the size, and the header is in the        *)
(* cipher.                                                                 *)
LEMMA Right34 ==
  ASSUME NEW s \in Shapes("3.4"), s.kind # "heartbeat"
  PROVE  Peeled("3.4", s) = Parts(<<>>, When(s.ver, Ver) \o Json(s.body))
<1>1. /\ s.kind \in {"answer", "push"}
      /\ s.ret \in BOOLEAN /\ s.ver \in BOOLEAN /\ s.body \in Nat
  BY ShapeKinds DEF Versions
<1>2. PICK k : k = When(s.ver, Ver) \o Json(s.body)
  OBVIOUS
<1>3. Payload("3.4", s) = Parts(When(s.ret, Ret), k)
  BY <1>1, <1>2, PayloadIs
<1>4. CipherSize(k) \in Nat /\ CipherSize(k) % 16 = 0 /\ (CipherSize(k) + 4) % 16 = 4
  <2>1. When(s.ver, Ver) \in Seq(Bytes) /\ Json(s.body) \in Seq(Bytes)
    BY <1>1, PartLengths, WhenLength
  <2>2. k \in Seq(Bytes)
    BY <1>2, <2>1, ConcatProperties
  <2>. QED  BY <2>2, CipherSizes
<1>5. Len(Ret) = 4 /\ Len(<<>>) = 0 /\ <<>> \in Seq(Bytes)
  BY PartLengths, EmptySeq
<1>6. CASE s.ret
  <2>1. Payload("3.4", s) = Parts(Ret, k)
    BY <1>3, <1>6 DEF When
  <2>2. Size(Parts(Ret, k)) = CipherSize(k) + 4
    <3>1. Size(Parts(Ret, k)) = Len(Ret) + CipherSize(k)
      BY SizeIs, Zenon
    <3>. QED  BY <1>4, <1>5, <3>1
  <2>3. Drop(Parts(Ret, k), 4) = Parts(<<>>, k)
    BY <1>5, DropTwo
  <2>. QED  BY <1>1, <1>2, <1>4, <2>1, <2>2, <2>3 DEF Peeled, Response34, Request34
<1>7. CASE ~s.ret
  <2>1. Payload("3.4", s) = Parts(<<>>, k)
    BY <1>3, <1>7 DEF When
  <2>2. Size(Parts(<<>>, k)) = CipherSize(k)
    BY <1>4, <1>5, SizeIs
  <2>. QED  BY <1>1, <1>2, <1>4, <2>1, <2>2 DEF Peeled, Response34, Request34
<1>. QED  BY <1>1, <1>6, <1>7

-----------------------------------------------------------------------------
(* 3.5: all is in clear, and the parts are told apart by their bytes.      *)

(* Where a version header is seen: "3." with a brace 15 bytes further.     *)
LEMMA VerAtIs ==
  ASSUME NEW c \in Seq(Bytes), NEW m \in Nat
  PROVE  VerAt(Parts(c, <<>>), m)
           <=> /\ m + 15 < Len(c)
               /\ c[m + 1] = "3" /\ c[m + 2] = "."
               /\ c[m + 16] = "{"
<1>1. Len(c) \in Nat
  BY LenProperties
<1>2. Size(Parts(c, <<>>)) = Len(c) /\ Parts(c, <<>>).clear = c
  <2>1. Size(Parts(c, <<>>)) = Len(c) + 0
    BY SizeIs, Zenon
  <2>. QED  BY <1>1, <2>1, PartsIs
<1>3. CASE m + 15 < Len(c)
  <2>1. m + 2 <= Len(c) /\ Len(c) > m + 15
    BY <1>1, <1>3
  <2>2. SubSeq(c, m + 1, m + 2) = <<"3", ".">> <=> c[m + 1] = "3" /\ c[m + 2] = "."
    BY <2>1, PairIs
  <2>. QED  BY <1>2, <1>3, <2>1, <2>2 DEF VerAt
<1>4. CASE ~(m + 15 < Len(c))
  <2>1. ~(Len(c) > m + 15)
    BY <1>1, <1>4
  <2>. QED  BY <1>2, <1>4, <2>1 DEF VerAt
<1>. QED  BY <1>3, <1>4

(* ... at the front, and behind a return code.                             *)
LEMMA VerAtFront ==
  ASSUME NEW c \in Seq(Bytes)
  PROVE  VerAt(Parts(c, <<>>), 0) <=> 15 < Len(c) /\ c[1] = "3" /\ c[2] = "." /\ c[16] = "{"
<1>1. VerAt(Parts(c, <<>>), 0)
        <=> 0 + 15 < Len(c) /\ c[0 + 1] = "3" /\ c[0 + 2] = "." /\ c[0 + 16] = "{"
  BY VerAtIs
<1>2. 0 + 15 = 15 /\ 0 + 1 = 1 /\ 0 + 2 = 2 /\ 0 + 16 = 16
  OBVIOUS
<1>. QED  BY <1>1, <1>2

LEMMA VerAtFifth ==
  ASSUME NEW c \in Seq(Bytes)
  PROVE  VerAt(Parts(c, <<>>), 4) <=> 19 < Len(c) /\ c[5] = "3" /\ c[6] = "." /\ c[20] = "{"
<1>1. VerAt(Parts(c, <<>>), 4)
        <=> 4 + 15 < Len(c) /\ c[4 + 1] = "3" /\ c[4 + 2] = "." /\ c[4 + 16] = "{"
  BY VerAtIs
<1>2. 4 + 15 = 19 /\ 4 + 1 = 5 /\ 4 + 2 = 6 /\ 4 + 16 = 20
  OBVIOUS
<1>. QED  BY <1>1, <1>2

(* The bytes of a text behind a return code, and behind a header.          *)
LEMMA RetFront ==
  ASSUME NEW g \in Seq(Bytes)
  PROVE  /\ Ret \o g \in Seq(Bytes) /\ Len(Ret \o g) = Len(g) + 4
         /\ (Ret \o g)[1] = "0"
         /\ \A i \in 1..Len(g) : (Ret \o g)[i + 4] = g[i]
<1>1. PICK f, c : f = Ret /\ c = f \o g
  OBVIOUS
<1>2. f \in Seq(Bytes) /\ Len(f) = 4 /\ f[1] = "0" /\ Len(g) \in Nat
  BY <1>1, PartLengths, PartBytes, LenProperties
<1>3. /\ c \in Seq(Bytes) /\ Len(c) = Len(f) + Len(g)
      /\ \A i \in 1..Len(f) : c[i] = f[i]
      /\ \A i \in 1..Len(g) : c[Len(f) + i] = g[i]
  <2>1. f \in Seq(Bytes) /\ c = f \o g
    BY <1>1, <1>2
  <2>. QED  BY <2>1, Joined
<1>4. c[1] = "0"
  <2>1. 1 \in 1..Len(f)
    BY <1>2
  <2>. QED  BY <1>2, <1>3, <2>1
<1>5. ASSUME NEW i \in 1..Len(g) PROVE c[i + 4] = g[i]
  <2>1. Len(f) + i = i + 4
    BY <1>2
  <2>. QED  BY <1>3, <2>1
<1>6. Len(c) = Len(g) + 4
  BY <1>2, <1>3
<1>. QED  BY <1>1, <1>3, <1>4, <1>5, <1>6

LEMMA VerFront ==
  ASSUME NEW g \in Seq(Bytes)
  PROVE  /\ Ver \o g \in Seq(Bytes) /\ Len(Ver \o g) = Len(g) + 15
         /\ (Ver \o g)[1] = "3" /\ (Ver \o g)[2] = "."
         /\ \A i \in 1..Len(g) : (Ver \o g)[i + 15] = g[i]
<1>1. PICK f, c : f = Ver /\ c = f \o g
  OBVIOUS
<1>2. f \in Seq(Bytes) /\ Len(f) = 15 /\ f[1] = "3" /\ f[2] = "." /\ Len(g) \in Nat
  BY <1>1, PartLengths, PartBytes, LenProperties
<1>3. /\ c \in Seq(Bytes) /\ Len(c) = Len(f) + Len(g)
      /\ \A i \in 1..Len(f) : c[i] = f[i]
      /\ \A i \in 1..Len(g) : c[Len(f) + i] = g[i]
  <2>1. f \in Seq(Bytes) /\ c = f \o g
    BY <1>1, <1>2
  <2>. QED  BY <2>1, Joined
<1>4. c[1] = "3" /\ c[2] = "."
  <2>1. 1 \in 1..Len(f) /\ 2 \in 1..Len(f)
    BY <1>2
  <2>. QED  BY <1>2, <1>3, <2>1
<1>5. ASSUME NEW i \in 1..Len(g) PROVE c[i + 15] = g[i]
  <2>1. Len(f) + i = i + 15
    BY <1>2
  <2>. QED  BY <1>3, <2>1
<1>6. Len(c) = Len(g) + 15
  BY <1>2, <1>3
<1>. QED  BY <1>1, <1>3, <1>4, <1>5, <1>6

(* The four forms of a body on 3.5.                                        *)
Headed(n) == Ver \o Json(n)
Coded(n) == Ret \o Json(n)
Full(n) == Ret \o Headed(n)

(* The bytes of each that the code looks at.                               *)
LEMMA FormBytes ==
  ASSUME NEW n \in Nat
  PROVE  /\ Json(n) \in Seq(Bytes) /\ Len(Json(n)) = n
         /\ Headed(n) \in Seq(Bytes) /\ Len(Headed(n)) = n + 15
         /\ Coded(n) \in Seq(Bytes) /\ Len(Coded(n)) = n + 4
         /\ Full(n) \in Seq(Bytes) /\ Len(Full(n)) = n + 19
         /\ Headed(n)[1] = "3" /\ Headed(n)[2] = "."
         /\ Coded(n)[1] = "0" /\ Full(n)[1] = "0"
         /\ Full(n)[5] = "3" /\ Full(n)[6] = "."
         /\ n # 0 => /\ Json(n)[1] = "{" /\ Headed(n)[16] = "{"
                     /\ Coded(n)[5] = "{" /\ Full(n)[20] = "{"
         /\ n > 19 => Json(n)[5] = "j"
<1>1. Json(n) \in Seq(Bytes) /\ Len(Json(n)) = n
  BY PartLengths
<1>2. n # 0 => 1 \in 1..n /\ Json(n)[1] = "{"
  <2>1. n # 0 => n > 0 /\ 1 \in 1..n
    OBVIOUS
  <2>. QED  BY <2>1, PartBytes
<1>3. n > 19 => Json(n)[5] = "j"
  <2>1. n > 19 => 5 \in 2..n
    OBVIOUS
  <2>. QED  BY <2>1, PartBytes
<1>4. /\ Headed(n) \in Seq(Bytes) /\ Len(Headed(n)) = n + 15
      /\ Headed(n)[1] = "3" /\ Headed(n)[2] = "."
      /\ \A i \in 1..n : Headed(n)[i + 15] = Json(n)[i]
  BY <1>1, VerFront DEF Headed
<1>5. n # 0 => Headed(n)[16] = "{"
  <2>1. n # 0 => Headed(n)[1 + 15] = Json(n)[1]
    BY <1>2, <1>4
  <2>2. 1 + 15 = 16
    OBVIOUS
  <2>. QED  BY <1>2, <2>1, <2>2
<1>6. /\ Coded(n) \in Seq(Bytes) /\ Len(Coded(n)) = n + 4 /\ Coded(n)[1] = "0"
      /\ \A i \in 1..n : Coded(n)[i + 4] = Json(n)[i]
  BY <1>1, RetFront DEF Coded
<1>7. n # 0 => Coded(n)[5] = "{"
  <2>1. n # 0 => Coded(n)[1 + 4] = Json(n)[1]
    BY <1>2, <1>6
  <2>2. 1 + 4 = 5
    OBVIOUS
  <2>. QED  BY <1>2, <2>1, <2>2
<1>8. /\ Full(n) \in Seq(Bytes) /\ Len(Full(n)) = Len(Headed(n)) + 4 /\ Full(n)[1] = "0"
      /\ \A i \in 1..Len(Headed(n)) : Full(n)[i + 4] = Headed(n)[i]
  BY <1>4, RetFront DEF Full
<1>9. Full(n)[5] = "3" /\ Full(n)[6] = "." /\ (n # 0 => Full(n)[20] = "{")
  <2>1. /\ 1 \in 1..Len(Headed(n)) /\ 2 \in 1..Len(Headed(n))
        /\ n # 0 => 16 \in 1..Len(Headed(n))
    BY <1>4
  <2>2. /\ Full(n)[1 + 4] = Headed(n)[1] /\ Full(n)[2 + 4] = Headed(n)[2]
        /\ n # 0 => Full(n)[16 + 4] = Headed(n)[16]
    BY <1>8, <2>1
  <2>3. 1 + 4 = 5 /\ 2 + 4 = 6 /\ 16 + 4 = 20
    OBVIOUS
  <2>. QED  BY <1>4, <1>5, <2>2, <2>3
<1>10. Len(Full(n)) = n + 19
  BY <1>4, <1>8
<1>. QED  BY <1>1, <1>2, <1>3, <1>4, <1>5, <1>6, <1>7, <1>8, <1>9, <1>10

(* What is peeled off each form leaves the body.                           *)
LEMMA FormDrops ==
  ASSUME NEW n \in Nat
  PROVE  /\ Drop(Parts(Coded(n), <<>>), 4) = Parts(Json(n), <<>>)
         /\ Drop(Parts(Headed(n), <<>>), 15) = Parts(Json(n), <<>>)
         /\ Drop(Parts(Full(n), <<>>), 19) = Parts(Json(n), <<>>)
         /\ Drop(Parts(Full(n), <<>>), 4) = Parts(Headed(n), <<>>)
         /\ Full(n) = (Ret \o Ver) \o Json(n)
<1>1. PICK g : g = Json(n)
  OBVIOUS
<1>2. g \in Seq(Bytes)
  BY <1>1, PartLengths
<1>3. /\ Drop(Parts(Ret \o g, <<>>), 4) = Parts(g, <<>>)
      /\ Drop(Parts(Ver \o g, <<>>), 15) = Parts(g, <<>>)
      /\ Drop(Parts((Ret \o Ver) \o g, <<>>), 19) = Parts(g, <<>>)
      /\ Drop(Parts((Ret \o Ver) \o g, <<>>), 4) = Parts(Ver \o g, <<>>)
      /\ (Ret \o Ver) \o g = Ret \o (Ver \o g)
  BY <1>2, DropTwo
<1>. QED  BY <1>1, <1>3, Zenon DEF Coded, Headed, Full

(* How long each is.                                                       *)
LEMMA FormSizes ==
  ASSUME NEW n \in Nat
  PROVE  /\ Size(Parts(Coded(n), <<>>)) = n + 4
         /\ Size(Parts(Headed(n), <<>>)) = n + 15
         /\ Size(Parts(Full(n), <<>>)) = n + 19
         /\ Size(Parts(Json(n), <<>>)) = n
<1>1. /\ Size(Parts(Coded(n), <<>>)) = Len(Coded(n)) + 0
      /\ Size(Parts(Headed(n), <<>>)) = Len(Headed(n)) + 0
      /\ Size(Parts(Full(n), <<>>)) = Len(Full(n)) + 0
      /\ Size(Parts(Json(n), <<>>)) = Len(Json(n)) + 0
  BY SizeIs, Zenon
<1>2. /\ Len(Coded(n)) = n + 4 /\ Len(Headed(n)) = n + 15
      /\ Len(Full(n)) = n + 19 /\ Len(Json(n)) = n
  BY FormBytes
<1>. QED  BY <1>1, <1>2

(* A header is seen in the forms that have one, where it is.               *)
LEMMA FormHeaders ==
  ASSUME NEW n \in Nat
  PROVE  /\ ~VerAt(Parts(Json(n), <<>>), 0) /\ ~VerAt(Parts(Json(n), <<>>), 4)
         /\ ~VerAt(Parts(Coded(n), <<>>), 0) /\ ~VerAt(Parts(Coded(n), <<>>), 4)
         /\ ~VerAt(Parts(Full(n), <<>>), 0)
         /\ n # 0 => VerAt(Parts(Full(n), <<>>), 4) /\ VerAt(Parts(Headed(n), <<>>), 0)
<1>1. Json(n) \in Seq(Bytes) /\ Headed(n) \in Seq(Bytes) /\ Coded(n) \in Seq(Bytes) /\ Full(n) \in Seq(Bytes)
  BY FormBytes
<1>2. /\ Len(Json(n)) = n /\ Len(Headed(n)) = n + 15
      /\ Len(Coded(n)) = n + 4 /\ Len(Full(n)) = n + 19
  BY FormBytes
<1>3. n # 0 => /\ Json(n)[1] = "{" /\ Headed(n)[16] = "{"
               /\ Coded(n)[5] = "{" /\ Full(n)[20] = "{"
  BY FormBytes
<1>4. ~VerAt(Parts(Json(n), <<>>), 0)
  <2>1. CASE n = 0
    <3>1. ~(15 < Len(Json(n)))
      BY <1>2, <2>1
    <3>. QED  BY <1>1, <3>1, VerAtFront
  <2>2. CASE n # 0
    <3>1. Json(n)[1] # "3"
      BY <1>3, <2>2
    <3>. QED  BY <1>1, <3>1, VerAtFront
  <2>. QED  BY <2>1, <2>2
<1>5. ~VerAt(Parts(Json(n), <<>>), 4)
  <2>1. ~(19 < Len(Json(n))) \/ Json(n)[5] # "3"
    BY FormBytes
  <2>. QED  BY <1>1, <2>1, VerAtFifth
<1>6. ~VerAt(Parts(Coded(n), <<>>), 0)
  <2>1. Coded(n)[1] # "3"
    BY FormBytes
  <2>. QED  BY <1>1, <2>1, VerAtFront
<1>7. ~VerAt(Parts(Coded(n), <<>>), 4)
  <2>1. CASE n = 0
    <3>1. ~(19 < Len(Coded(n)))
      BY <1>2, <2>1
    <3>. QED  BY <1>1, <3>1, VerAtFifth
  <2>2. CASE n # 0
    <3>1. Coded(n)[5] # "3"
      BY <1>3, <2>2
    <3>. QED  BY <1>1, <3>1, VerAtFifth
  <2>. QED  BY <2>1, <2>2
<1>8. ~VerAt(Parts(Full(n), <<>>), 0)
  <2>1. Full(n)[1] # "3"
    BY FormBytes
  <2>. QED  BY <1>1, <2>1, VerAtFront
<1>9. ASSUME n # 0 PROVE VerAt(Parts(Full(n), <<>>), 4)
  <2>1. 19 < Len(Full(n))
    BY <1>2, <1>9
  <2>2. Full(n)[5] = "3" /\ Full(n)[6] = "." /\ Full(n)[20] = "{"
    BY <1>3, <1>9, FormBytes
  <2>. QED  BY <1>1, <2>1, <2>2, VerAtFifth
<1>10. ASSUME n # 0 PROVE VerAt(Parts(Headed(n), <<>>), 0)
  <2>1. 15 < Len(Headed(n))
    BY <1>2, <1>10
  <2>2. Headed(n)[1] = "3" /\ Headed(n)[2] = "." /\ Headed(n)[16] = "{"
    BY <1>3, <1>10, FormBytes
  <2>. QED  BY <1>1, <2>1, <2>2, VerAtFront
<1>. QED  BY <1>4, <1>5, <1>6, <1>7, <1>8, <1>9, <1>10

(* 3.5: what is peeled off leaves the body, for an answer and for a push.  *)
LEMMA Right35 ==
  ASSUME NEW s \in Shapes("3.5"), s.kind # "heartbeat"
  PROVE  Peeled("3.5", s) = Parts(Json(s.body), <<>>)
<1>1. PICK n : n = s.body
  OBVIOUS
<1>2. /\ s.kind \in {"answer", "push"}
      /\ s.ret \in BOOLEAN /\ s.ver \in BOOLEAN /\ n \in Nat
      /\ s.kind = "answer" => s.ret
      /\ s.kind = "answer" => (s.ver => n # 0)
      /\ s.kind = "push" => n # 0
  BY <1>1, ShapeKinds DEF Versions
<1>3. Payload("3.5", s) = Parts((When(s.ret, Ret) \o When(s.ver, Ver)) \o Json(n), <<>>)
  BY <1>1, <1>2, PayloadIs
<1>4. CASE s.ret /\ s.ver
  <2>1. n # 0
    BY <1>2, <1>4
  <2>2. Payload("3.5", s) = Parts(Full(n), <<>>)
    BY <1>2, <1>3, <1>4, FormDrops DEF When
  <2>3. Size(Parts(Full(n), <<>>)) >= 4
    BY <1>2, FormSizes
  <2>4. Response35(Parts(Full(n), <<>>)) = Parts(Json(n), <<>>)
    BY <1>2, <2>1, <2>3, FormDrops, FormHeaders DEF Response35
  <2>5. Request35(Parts(Full(n), <<>>)) = Parts(Json(n), <<>>)
    BY <1>2, <2>1, FormDrops, FormHeaders DEF Request35
  <2>. QED  BY <1>1, <2>2, <2>4, <2>5 DEF Peeled
<1>5. CASE s.ret /\ ~s.ver
  <2>1. Payload("3.5", s) = Parts(Coded(n), <<>>)
    BY <1>3, <1>5, RetVer DEF When, Coded
  <2>2. Size(Parts(Coded(n), <<>>)) >= 4 /\ (n # 0 => Size(Parts(Coded(n), <<>>)) > 4)
    BY <1>2, FormSizes
  <2>3. Response35(Parts(Coded(n), <<>>)) = Parts(Json(n), <<>>)
    BY <1>2, <2>2, FormDrops, FormHeaders DEF Response35
  <2>4. ASSUME n # 0 PROVE Request35(Parts(Coded(n), <<>>)) = Parts(Json(n), <<>>)
    <3>1. Coded(n)[1] = "0" /\ Coded(n)[5] = "{"
      BY <1>2, <2>4, FormBytes
    <3>2. Parts(Coded(n), <<>>).clear = Coded(n)
      BY PartsIs, Zenon
    <3>3. /\ Parts(Coded(n), <<>>).clear[1] # "{" /\ Parts(Coded(n), <<>>).clear[5] = "{"
          /\ Size(Parts(Coded(n), <<>>)) > 4
      BY <2>2, <2>4, <3>1, <3>2
    <3>. QED  BY <1>2, <3>3, FormDrops, FormHeaders DEF Request35
  <2>. QED  BY <1>1, <1>2, <2>1, <2>3, <2>4 DEF Peeled
<1>6. CASE ~s.ret /\ s.ver
  <2>1. n # 0 /\ s.kind = "push"
    BY <1>2, <1>6
  <2>2. Payload("3.5", s) = Parts(Headed(n), <<>>)
    BY <1>3, <1>6, RetVer DEF When, Headed
  <2>3. Request35(Parts(Headed(n), <<>>)) = Parts(Json(n), <<>>)
    BY <1>2, <2>1, FormDrops, FormHeaders DEF Request35
  <2>. QED  BY <1>1, <2>1, <2>2, <2>3 DEF Peeled
<1>7. CASE ~s.ret /\ ~s.ver
  <2>1. n # 0 /\ s.kind = "push"
    BY <1>2, <1>7
  <2>2. <<>> \o Json(n) = Json(n)
    BY <1>2, PartLengths, ConcatEmptySeq
  <2>3. Payload("3.5", s) = Parts(Json(n), <<>>)
    BY <1>3, <1>7, <2>2, RetVer DEF When
  <2>4. Parts(Json(n), <<>>).clear[1] = "{"
    <3>1. Json(n)[1] = "{"
      BY <1>2, <2>1, FormBytes
    <3>2. Parts(Json(n), <<>>).clear = Json(n)
      BY PartsIs, Zenon
    <3>. QED  BY <3>1, <3>2
  <2>5. Request35(Parts(Json(n), <<>>)) = Parts(Json(n), <<>>)
    BY <1>2, <2>4, FormHeaders DEF Request35
  <2>. QED  BY <1>1, <2>1, <2>3, <2>5 DEF Peeled
<1>. QED  BY <1>2, <1>4, <1>5, <1>6, <1>7

-----------------------------------------------------------------------------
(* The body of each protocol is what the device put in.                    *)
LEMMA ContentRight ==
  ASSUME NEW v \in Versions, NEW h, h.shape \in Shapes(v), Sound(h)
  PROVE  Content(v, h) = h.shape.body
<1>1. PICK s, n : s = h.shape /\ n = s.body
  OBVIOUS
<1>2. /\ s \in Shapes(v) /\ h.flaw # "key" /\ n \in Nat
      /\ s.kind = "heartbeat" => n = 0
      /\ s.ver \in BOOLEAN
      /\ s.kind # "heartbeat" => (s.ver => n # 0)
  BY <1>1, ShapeKinds DEF Sound
<1>3. CASE s.kind = "heartbeat"
  BY <1>1, <1>2, <1>3 DEF Content
<1>. DEFINE k == Json(n)
<1>4. /\ k \in Seq(Bytes) /\ Len(k) = n /\ (n = 0 <=> k = <<>>)
      /\ CipherSize(k) \in Nat /\ (CipherSize(k) = 0 <=> n = 0)
      /\ n # 0 => Parsed(k) = n
      /\ <<>> \in Seq(Bytes) /\ Len(<<>>) = 0
  <2>1. k \in Seq(Bytes) /\ Len(k) = n
    BY <1>2, PartLengths
  <2>2. <<>> \in Seq(Bytes) /\ Len(<<>>) = 0
    BY EmptySeq
  <2>3. n = 0 <=> k = <<>>
    BY <1>2, <2>1, <2>2, EmptySeq
  <2>4. CipherSize(k) \in Nat /\ (CipherSize(k) = 0 <=> k = <<>>)
    BY <2>1, CipherSizes
  <2>. QED  BY <1>2, <2>1, <2>2, <2>3, <2>4, ParsedJson
<1>5. CASE s.kind # "heartbeat" /\ v = "3.3"
  <2>1. Peeled(v, s) = Parts(<<>>, k)
    BY <1>1, <1>2, <1>5, Right33
  <2>2. Size(Parts(<<>>, k)) = CipherSize(k)
    <3>1. Size(Parts(<<>>, k)) = Len(<<>>) + CipherSize(k)
      BY SizeIs, Zenon
    <3>. QED  BY <1>4, <3>1
  <2>3. Body33(Parts(<<>>, k), TRUE) = n
    BY <1>4, <2>2, PartsIs DEF Body33
  <2>4. Content(v, h) = Body33(Peeled(v, s), TRUE)
    BY <1>1, <1>2, <1>5 DEF Content
  <2>. QED  BY <1>1, <2>1, <2>3, <2>4
<1>6. CASE s.kind # "heartbeat" /\ v = "3.4"
  <2>. DEFINE w == When(s.ver, Ver) \o k
  <2>1. Peeled(v, s) = Parts(<<>>, w)
    BY <1>1, <1>2, <1>6, Right34
  <2>2. Content(v, h) = Body34(Peeled(v, s))
    BY <1>1, <1>6 DEF Content
  <2>3. CASE s.ver
    <3>1. w = Ver \o k
      BY <2>3 DEF When
    <3>2. /\ Ver \o k \in Seq(Bytes) /\ IsPrefix(Ver, Ver \o k)
          /\ Len(Ver \o k) = n + 15
      BY <1>4, VerFront, VerPrefix
    <3>3. SubSeq(Ver \o k, 16, Len(Ver \o k)) = k
      <4>1. SubSeq(Ver \o k, Len(Ver) + 1, Len(Ver \o k)) = k
        <5>1. PICK f, g, c : f = Ver /\ g = k /\ c = f \o g
          OBVIOUS
        <5>2. f \in Seq(Bytes) /\ g \in Seq(Bytes) /\ c = f \o g
          BY <1>4, <5>1, PartLengths
        <5>3. SubSeq(c, Len(f) + 1, Len(c)) = g
          BY <5>2, Joined
        <5>. QED  BY <5>1, <5>3
      <4>2. Len(Ver) + 1 = 16
        BY PartLengths
      <4>. QED  BY <4>1, <4>2
    <3>4. Size(Parts(<<>>, w)) # 0
      <4>1. Size(Parts(<<>>, w)) = Len(<<>>) + CipherSize(w)
        BY SizeIs, Zenon
      <4>2. w # <<>>
        BY <1>2, <1>4, <3>1, <3>2
      <4>3. CipherSize(w) \in Nat /\ CipherSize(w) # 0
        BY <3>1, <3>2, <4>2, CipherSizes
      <4>. QED  BY <1>4, <4>1, <4>3
    <3>5. Body34(Parts(<<>>, w)) = Parsed(k)
      <4>1. Parts(<<>>, w).clear = <<>> /\ Parts(<<>>, w).cipher = Ver \o k
        BY <3>1, PartsIs
      <4>. QED  BY <3>2, <3>3, <3>4, <4>1 DEF Body34
    <3>. QED  BY <1>1, <1>2, <1>4, <1>6, <2>1, <2>2, <2>3, <3>5
  <2>4. CASE ~s.ver
    <3>1. w = k
      BY <1>4, <2>4, ConcatEmptySeq DEF When
    <3>2. Size(Parts(<<>>, k)) = CipherSize(k)
      <4>1. Size(Parts(<<>>, k)) = Len(<<>>) + CipherSize(k)
        BY SizeIs, Zenon
      <4>. QED  BY <1>4, <4>1
    <3>3. ~IsPrefix(Ver, k)
      <4>1. n = 0 \/ k[1] = "{"
        BY <1>2, FormBytes
      <4>. QED  BY <1>4, <4>1, VerPrefix
    <3>4. Body34(Parts(<<>>, k)) = n
      BY <1>4, <3>2, <3>3, PartsIs DEF Body34
    <3>. QED  BY <1>1, <2>1, <2>2, <3>1, <3>4
  <2>. QED  BY <1>2, <2>3, <2>4
<1>7. CASE s.kind # "heartbeat" /\ v = "3.5"
  <2>1. Peeled(v, s) = Parts(k, <<>>)
    BY <1>1, <1>2, <1>7, Right35
  <2>2. Size(Parts(k, <<>>)) = n
    BY <1>2, FormSizes
  <2>3. Body35(Parts(k, <<>>)) = n
    BY <1>4, <2>2, PartsIs DEF Body35
  <2>4. Content(v, h) = Body35(Peeled(v, s))
    BY <1>1, <1>7 DEF Content
  <2>. QED  BY <1>1, <2>1, <2>3, <2>4
<1>. QED  BY <1>3, <1>5, <1>6, <1>7 DEF Versions

(* A frame in the stream has one of the shapes of its protocol.            *)
LEMMA HeadShape ==
  ASSUME NEW v \in Versions, NEW h \in Heads[v]
  PROVE  h.shape \in Shapes(v)
<1>. DEFINE right == {Frame(s, f, SizeField(v, s)) : s \in Shapes(v), f \in Flaws \cup {"none"}}
            wrong(s) == {Frame(s, "size", c) : c \in Claims(v, s)}
<1>1. Heads[v] = right \cup UNION {wrong(s) : s \in Shapes(v)}
  BY DEF Heads
<1>2. CASE h \in right
  BY <1>2 DEF Frame
<1>3. CASE \E s \in Shapes(v) : h \in wrong(s)
  BY <1>3 DEF Frame
<1>. HIDE DEF right, wrong
<1>. QED  BY <1>1, <1>2, <1>3

(* Whoever reads a frame that is dispatched gets the body the device put   *)
(* in, whichever parts the frame came in, of any length, on each protocol; *)
(* a frame of another key is only dispatched on 3.3, which cannot tell.    *)
THEOREM BodiesReadRight == Spec => []ReadRight
<1>1. ASSUME Inv PROVE ReadRight
  <2>. SUFFICES ASSUME Whole
                PROVE  Passes(version, head) /\ (Sound(head) => Content(version, head) = head.shape.body)
    BY DEF ReadRight
  <2>1. version \in Versions /\ head \in Heads[version] /\ buf \in Nat
    BY <1>1, FramesAssumption DEF Inv, TypeOK
  <2>2. Passes(version, head)
    BY <2>1, DecodeIs DEF Whole
  <2>3. Sound(head) => Content(version, head) = head.shape.body
    BY <2>1, HeadShape, ContentRight
  <2>. QED  BY <2>2, <2>3
<1>. QED  BY <1>1, Safety, PTL
=============================================================================
