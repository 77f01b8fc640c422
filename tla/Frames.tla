------------------------------- MODULE Frames -------------------------------
(***************************************************************************)
(* The byte stream under one connection: _read_loop (client.py:537-590)    *)
(* over the three codecs of protocol/. TCP cuts the device's frames        *)
(* anywhere and glues them together; the loop buffers, decodes what is     *)
(* whole and drops the connection at the first frame that cannot be        *)
(* right.                                                                  *)
(*                                                                         *)
(* The stream never ends, so the model holds only the frame at the front   *)
(* of the buffer, and how many bytes of it and of what follows are there.  *)
(* A body is its length; a payload is the bytes in clear and the plaintext *)
(* of the cipher after them. A checksum that does not belong fails.        *)
(***************************************************************************)
EXTENDS Integers, Sequences, SequencesExt

CONSTANTS
  None,       \* Python's None
  Bodies,     \* the lengths of the JSON texts the device sends
  MaxFrame,   \* _MAX_FRAME_SIZE
  ReadChunk,  \* _READ_CHUNK
  MaxBuffer,  \* _MAX_READ_BUFFER
  Excess      \* by how much a corrupt size field may exceed the true one

Versions == {"3.3", "3.4", "3.5"}

(* Bytes before the payload, around it, and the least a codec looks at;    *)
(* the size field counts the trailer, and not the last 4 bytes on 3.5.     *)
Trailer == [v \in Versions |-> CASE v = "3.3" -> 8 [] v = "3.4" -> 36 [] OTHER -> 28]
Around == [v \in Versions |-> IF v = "3.5" THEN 22 ELSE 16]
Least == [v \in Versions |-> Around[v] + Trailer[v]]

ASSUME FramesAssumption ==
  /\ Bodies \subseteq Nat \ {0, 1}
  /\ ReadChunk \in Nat \ {0} /\ Excess \in Nat \ {0}
  /\ MaxFrame \in Nat /\ \A n \in Bodies : n + 71 <= MaxFrame
  /\ 71 <= MaxFrame
  /\ MaxBuffer \in Nat /\ MaxFrame + ReadChunk + 22 <= MaxBuffer
  /\ None \notin {"peer", "overflow", "bad"}

VARIABLES
  version,  \* the protocol of the session
  head,     \* the frame at the front of the buffer, sent or still to be sent
  buf,      \* len(buf)
  pc,       \* "read", "decode" (inside the while), or "ended"
  why       \* why the loop ended: "peer", "overflow", "bad" or None

vars == <<version, head, buf, pc, why>>

-----------------------------------------------------------------------------
(* What the device puts into a frame: an answer or a push, with a return   *)
(* code or not, with a version header or not, a body or none; the shapes   *)
(* are the ones the docstrings of split_*_payload list.                    *)
Shapes(v) ==
  {[kind |-> "heartbeat", ret |-> FALSE, ver |-> FALSE, body |-> 0]}
  \cup {s \in [kind : {"answer"}, ret : BOOLEAN, ver : BOOLEAN, body : Bodies \cup {0}] :
          /\ s.ret \/ v = "3.4"
          /\ s.ver => s.body # 0}
  \cup {s \in [kind : {"push"}, ret : BOOLEAN, ver : BOOLEAN, body : Bodies] :
          v = "3.3" /\ s.ret => s.ver}

Ret == <<"0", "0", "0", "0">>
Ver == <<"3", ".">> \o [i \in 1..13 |-> "v"]
Json(n) == [i \in 1..n |-> IF i = 1 THEN "{" ELSE "j"]
When(b, bytes) == IF b THEN bytes ELSE <<>>

(* 3.3 has its header before the cipher, 3.4 inside; on 3.5 decode() has   *)
(* taken the cipher off, and all of it is in clear.                        *)
Payload(v, s) ==
  [clear  |-> When(s.ret, Ret) \o When(s.ver /\ v # "3.4", Ver) \o When(v = "3.5", Json(s.body)),
   cipher |-> When(s.ver /\ v = "3.4", Ver) \o When(v # "3.5", Json(s.body))]

(* PKCS#7 always pads.                                                     *)
CipherSize(plain) == IF plain = <<>> THEN 0 ELSE 16 * (Len(plain) \div 16 + 1)
Size(p) == Len(p.clear) + CipherSize(p.cipher)

SizeField(v, s) == Size(Payload(v, s)) + Trailer[v]

(* One frame in the stream: at most one thing is wrong with it. "key" is a *)
(* frame made with another key.                                            *)
Flaws == {"prefix", "suffix", "check", "key"}
Frame(s, f, c) == [shape |-> s, flaw |-> f, claim |-> c]
Claims(v, s) == {SizeField(v, s) - 1, SizeField(v, s) + Excess, MaxFrame + 1, MaxBuffer}
Heads == [v \in Versions |->
  {Frame(s, f, SizeField(v, s)) : s \in Shapes(v), f \in Flaws \cup {"none"}}
  \cup UNION {{Frame(s, "size", c) : c \in Claims(v, s)} : s \in Shapes(v)}]

Sound(h) == h.flaw = "none"
Total(v, h) == Around[v] + h.claim

(* 3.3 has no keyed trailer: a frame of another key is a frame.            *)
Passes(v, h) == Sound(h) \/ (h.flaw = "key" /\ v = "3.3")

Init ==
  /\ version \in Versions /\ head \in Heads[version]
  /\ buf = 0 /\ pc = "read" /\ why = None

-----------------------------------------------------------------------------
(* decode(): the first complaint in each codec's order. A wrong size field *)
(* puts the suffix and the checksum elsewhere, and neither fits.           *)
Decode33(h, have) ==
  IF have < Least["3.3"] THEN "wait"
  ELSE IF h.flaw = "prefix" \/ h.claim > MaxFrame THEN "protocol"
  ELSE IF have < Total("3.3", h) THEN "wait"
  ELSE IF h.flaw \in {"suffix", "size", "check"} THEN "protocol" ELSE "frame"

Decode34(h, have) ==
  IF have < Least["3.4"] THEN "wait"
  ELSE IF h.flaw = "prefix" \/ h.claim > MaxFrame \/ h.claim < Trailer["3.4"]
  THEN "protocol"
  ELSE IF have < Total("3.4", h) THEN "wait"
  ELSE IF h.flaw \in {"suffix", "size"} THEN "protocol"
  ELSE IF h.flaw \in {"check", "key"} THEN "auth" ELSE "frame"

Decode35(h, have) ==
  IF have < Least["3.5"] THEN "wait"
  ELSE IF h.flaw = "prefix" \/ h.claim > MaxFrame THEN "protocol"
  ELSE IF have < Total("3.5", h) THEN "wait"
  ELSE IF h.flaw \in {"suffix", "size"} THEN "protocol"
  ELSE IF h.flaw \in {"check", "key"} THEN "auth" ELSE "frame"

(* Mutant of Decode: a frame in pieces is a malformed one.                 *)
DecodeTruncated(v, h, have) ==
  IF have < Least[v] THEN "wait"
  ELSE IF h.flaw = "prefix" \/ h.claim > MaxFrame \/ have < Total(v, h) THEN "protocol"
  ELSE IF Passes(v, h) THEN "frame" ELSE "auth"

(* The codec of the session.                                              *)
Decode(v, h, have) ==
  CASE v = "3.3" -> Decode33(h, have)
    [] v = "3.4" -> Decode34(h, have)
    [] v = "3.5" -> Decode35(h, have)

-----------------------------------------------------------------------------
(* split_*_payload: what is before the body is peeled off. Cutting into a  *)
(* cipher leaves garbage.                                                  *)
Garbage == [clear |-> <<>>, cipher |-> <<"?">>]
Drop(p, n) ==
  IF n <= Len(p.clear) THEN [p EXCEPT !.clear = SubSeq(@, n + 1, Len(@))] ELSE Garbage

DropVer33(p) == IF IsPrefix(Ver, p.clear) THEN Drop(p, 15) ELSE p

(* 3.5: 15 bytes that begin with "3." before a "{", from an offset on.     *)
VerAt(p, offset) ==
  /\ Size(p) > offset + 15
  /\ SubSeq(p.clear, offset + 1, offset + 2) = <<"3", ".">>
  /\ p.clear[offset + 16] = "{"

Response33(p) == DropVer33(IF Size(p) >= 4 THEN Drop(p, 4) ELSE p)
Response34(p) == IF Size(p) % 16 = 4 THEN Drop(p, 4) ELSE p
Response35(p) ==
  LET q == IF Size(p) >= 4 THEN Drop(p, 4) ELSE p
  IN IF VerAt(q, 0) THEN Drop(q, 15) ELSE q

Request33(p) ==
  IF IsPrefix(Ver, p.clear) THEN Drop(p, 15)
  ELSE IF Size(p) >= 4 /\ IsPrefix(Ver, Drop(p, 4).clear) THEN Drop(p, 19) ELSE p
Request34(p) == IF Size(p) % 16 = 4 THEN Drop(p, 4) ELSE p

(* Mutant of Request35: the header is looked for at the front only.        *)
Request35Front(p) ==
  IF VerAt(p, 0) THEN Drop(p, 15)
  ELSE IF Size(p) > 4 /\ p.clear[1] # "{" /\ p.clear[5] = "{" THEN Drop(p, 4) ELSE p

Request35(p) ==
  IF VerAt(p, 0) THEN Drop(p, 15)
  ELSE IF VerAt(p, 4) THEN Drop(p, 19)
  ELSE IF Size(p) > 4 /\ p.clear[1] # "{" /\ p.clear[5] = "{" THEN Drop(p, 4) ELSE p

(* json.loads: the length of the object, or what is raised.                *)
Parsed(text) == IF text # <<>> /\ Head(text) = "{" THEN Len(text) ELSE -1

(* decrypt_body: nothing is the empty object; bytes in clear are no cipher.*)
Body33(p, rightKey) ==
  IF Size(p) = 0 THEN 0
  ELSE IF p.clear # <<>> \/ ~rightKey THEN -1 ELSE Parsed(p.cipher)
Body34(p) ==
  IF Size(p) = 0 THEN 0
  ELSE IF p.clear # <<>> THEN -1
  ELSE Parsed(IF IsPrefix(Ver, p.cipher) THEN SubSeq(p.cipher, 16, Len(p.cipher)) ELSE p.cipher)
Body35(p) == IF Size(p) = 0 THEN 0 ELSE Parsed(p.clear)

Peeled(v, s) ==
  LET p == Payload(v, s)
  IN IF s.kind = "answer"
     THEN CASE v = "3.3" -> Response33(p) [] v = "3.4" -> Response34(p) [] OTHER -> Response35(p)
     ELSE CASE v = "3.3" -> Request33(p)  [] v = "3.4" -> Request34(p)  [] OTHER -> Request35(p)

(* What _dispatch, or the request it wakes, reads out of the frame. The    *)
(* heartbeat's answer is not read.                                         *)
Content(v, h) ==
  LET p == Peeled(v, h.shape)
  IN IF h.shape.kind = "heartbeat" THEN 0
     ELSE CASE v = "3.3" -> Body33(p, h.flaw # "key")
            [] v = "3.4" -> Body34(p)
            [] OTHER -> Body35(p)

-----------------------------------------------------------------------------
(* await reader.read(): any number of bytes up to the chunk, whatever      *)
(* frames they belong to; the cap is looked at before anything is decoded. *)
Receive ==
  /\ pc = "read"
  /\ \E n \in 1..ReadChunk : buf' = buf + n
  /\ IF buf' > MaxBuffer THEN pc' = "ended" /\ why' = "overflow"
                         ELSE pc' = "decode" /\ UNCHANGED why
  /\ UNCHANGED <<version, head>>

(* The next turn of the while will dispatch the frame at the front.        *)
Whole == pc = "decode" /\ buf >= 18 /\ Decode(version, head, buf) = "frame"

(* Mutant of Dispatch: one frame for every read.                          *)
DispatchOne ==
  /\ Whole
  /\ buf' = buf - Total(version, head)
  /\ head' \in Heads[version]
  /\ pc' = "read"
  /\ UNCHANGED <<version, why>>

Dispatch ==
  /\ Whole
  /\ buf' = buf - Total(version, head)
  /\ head' \in Heads[version]
  /\ UNCHANGED <<version, pc, why>>

(* Fewer than 18 bytes, or IncompleteFrame.                                *)
AwaitMore ==
  /\ pc = "decode" /\ (buf < 18 \/ Decode(version, head, buf) = "wait")
  /\ pc' = "read"
  /\ UNCHANGED <<version, head, buf, why>>

(* Mutant of BadFrame: the buffer is thrown away and the loop goes on in   *)
(* the middle of a frame, where nothing fits.                              *)
BadFrameGoesOn ==
  /\ pc = "decode" /\ buf >= 18 /\ Decode(version, head, buf) \in {"protocol", "auth"}
  /\ buf' = 0 /\ pc' = "read"
  /\ UNCHANGED <<version, head, why>>

(* ProtocolError or InvalidAuth: the buffer is cleared and the writer      *)
(* closed.                                                                 *)
BadFrame ==
  /\ pc = "decode" /\ buf >= 18 /\ Decode(version, head, buf) \in {"protocol", "auth"}
  /\ buf' = 0 /\ pc' = "ended" /\ why' = "bad"
  /\ UNCHANGED <<version, head>>

(* read() returns nothing or fails, or disconnect() ends the loop.         *)
PeerCloses ==
  /\ pc = "read"
  /\ pc' = "ended" /\ why' = "peer"
  /\ UNCHANGED <<version, head, buf>>

(* The next connection has a read loop, and a buffer, of its own.          *)
Reconnect ==
  /\ pc = "ended"
  /\ version' = version /\ head' \in Heads[version]
  /\ buf' = 0 /\ pc' = "read" /\ why' = None

Next == Receive \/ Dispatch \/ AwaitMore \/ BadFrame \/ PeerCloses \/ Reconnect

Spec == Init /\ [][Next]_vars

(* The loop itself runs on, and a device that keeps the connection open is *)
(* not silent for good: it answers heartbeats and polls. That it closes is *)
(* allowed at any time and promised at none.                               *)
FairSpec ==
  /\ Spec
  /\ WF_vars(Receive) /\ WF_vars(Dispatch) /\ WF_vars(AwaitMore) /\ WF_vars(BadFrame)

-----------------------------------------------------------------------------
(* The buffer never holds a frame's worth and a read more: the size field  *)
(* is refused long before the cap of the buffer would be.                  *)
TypeOK ==
  /\ version \in Versions /\ head \in Heads[version]
  /\ pc \in {"read", "decode", "ended"}
  /\ buf \in 0..(MaxFrame + 21 + (IF pc = "read" THEN 0 ELSE ReadChunk))
  /\ why \in {None, "peer", "bad", "overflow"} /\ (why = None <=> pc # "ended")

(* What is dispatched passed every check its protocol has, and whoever     *)
(* reads it gets exactly the body the device put in, in whatever shape it  *)
(* came, on each protocol.                                                 *)
ReadRight ==
  Whole => Passes(version, head) /\ (Sound(head) => Content(version, head) = head.shape.body)

(* However TCP cuts and glues, when the loop waits for bytes no whole      *)
(* frame is waiting in the buffer: an answer is not held back until the    *)
(* device happens to send something else.                                  *)
Drained == pc = "read" /\ Passes(version, head) => buf < Total(version, head)

(* The client ends a connection of its own accord only when the frame at   *)
(* the front is wrong; a good stream is never cut off, neither for being   *)
(* in pieces nor for the buffer's cap.                                     *)
EndsForCause == why # "overflow" /\ (why = "bad" => ~Passes(version, head))

(* As long as the device goes on talking, the stream does not get stuck,   *)
(* whatever a size field claims: again and again a frame is dispatched, or *)
(* the connection is over and can be made again.                           *)
Progress == []<>(pc = "ended") \/ []<><<Dispatch>>_vars
=============================================================================
