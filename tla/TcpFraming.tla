------------------------------ MODULE TcpFraming ------------------------------
(***************************************************************************)
(* The frame format of TcpEventChannel over a TCP byte stream              *)
(* (src/src/pwr/tcpEventChannel.cc, getEvent :183-212, sendEvent          *)
(* :214-239).                                                              *)
(*                                                                         *)
(* sendEvent writes a frame as three writes: the event type, the payload   *)
(* length, the payload.  getEvent reads it back with three reads and       *)
(* asserts that each returned the whole field.  TCP keeps the bytes in     *)
(* order but not the boundaries of the writes: a read returns whatever     *)
(* has arrived, up to the size asked for.  Here the network moves any      *)
(* non-empty prefix of the bytes sent into the receiver's buffer.          *)
(*                                                                         *)
(* A byte is known by the frame it belongs to and the field it is part of. *)
(* sizeof(EventType) and sizeof(size_t) are TypeBytes and LenBytes.        *)
(***************************************************************************)
EXTENDS Naturals, Sequences

CONSTANTS
  TypeBytes, \* sizeof(EventType)
  LenBytes,  \* sizeof(size_t)
  Lens       \* payload lengths of the frames the sender sends, in order

ASSUME /\ TypeBytes \in Nat \ {0} /\ LenBytes \in Nat \ {0}
       /\ Lens \in Seq(Nat)

FrameIdx == 1 .. Len(Lens)
Byte     == [f : FrameIdx, part : {"type", "len", "body"}]
MaxLen   == CHOOSE m \in {Lens[i] : i \in FrameIdx} : \A i \in FrameIdx : Lens[i] <= m

\* field p of frame k as the bytes write() puts on the stream
Field(k, p, n) == [i \in 1 .. n |-> [f |-> k, part |-> p]]

\* frame k as sendEvent writes it (:223, :228, :232)
Bytes(k) ==
  Field(k, "type", TypeBytes) \o Field(k, "len", LenBytes) \o Field(k, "body", Lens[k])

VARIABLES
  sent,      \* frames sendEvent has written whole
  closed,    \* the sender's descriptor is closed
  wire,      \* bytes written and not yet arrived
  rcv,       \* bytes arrived and not yet read
  pc,        \* the receiver: "type", "len", "body" (the read it is in),
             \* "eof" (getEvent returned NULL) or "aborted" (an assert)
  cur,       \* bytes of the frame getEvent is reading
  length,    \* the length getEvent decoded
  delivered  \* frames getEvent returned, each as the bytes it consumed

vars == <<sent, closed, wire, rcv, pc, cur, length, delivered>>

-----------------------------------------------------------------------------
(* The receiver                                                            *)

\* a read() can return: there are bytes, or the peer closed and none
\* will come (a read of 0 bytes never blocks)
CanRead(want) == want = 0 \/ rcv # <<>> \/ (closed /\ wire = <<>>)

\* read( m_fd, p, want ): the arrived bytes, up to want
Take(want) == SubSeq(rcv, 1, IF want <= Len(rcv) THEN want ELSE Len(rcv))

\* a variant of DecodeLen that counts the length field in the length
DecodeLenWithField(b) ==
  IF b = Field(b[1].f, "len", LenBytes) THEN Lens[b[1].f] + LenBytes ELSE MaxLen + 1

\* the length the bytes of a size_t read encode: the frame's length when
\* they are the length field of one frame, else a value they do not encode
DecodeLen(b) ==
  IF b = Field(b[1].f, "len", LenBytes) THEN Lens[b[1].f] ELSE MaxLen + 1

\* getEvent (:183-196): read the type; 0 bytes returns NULL, anything but
\* sizeof(type) fails the assert at :196
ReadType ==
  LET got == Take(TypeBytes) IN
  /\ pc = "type" /\ CanRead(TypeBytes)
  /\ rcv' = SubSeq(rcv, Len(got) + 1, Len(rcv))
  /\ pc' = CASE Len(got) = 0         -> "eof"
             [] Len(got) = TypeBytes -> "len"
             [] OTHER                -> "aborted"
  /\ cur' = got
  /\ UNCHANGED <<sent, closed, wire, length, delivered>>

\* a variant of ReadLen without the assert at :200 (as built with NDEBUG):
\* a short read leaves part of length uninitialized, any value
ReadLenNoAssert ==
  LET got == Take(LenBytes) IN
  /\ pc = "len" /\ CanRead(LenBytes)
  /\ rcv' = SubSeq(rcv, Len(got) + 1, Len(rcv))
  /\ pc' = "body"
  /\ length' \in IF Len(got) = LenBytes THEN {DecodeLen(got)} ELSE 0 .. MaxLen + 1
  /\ cur' = cur \o got
  /\ UNCHANGED <<sent, closed, wire, delivered>>

\* getEvent (:198-200): read the length; anything but sizeof(length)
\* fails the assert at :200
ReadLen ==
  LET got == Take(LenBytes) IN
  /\ pc = "len" /\ CanRead(LenBytes)
  /\ rcv' = SubSeq(rcv, Len(got) + 1, Len(rcv))
  /\ pc' = IF Len(got) = LenBytes THEN "body" ELSE "aborted"
  /\ length' = IF Len(got) = LenBytes THEN DecodeLen(got) ELSE length
  /\ cur' = cur \o got
  /\ UNCHANGED <<sent, closed, wire, delivered>>

\* getEvent (:204-211): read the payload into SerialBuf buf(length); a
\* short read fails the assert at :206, else m_allocFunc builds the event
\* and the owner's loop calls getEvent again
ReadBody ==
  LET got == Take(length) IN
  /\ pc = "body" /\ CanRead(length)
  /\ rcv' = SubSeq(rcv, Len(got) + 1, Len(rcv))
  /\ pc' = IF Len(got) = length THEN "type" ELSE "aborted"
  /\ delivered' = IF Len(got) = length THEN Append(delivered, cur \o got)
                                       ELSE delivered
  /\ cur' = <<>>
  /\ UNCHANGED <<sent, closed, wire, length>>

-----------------------------------------------------------------------------
(* The sender and the network                                              *)

\* sendEvent (:214-239): the three writes of the next frame; a write on a
\* blocking socket transfers all its bytes
SendEvent ==
  /\ ~closed /\ sent < Len(Lens)
  /\ wire' = wire \o Bytes(sent + 1)
  /\ sent' = sent + 1
  /\ UNCHANGED <<closed, rcv, pc, cur, length, delivered>>

\* the sending process dies inside sendEvent after the type write or
\* after the length write, before the frame is whole; the kernel closes
\* its socket
SendCrash ==
  /\ ~closed /\ sent < Len(Lens)
  /\ \E n \in {TypeBytes, TypeBytes + LenBytes} :
       /\ n < Len(Bytes(sent + 1))
       /\ wire' = wire \o SubSeq(Bytes(sent + 1), 1, n)
  /\ closed' = TRUE
  /\ UNCHANGED <<sent, rcv, pc, cur, length, delivered>>

\* the sender closes between frames (TcpEventChannel::close)
SenderClose ==
  /\ ~closed
  /\ closed' = TRUE
  /\ UNCHANGED <<sent, wire, rcv, pc, cur, length, delivered>>

\* TCP hands the receiver the next k bytes, k >= 1
Arrive ==
  /\ wire # <<>>
  /\ \E k \in 1 .. Len(wire) :
       /\ rcv' = rcv \o SubSeq(wire, 1, k)
       /\ wire' = SubSeq(wire, k + 1, Len(wire))
  /\ UNCHANGED <<sent, closed, pc, cur, length, delivered>>

Init ==
  /\ sent = 0 /\ closed = FALSE
  /\ wire = <<>> /\ rcv = <<>>
  /\ pc = "type" /\ cur = <<>> /\ length = 0
  /\ delivered = <<>>

Next ==
  \/ ReadType \/ ReadLen \/ ReadBody
  \/ SendEvent \/ SendCrash \/ SenderClose \/ Arrive

Spec == Init /\ [][Next]_vars

-----------------------------------------------------------------------------
(* Properties                                                              *)

TypeOK ==
  /\ sent \in 0 .. Len(Lens)
  /\ pc \in {"type", "len", "body", "eof", "aborted"}
  /\ length \in 0 .. MaxLen
  /\ cur \in Seq(Byte) /\ delivered \in Seq(Seq(Byte))

\* spec.md 4.3 (an event channel carries events between daemons): every
\* event getEvent returns (:211) is, in order, exactly a frame sendEvent
\* wrote, its type, length and payload, never bytes of two frames or a
\* field cut short; the asserts at :196, :200 and :206 are what stop a
\* short read from becoming a corrupt event.
FramesIntact ==
  /\ Len(delivered) <= sent
  /\ \A i \in 1 .. Len(delivered) : delivered[i] = Bytes(i)
====
