----------------------------- MODULE GtpMessage -----------------------------
(***************************************************************************)
(* The GTP-U message of a packet that was buffered: its length, what       *)
(* Encode writes into a buffer of that length, and what WritePacket puts   *)
(* into it; against a reader that follows TS 29.281.                       *)
(*                                                                         *)
(* A message is [Flags, Type, TEID, SequenceNumber, NPDUNumber, Exts,      *)
(* Payload], numbers as their bytes; an extension is [PDUType, QoSFlowID]. *)
(* Positions of the buffer count from 0.                                   *)
(***************************************************************************)
EXTENDS Integers, Sequences, FiniteSets

MsgTypeTPDU == 255

IsSet(flags, bit) == (flags \div bit) % 2 = 1
HasSequence(m)    == IsSet(m.Flags, 2)
HasNPDUNumber(m)  == IsSet(m.Flags, 1)

(* The last byte of the word of four that p lies in.                       *)
Align(p) == 4 * ((p + 4) \div 4) - 1

FieldsEnd(m) ==
  8 + (IF HasSequence(m) THEN 2 ELSE 0) + (IF HasNPDUNumber(m) THEN 1 ELSE 0)

ExtLen == 4

(* Mutant: the length is not aligned as the encoding is.                   *)
MessageLenUnaligned(m) ==
  FieldsEnd(m) + ExtLen * Len(m.Exts) + 1 + Len(m.Payload)

(* Message.Len.                                                            *)
MessageLen(m) == Align(FieldsEnd(m)) + ExtLen * Len(m.Exts) + 1 + Len(m.Payload)

(* PDUSessionContainer.Encode: four bits of the QFI.                       *)
Container(e) == <<133, 1, (e.PDUType * 16) % 256, e.QoSFlowID % 16>>

-----------------------------------------------------------------------------
(* Where Encode puts extension k, the mark of their end, and the payload.  *)
ExtAt(m, k)   == Align(FieldsEnd(m)) + ExtLen * (k - 1)
EndAt(m)      == ExtAt(m, Len(m.Exts) + 1)
PayloadAt(m)  == EndAt(m) + 1

(* bytes, seen as written at position at; and what of them position p gets.*)
Covers(at, bytes, p) == p >= at /\ p - at + 1 \in DOMAIN bytes
LengthBytes(m) == <<((MessageLen(m) - 8) \div 256) % 256, (MessageLen(m) - 8) % 256>>

(* Message.Encode: a position nothing is written to stays 0; what is past  *)
(* the end of the buffer is cut off (copy) or stops the program.           *)
Encode(m) ==
  LET head == <<m.Flags, m.Type>> \o LengthBytes(m) \o m.TEID
      seq  == IF HasSequence(m) THEN m.SequenceNumber ELSE <<>>
      npdu == IF HasNPDUNumber(m) THEN <<m.NPDUNumber>> ELSE <<>>
      opt  == head \o seq \o npdu
  IN  [p \in 0..(MessageLen(m) - 1) |->
         CASE Covers(0, opt, p) -> opt[p + 1]
           [] \E k \in DOMAIN m.Exts : p \in ExtAt(m, k)..(ExtAt(m, k) + ExtLen - 1) ->
                LET k == CHOOSE j \in DOMAIN m.Exts : p \in ExtAt(m, j)..(ExtAt(m, j) + ExtLen - 1)
                IN  Container(m.Exts[k])[p - ExtAt(m, k) + 1]
           [] Covers(PayloadAt(m), m.Payload, p) -> m.Payload[p - PayloadAt(m) + 1]
           [] OTHER -> 0]

-----------------------------------------------------------------------------
NoPacket == <<"far param not found">>

(* Gtp5g.WritePacket, for a FAR with or without a tunnel (Creation has one *)
(* or none) and a PDR with or without a QER (qer has one or none).         *)
WritePacket(far, qer, pkt) ==
  IF far.Creation = <<>> THEN NoPacket
  ELSE [addr |-> <<far.Creation[1].PeerAddr, far.Creation[1].Port>>,
        msg |-> [Flags |-> 52, Type |-> MsgTypeTPDU, TEID |-> far.Creation[1].TEID,
                 SequenceNumber |-> <<0, 0>>, NPDUNumber |-> 0, Payload |-> pkt,
                 Exts |-> [k \in DOMAIN qer |-> [PDUType |-> 0, QoSFlowID |-> qer[k].QFI]]]]

-----------------------------------------------------------------------------
(* A reader after TS 29.281, 5: if one of E, S and PN is set all optional  *)
(* fields are there; the number at byte 11 and at the end of every         *)
(* extension header is the type of the next, and its first byte says how   *)
(* many words it has.                                                      *)
At(b, p) == IF p \in DOMAIN b THEN b[p] ELSE 0
Past(b, p) == IF At(b, p) = 0 THEN p ELSE p + 4 * At(b, p + 1)
Walk(b, n) ==
  LET at[k \in 0..n] == IF k = 0 THEN 11 ELSE Past(b, at[k - 1])
  IN  at
EndOf(b) == 8 + 256 * At(b, 2) + At(b, 3)
ExtsOf(b) ==
  LET at == Walk(b, EndOf(b))
  IN  IF IsSet(At(b, 0), 4) THEN Cardinality({k \in 0..EndOf(b) : At(b, at[k]) # 0}) ELSE 0
BodyAt(b) ==
  IF At(b, 0) % 8 = 0 THEN 8 ELSE Walk(b, EndOf(b))[ExtsOf(b)] + 1
Decode(b) ==
  LET at   == Walk(b, EndOf(b))
      body == BodyAt(b)
  IN  [TEID |-> <<At(b, 4), At(b, 5), At(b, 6), At(b, 7)>>,
       Seq  |-> IF IsSet(At(b, 0), 2) THEN <<At(b, 8), At(b, 9)>> ELSE <<>>,
       NPDU |-> IF IsSet(At(b, 0), 1) THEN <<At(b, 10)>> ELSE <<>>,
       Exts |-> [k \in 1..ExtsOf(b) |-> [type |-> At(b, at[k - 1]), QFI |-> At(b, at[k - 1] + 3)]],
       Payload |-> [k \in 1..(EndOf(b) - body) |-> At(b, body + k - 1)]]

Expected(m) ==
  [TEID |-> m.TEID, Seq |-> IF HasSequence(m) THEN m.SequenceNumber ELSE <<>>,
   NPDU |-> IF HasNPDUNumber(m) THEN <<m.NPDUNumber>> ELSE <<>>,
   Exts |-> [k \in DOMAIN m.Exts |-> [type |-> 133, QFI |-> m.Exts[k].QoSFlowID]],
   Payload |-> m.Payload]

(* What the encoding can say: some optional field is announced, extensions *)
(* by E, a number for N-PDU only beside a sequence number, QFIs of 4 bits. *)
Encodable(m) ==
  /\ m.Flags % 8 # 0
  /\ m.Exts # <<>> => IsSet(m.Flags, 4)
  /\ HasNPDUNumber(m) => HasSequence(m)
  /\ \A k \in DOMAIN m.Exts : m.Exts[k].QoSFlowID < 16

(* msg.go:35, :52: Len and Encode add up the optional fields apart from    *)
(* each other.  A receiver reads from an encodable message what was put    *)
(* into it, every byte of the payload included.                            *)
ReceiverReads(m) == Encodable(m) => Decode(Encode(m)) = Expected(m)

(* gtp5g.go:1237: a packet that leaves the queue reaches the peer of its   *)
(* FAR whole, under the tunnel of the FAR and, if the PDR has a QER, with  *)
(* its QFI, as far as that has four bits.  Without a tunnel nothing leaves.*)
PacketArrives(far, qer, pkt) ==
  LET w == WritePacket(far, qer, pkt)
      d == Decode(Encode(w.msg))
  IN  IF far.Creation = <<>> THEN w = NoPacket
      ELSE /\ w.addr = <<far.Creation[1].PeerAddr, far.Creation[1].Port>>
           /\ d.TEID = far.Creation[1].TEID /\ d.Payload = pkt
           /\ Len(d.Exts) = Len(qer)
           /\ \A k \in DOMAIN qer : qer[k].QFI < 16 => d.Exts[k].QFI = qer[k].QFI
=============================================================================
