--------------------------- MODULE EncodingProofs ---------------------------
(* Proofs about what goes out byte by byte or attribute by attribute: GTP-U*)
(* messages, netlink attributes, flow descriptions.                        *)
EXTENDS GtpMessage, FlowDesc, Gtp5gRules, SequenceTheorems, FiniteSetTheorems, WellFoundedInduction, TLAPS

-----------------------------------------------------------------------------
(* Induction up to n, over a set rather than a predicate.                  *)
LEMMA UpTo ==
  ASSUME NEW n \in Nat, NEW T, 0 \in T, \A k \in 0..(n - 1) : k \in T => k + 1 \in T
  PROVE  0..n \subseteq T
<1> SUFFICES ASSUME (0..n) \ T # {}
             PROVE  FALSE
  OBVIOUS
<1>1. (0..n) \ T \subseteq Nat
  OBVIOUS
<1>2. PICK m \in (0..n) \ T : \A y \in (0..n) \ T : ~(<<y, m>> \in OpToRel(<, Nat))
  BY <1>1, WFMin, NatLessThanWellFounded, Zenon
<1>3. m - 1 \in 0..(n - 1) /\ m - 1 \in 0..n /\ m - 1 \in Nat /\ m \in Nat /\ m - 1 < m /\ (m - 1) + 1 = m
  OBVIOUS
<1>4. <<m - 1, m>> \in OpToRel(<, Nat)
  BY <1>3 DEF OpToRel
<1>5. m - 1 \in T
  BY <1>2, <1>3, <1>4
<1> QED
  BY <1>3, <1>5


Byte == 0..255

Message ==
  [Flags : Byte, Type : Byte, TEID : {b \in Seq(Byte) : Len(b) = 4},
   SequenceNumber : {b \in Seq(Byte) : Len(b) = 2}, NPDUNumber : Byte,
   Exts : Seq([PDUType : 0..15, QoSFlowID : Byte]), Payload : Seq(Byte)]

(* The fields before the extension headers, as Encode writes them.         *)
Fields(m) ==
  ((<<m.Flags, m.Type>> \o LengthBytes(m) \o m.TEID)
     \o (IF HasSequence(m) THEN m.SequenceNumber ELSE <<>>))
     \o (IF HasNPDUNumber(m) THEN <<m.NPDUNumber>> ELSE <<>>)

-----------------------------------------------------------------------------
(* The alignment never goes back, and by less than a word.                 *)
LEMMA AlignBounds ==
  ASSUME NEW p \in Nat
  PROVE  Align(p) \in Nat /\ p <= Align(p) /\ Align(p) <= p + 3
BY DEF Align

(* The two bytes of the length are bytes, and say the length.              *)
LEMMA LengthBytesOK ==
  ASSUME NEW n \in Nat
  PROVE  /\ (n \div 256) % 256 \in Byte /\ n % 256 \in Byte
         /\ n < 65536 => 256 * ((n \div 256) % 256) + (n % 256) = n
BY DEF Byte

(* The layout: fields, extension headers, their end, the payload.          *)
LayoutOK(m) ==
  /\ FieldsEnd(m) \in Nat /\ 8 <= FieldsEnd(m)
  /\ Align(FieldsEnd(m)) \in Nat /\ FieldsEnd(m) <= Align(FieldsEnd(m))
  /\ Len(m.Exts) \in Nat /\ DOMAIN m.Exts = 1..Len(m.Exts)
  /\ Len(m.Payload) \in Nat /\ DOMAIN m.Payload = 1..Len(m.Payload)
  /\ EndAt(m) \in Nat /\ EndAt(m) = Align(FieldsEnd(m)) + 4 * Len(m.Exts)
  /\ 8 <= EndAt(m) /\ FieldsEnd(m) <= EndAt(m) /\ EndAt(m) < MessageLen(m)
  /\ PayloadAt(m) \in Nat /\ PayloadAt(m) = EndAt(m) + 1
  /\ MessageLen(m) \in Nat /\ MessageLen(m) = PayloadAt(m) + Len(m.Payload)

(* Len and the positions of Encode add up to one layout.                   *)
LEMMA Layout ==
  ASSUME NEW m \in Message
  PROVE  LayoutOK(m)
<1>1. FieldsEnd(m) \in Nat /\ 8 <= FieldsEnd(m)
  BY DEF FieldsEnd
<1>2. /\ Len(m.Exts) \in Nat /\ DOMAIN m.Exts = 1..Len(m.Exts)
      /\ Len(m.Payload) \in Nat /\ DOMAIN m.Payload = 1..Len(m.Payload)
  BY DEF Message
<1>3. Align(FieldsEnd(m)) \in Nat /\ FieldsEnd(m) <= Align(FieldsEnd(m))
  BY <1>1, AlignBounds
<1> DEFINE A == Align(FieldsEnd(m))
<1>4. EndAt(m) = A + 4 * Len(m.Exts)
  BY <1>2, <1>3 DEF EndAt, ExtAt, ExtLen
<1>5. MessageLen(m) = A + 4 * Len(m.Exts) + 1 + Len(m.Payload)
  BY DEF MessageLen, ExtLen
<1> HIDE DEF A
<1>6. EndAt(m) \in Nat /\ FieldsEnd(m) <= EndAt(m) /\ 8 <= EndAt(m)
  BY <1>1, <1>2, <1>3, <1>4 DEF A
<1>7. PayloadAt(m) \in Nat /\ PayloadAt(m) = EndAt(m) + 1
  BY <1>6 DEF PayloadAt
<1>8. MessageLen(m) = PayloadAt(m) + Len(m.Payload)
  BY <1>2, <1>3, <1>4, <1>5, <1>6, <1>7 DEF A
<1>9. MessageLen(m) \in Nat /\ EndAt(m) < MessageLen(m)
  BY <1>2, <1>6, <1>7, <1>8
<1> QED
  BY <1>1, <1>2, <1>3, <1>4, <1>6, <1>7, <1>8, <1>9 DEF A, LayoutOK

(* A word is between the first and the last, and no two words overlap.     *)
LEMMA WordsApart ==
  ASSUME NEW a \in Nat, NEW n \in Nat, NEW k \in 1..n, NEW p \in Int,
         a + 4 * (k - 1) <= p, p <= a + 4 * (k - 1) + 3
  PROVE  /\ p \in Nat /\ a <= p /\ p < a + 4 * n
         /\ \A j \in 1..n : a + 4 * (j - 1) <= p /\ p <= a + 4 * (j - 1) + 3 => j = k
OBVIOUS

(* Where the extension headers are: a word each.                           *)
LEMMA ExtPlace ==
  ASSUME NEW m \in Message, NEW k \in DOMAIN m.Exts
  PROVE  /\ k \in Nat /\ 1 <= k /\ k <= Len(m.Exts)
         /\ ExtAt(m, k) \in Nat /\ ExtAt(m, k) = Align(FieldsEnd(m)) + 4 * (k - 1)
<1>1. k \in Nat /\ 1 <= k /\ k <= Len(m.Exts) /\ Align(FieldsEnd(m)) \in Nat
  BY Layout DEF LayoutOK
<1> QED
  BY <1>1 DEF ExtAt, ExtLen

(* The parts of the fields before the extension headers.                   *)
LEMMA PartsType ==
  ASSUME NEW m \in Message
  PROVE  /\ LengthBytes(m) \in Seq(Byte) /\ Len(LengthBytes(m)) = 2
         /\ m.TEID \in Seq(Byte) /\ Len(m.TEID) = 4
         /\ m.SequenceNumber \in Seq(Byte) /\ Len(m.SequenceNumber) = 2
         /\ m.Flags \in Byte /\ m.Type \in Byte /\ m.NPDUNumber \in Byte
<1>1. LayoutOK(m)
  BY Layout
<1>2. MessageLen(m) - 8 \in Nat
  <2>1. EndAt(m) \in Nat /\ MessageLen(m) \in Nat /\ 8 <= EndAt(m) /\ EndAt(m) < MessageLen(m)
    BY <1>1 DEF LayoutOK
  <2> QED
    BY <2>1
<1>3. LengthBytes(m) \in Seq(Byte) /\ Len(LengthBytes(m)) = 2
  <2> DEFINE n == MessageLen(m) - 8
  <2> HIDE DEF n
  <2>1. (n \div 256) % 256 \in Byte /\ n % 256 \in Byte
    BY <1>2, LengthBytesOK DEF n
  <2>2. <<(n \div 256) % 256, n % 256>> \in Seq(Byte)
    BY <2>1
  <2> QED
    BY <2>2 DEF LengthBytes, n
<1> QED
  BY <1>3 DEF Message

(* Appending keeps what is there.                                          *)
LEMMA Appended ==
  ASSUME NEW a \in Seq(Byte), NEW b \in Seq(Byte), Len(a) >= 4
  PROVE  /\ a \o b \in Seq(Byte) /\ Len(a \o b) = Len(a) + Len(b)
         /\ (a \o b)[3] = a[3] /\ (a \o b)[4] = a[4]
OBVIOUS

(* The length bytes are the third and the fourth.                          *)
LEMMA TwoAndTwo ==
  ASSUME NEW a \in Seq(Byte), NEW b \in Seq(Byte), Len(a) = 2, Len(b) = 2
  PROVE  /\ a \o b \in Seq(Byte) /\ Len(a \o b) = 4
         /\ (a \o b)[3] = b[1] /\ (a \o b)[4] = b[2]
<1>0. /\ a \o b \in Seq(Byte) /\ Len(a \o b) = Len(a) + Len(b)
      /\ \A i \in 1..Len(a) + Len(b) :
           (a \o b)[i] = IF i <= Len(a) THEN a[i] ELSE b[i - Len(a)]
  BY ConcatProperties
<1>1. \A i \in 1..4 : (a \o b)[i] = IF i <= 2 THEN a[i] ELSE b[i - 2]
  BY <1>0
<1>2. a \o b \in Seq(Byte) /\ Len(a \o b) = 4
  BY <1>0
<1>3. 3 - 2 = 1 /\ 4 - 2 = 2 /\ ~(3 <= 2) /\ ~(4 <= 2)
  OBVIOUS
<1> QED
  BY <1>1, <1>2, <1>3

(* The fields fill the buffer as far as FieldsEnd.                         *)
FieldsOK(m) ==
  /\ Fields(m) \in Seq(Byte) /\ Len(Fields(m)) = FieldsEnd(m)
  /\ Fields(m)[3] = LengthBytes(m)[1] /\ Fields(m)[4] = LengthBytes(m)[2]

(* They do so for every choice of optional fields.                         *)
LEMMA FieldsFill ==
  ASSUME NEW m \in Message
  PROVE  FieldsOK(m)
<1> DEFINE lb == LengthBytes(m)
           h2 == <<m.Flags, m.Type>>
           h4 == h2 \o lb
           h8 == h4 \o m.TEID
           seq == IF HasSequence(m) THEN m.SequenceNumber ELSE <<>>
           hs == h8 \o seq
           npdu == IF HasNPDUNumber(m) THEN <<m.NPDUNumber>> ELSE <<>>
<1>1. Fields(m) = hs \o npdu
  BY DEF Fields
<1>2. lb \in Seq(Byte) /\ Len(lb) = 2 /\ m.TEID \in Seq(Byte) /\ Len(m.TEID) = 4
  BY PartsType
<1>3. h2 \in Seq(Byte) /\ Len(h2) = 2
  BY PartsType
<1>4. seq \in Seq(Byte) /\ Len(seq) = IF HasSequence(m) THEN 2 ELSE 0
  <2>1. CASE HasSequence(m)
    BY <2>1, PartsType
  <2>2. CASE ~HasSequence(m)
    BY <2>2
  <2> QED
    BY <2>1, <2>2
<1>5. npdu \in Seq(Byte) /\ Len(npdu) = IF HasNPDUNumber(m) THEN 1 ELSE 0
  BY PartsType
<1> HIDE DEF lb, h2, seq, npdu
<1>6. h4 \in Seq(Byte) /\ Len(h4) = 4 /\ h4[3] = lb[1] /\ h4[4] = lb[2]
  BY <1>2, <1>3, TwoAndTwo
<1> HIDE DEF h4
<1>7. h8 \in Seq(Byte) /\ Len(h8) = 8 /\ h8[3] = h4[3] /\ h8[4] = h4[4]
  <2>1. Len(h4) >= 4 /\ Len(h4) + Len(m.TEID) = 8
    BY <1>2, <1>6
  <2> QED
    BY <1>2, <1>6, <2>1, Appended
<1> HIDE DEF h8
<1>8. hs \in Seq(Byte) /\ Len(hs) = 8 + Len(seq) /\ hs[3] = h8[3] /\ hs[4] = h8[4]
  <2>1. Len(h8) >= 4
    BY <1>7
  <2> QED
    BY <1>4, <1>7, <2>1, Appended
<1> HIDE DEF hs
<1>9. Len(hs) >= 4
  <2>1. Len(seq) \in Nat
    BY <1>4
  <2> QED
    BY <1>8, <2>1
<1>10. /\ hs \o npdu \in Seq(Byte) /\ Len(hs \o npdu) = Len(hs) + Len(npdu)
       /\ (hs \o npdu)[3] = hs[3] /\ (hs \o npdu)[4] = hs[4]
  BY <1>5, <1>8, <1>9, Appended
<1>11. Len(Fields(m)) = FieldsEnd(m)
  BY <1>1, <1>4, <1>5, <1>8, <1>10 DEF FieldsEnd
<1> QED
  BY <1>1, <1>6, <1>7, <1>8, <1>10, <1>11 DEF FieldsOK, lb

-----------------------------------------------------------------------------
(* The position of an extension header, and which one a position is in.    *)
InExt(m, k, p) == p \in ExtAt(m, k)..(ExtAt(m, k) + ExtLen - 1)

(* Encode, position by position.                                           *)
LEMMA EncodeAt ==
  ASSUME NEW m \in Message, NEW p \in 0..(MessageLen(m) - 1)
  PROVE  Encode(m)[p] =
           CASE Covers(0, Fields(m), p) -> Fields(m)[p + 1]
             [] \E k \in DOMAIN m.Exts : InExt(m, k, p) ->
                  LET k == CHOOSE j \in DOMAIN m.Exts : InExt(m, j, p)
                  IN  Container(m.Exts[k])[p - ExtAt(m, k) + 1]
             [] Covers(PayloadAt(m), m.Payload, p) -> m.Payload[p - PayloadAt(m) + 1]
             [] OTHER -> 0
BY DEF Encode, Fields, InExt

(* The fields end before the first extension header or the end mark.       *)
LEMMA FieldsApart ==
  ASSUME NEW m \in Message, NEW p \in Nat
  PROVE  Covers(0, Fields(m), p) <=> p < FieldsEnd(m)
<1>1. DOMAIN Fields(m) = 1..FieldsEnd(m) /\ FieldsEnd(m) \in Nat
  BY FieldsFill, Layout DEF FieldsOK, LayoutOK
<1> QED
  BY <1>1 DEF Covers

(* The extension headers lie between the fields and the end mark.          *)
LEMMA ExtsApart ==
  ASSUME NEW m \in Message, NEW k \in DOMAIN m.Exts, NEW p, InExt(m, k, p)
  PROVE  /\ p \in Nat /\ FieldsEnd(m) <= p /\ p < EndAt(m)
         /\ \A j \in DOMAIN m.Exts : InExt(m, j, p) => j = k
<1>1. LayoutOK(m)
  BY Layout
<1> DEFINE A == Align(FieldsEnd(m))
<1>2. A \in Nat /\ FieldsEnd(m) \in Nat /\ FieldsEnd(m) <= A
      /\ EndAt(m) = A + 4 * Len(m.Exts) /\ Len(m.Exts) \in Nat
  BY <1>1 DEF LayoutOK
<1>3. \A j \in DOMAIN m.Exts : j \in 1..Len(m.Exts) /\ ExtAt(m, j) = A + 4 * (j - 1)
  BY ExtPlace
<1> HIDE DEF A
<1>4. \A j \in DOMAIN m.Exts : InExt(m, j, p) =>
        p \in Int /\ A + 4 * (j - 1) <= p /\ p <= A + 4 * (j - 1) + 3
  BY <1>2, <1>3 DEF InExt, ExtLen
<1>5. /\ k \in 1..Len(m.Exts) /\ p \in Int
      /\ A + 4 * (k - 1) <= p /\ p <= A + 4 * (k - 1) + 3
  BY <1>3, <1>4
<1>6. /\ p \in Nat /\ A <= p /\ p < A + 4 * Len(m.Exts)
      /\ \A j \in 1..Len(m.Exts) : A + 4 * (j - 1) <= p /\ p <= A + 4 * (j - 1) + 3 => j = k
  BY <1>2, <1>5, WordsApart
<1>7. \A j \in DOMAIN m.Exts : InExt(m, j, p) => j = k
  BY <1>3, <1>4, <1>6
<1>8. FieldsEnd(m) <= p /\ p < EndAt(m)
  BY <1>2, <1>6
<1> QED
  BY <1>6, <1>7, <1>8

(* A field is written where no extension header and no payload is.         *)
LEMMA EncodeField ==
  ASSUME NEW m \in Message, NEW p \in Nat, p < FieldsEnd(m)
  PROVE  Encode(m)[p] = Fields(m)[p + 1]
<1>1. /\ FieldsEnd(m) \in Nat /\ FieldsEnd(m) <= EndAt(m) /\ EndAt(m) \in Nat
      /\ PayloadAt(m) = EndAt(m) + 1 /\ EndAt(m) < MessageLen(m) /\ MessageLen(m) \in Nat
  BY Layout DEF LayoutOK
<1>2. p \in 0..(MessageLen(m) - 1) /\ ~(p >= PayloadAt(m))
  BY <1>1
<1>3. Covers(0, Fields(m), p)
  BY FieldsApart
<1>4. ~Covers(PayloadAt(m), m.Payload, p)
  BY <1>2 DEF Covers
<1>5. \A k \in DOMAIN m.Exts : ~InExt(m, k, p)
  BY <1>1, ExtsApart
<1> QED
  BY <1>2, <1>3, <1>4, <1>5, EncodeAt

(* The length of a message can be said in its field of two bytes.          *)
LengthSaid(m) == MessageLen(m) - 8 < 65536

(* msg.go:35, :52: the header says the length of what follows it, as long  *)
(* as two bytes suffice.                                                   *)
THEOREM LengthRight ==
  ASSUME NEW m \in Message, LengthSaid(m)
  PROVE  256 * Encode(m)[2] + Encode(m)[3] = MessageLen(m) - 8
<1> DEFINE n == MessageLen(m) - 8
<1>1. /\ n \in Nat /\ n < 65536 /\ 8 <= FieldsEnd(m) /\ FieldsEnd(m) \in Nat
      /\ 2 \in 0..(MessageLen(m) - 1) /\ 3 \in 0..(MessageLen(m) - 1)
  BY Layout DEF LayoutOK, LengthSaid
<1>2. Encode(m)[2] = Fields(m)[2 + 1] /\ Encode(m)[3] = Fields(m)[3 + 1]
  BY <1>1, EncodeField
<1>3. Encode(m)[2] = Fields(m)[3] /\ Encode(m)[3] = Fields(m)[4]
  BY <1>2
<1>4. Fields(m)[3] = (n \div 256) % 256 /\ Fields(m)[4] = n % 256
  BY FieldsFill DEF FieldsOK, LengthBytes
<1> HIDE DEF n
<1>5. 256 * ((n \div 256) % 256) + (n % 256) = n
  BY <1>1, LengthBytesOK
<1> QED
  BY <1>3, <1>4, <1>5 DEF n

(* Every extension header is where the one before it ends, whole.          *)
THEOREM ExtensionWhole ==
  ASSUME NEW m \in Message, NEW k \in DOMAIN m.Exts, NEW i \in 1..4
  PROVE  Encode(m)[ExtAt(m, k) + i - 1] = Container(m.Exts[k])[i]
<1> DEFINE p == ExtAt(m, k) + i - 1
<1>1. LayoutOK(m)
  BY Layout
<1>3. ExtAt(m, k) \in Nat
  BY ExtPlace
<1>4. InExt(m, k, p) /\ p - ExtAt(m, k) + 1 = i
  BY <1>3 DEF InExt, ExtLen
<1> HIDE DEF p
<1>5. /\ p \in Nat /\ FieldsEnd(m) <= p /\ p < EndAt(m)
      /\ \A j \in DOMAIN m.Exts : InExt(m, j, p) => j = k
  BY <1>4, ExtsApart
<1>6. p \in 0..(MessageLen(m) - 1)
  <2>1. EndAt(m) \in Nat /\ MessageLen(m) \in Nat /\ EndAt(m) < MessageLen(m)
    BY <1>1 DEF LayoutOK
  <2> QED
    BY <1>5, <2>1
<1>7. ~Covers(0, Fields(m), p)
  BY <1>1, <1>5, FieldsApart DEF LayoutOK
<1> DEFINE K == CHOOSE j \in DOMAIN m.Exts : InExt(m, j, p)
<1>8. K = k
  BY <1>4, <1>5
<1>9. ~Covers(PayloadAt(m), m.Payload, p)
  <2>1. p < PayloadAt(m) /\ PayloadAt(m) \in Nat
    BY <1>1, <1>5 DEF LayoutOK
  <2> QED
    BY <1>5, <2>1 DEF Covers
<1>10. Encode(m)[p] = Container(m.Exts[K])[p - ExtAt(m, K) + 1]
  BY <1>4, <1>6, <1>7, <1>9, EncodeAt
<1> HIDE DEF K
<1> QED
  BY <1>4, <1>8, <1>10 DEF p

(* The mark after the last extension header is 0: no header follows.       *)
THEOREM EndMarked ==
  ASSUME NEW m \in Message
  PROVE  Encode(m)[EndAt(m)] = 0
<1>1. LayoutOK(m)
  BY Layout
<1>2. EndAt(m) \in 0..(MessageLen(m) - 1) /\ FieldsEnd(m) <= EndAt(m) /\ FieldsEnd(m) \in Nat
  <2>1. EndAt(m) \in Nat /\ MessageLen(m) \in Nat /\ EndAt(m) < MessageLen(m)
    BY <1>1 DEF LayoutOK
  <2> QED
    BY <1>1, <2>1 DEF LayoutOK
<1>3. ~Covers(0, Fields(m), EndAt(m))
  BY <1>2, FieldsApart
<1>4. \A k \in DOMAIN m.Exts : ~InExt(m, k, EndAt(m))
  BY <1>2, ExtsApart
<1>5. ~Covers(PayloadAt(m), m.Payload, EndAt(m))
  BY <1>1, <1>2 DEF Covers, LayoutOK
<1> QED
  BY <1>2, <1>3, <1>4, <1>5, EncodeAt

(* The payload follows the mark, whole, and ends with the buffer.          *)
THEOREM PayloadWhole ==
  ASSUME NEW m \in Message, NEW k \in 1..Len(m.Payload)
  PROVE  Encode(m)[PayloadAt(m) + k - 1] = m.Payload[k]
<1> DEFINE p == PayloadAt(m) + k - 1
<1>1. LayoutOK(m)
  BY Layout
<1>2. /\ EndAt(m) \in Nat /\ FieldsEnd(m) <= EndAt(m) /\ FieldsEnd(m) \in Nat
      /\ PayloadAt(m) \in Nat /\ PayloadAt(m) = EndAt(m) + 1
      /\ Len(m.Payload) \in Nat /\ DOMAIN m.Payload = 1..Len(m.Payload)
      /\ MessageLen(m) = PayloadAt(m) + Len(m.Payload)
  BY <1>1 DEF LayoutOK
<1>3. /\ p \in 0..(MessageLen(m) - 1) /\ p \in Nat /\ p > EndAt(m) /\ p >= PayloadAt(m)
      /\ p - PayloadAt(m) + 1 = k /\ k \in DOMAIN m.Payload
  BY <1>2
<1> HIDE DEF p
<1>4. ~Covers(0, Fields(m), p)
  BY <1>2, <1>3, FieldsApart
<1>5. Covers(PayloadAt(m), m.Payload, p)
  BY <1>3 DEF Covers
<1>6. \A j \in DOMAIN m.Exts : ~InExt(m, j, p)
  BY <1>2, <1>3, ExtsApart
<1>7. Encode(m)[p] = m.Payload[p - PayloadAt(m) + 1]
  BY <1>3, <1>4, <1>5, <1>6, EncodeAt
<1> QED
  BY <1>3, <1>7 DEF p

-----------------------------------------------------------------------------
(* The reader.  It takes one extension header after the other.             *)
LEMMA WalkDef ==
  ASSUME NEW b, NEW n \in Nat
  PROVE  Walk(b, n) = [k \in 0..n |-> IF k = 0 THEN 11 ELSE Past(b, Walk(b, n)[k - 1])]
<1> DEFINE IsWalk(p, m) == p = [k \in 0..m |-> IF k = 0 THEN 11 ELSE Past(b, p[k - 1])]
           T == {m \in Nat : \E p : IsWalk(p, m)}
<1>1. 0 \in T
  <2>1. IsWalk([k \in 0..0 |-> 11], 0)
    OBVIOUS
  <2> QED
    BY <2>1
<1>2. ASSUME NEW m \in 0..(n - 1), m \in T
      PROVE  m + 1 \in T
  <2>1. PICK p : IsWalk(p, m)
    BY <1>2
  <2> DEFINE q == [k \in 0..(m + 1) |-> IF k = m + 1 THEN Past(b, p[m]) ELSE p[k]]
  <2>2. \A k \in 0..m : q[k] = p[k]
    OBVIOUS
  <2>3. \A k \in 0..(m + 1) : q[k] = IF k = 0 THEN 11 ELSE Past(b, q[k - 1])
    <3>1. ASSUME NEW k \in 0..m
          PROVE  q[k] = IF k = 0 THEN 11 ELSE Past(b, q[k - 1])
      <4>1. p[k] = IF k = 0 THEN 11 ELSE Past(b, p[k - 1])
        BY <2>1
      <4> QED
        BY <2>2, <4>1
    <3>2. q[m + 1] = Past(b, q[(m + 1) - 1]) /\ m + 1 # 0
      OBVIOUS
    <3>3. \A k \in 0..(m + 1) : k \in 0..m \/ k = m + 1
      OBVIOUS
    <3> HIDE DEF q
    <3> QED
      BY <3>1, <3>2, <3>3
  <2>4. IsWalk(q, m + 1)
    BY <2>3
  <2>5. m + 1 \in Nat
    OBVIOUS
  <2> HIDE DEF q, IsWalk
  <2> QED
    BY <2>4, <2>5
<1>3. n \in T
  <2>1. 0..n \subseteq T
    <3> HIDE DEF T
    <3> QED
      BY <1>1, <1>2, UpTo
  <2> QED
    BY <2>1
<1>4. \E p : IsWalk(p, n)
  BY <1>3
<1> QED
  BY <1>4 DEF Walk

(* What two sequences of bytes make, joined, byte by byte.                 *)
LEMMA BothThere ==
  ASSUME NEW a \in Seq(Byte), NEW b \in Seq(Byte)
  PROVE  /\ a \o b \in Seq(Byte) /\ Len(a \o b) = Len(a) + Len(b)
         /\ \A i \in 1..Len(a) : (a \o b)[i] = a[i]
         /\ \A i \in 1..Len(b) : (a \o b)[Len(a) + i] = b[i]
<1>1. /\ a \o b \in Seq(Byte) /\ Len(a \o b) = Len(a) + Len(b)
      /\ \A i \in 1..Len(a) + Len(b) :
           (a \o b)[i] = IF i <= Len(a) THEN a[i] ELSE b[i - Len(a)]
  BY ConcatProperties
<1>2. Len(a) \in Nat /\ Len(b) \in Nat
  OBVIOUS
<1>3. ASSUME NEW i \in 1..Len(b)
      PROVE  (a \o b)[Len(a) + i] = b[i]
  <2>1. Len(a) + i \in 1..Len(a) + Len(b) /\ ~(Len(a) + i <= Len(a)) /\ (Len(a) + i) - Len(a) = i
    BY <1>2
  <2>2. (a \o b)[Len(a) + i] = b[(Len(a) + i) - Len(a)]
    BY <1>1, <2>1
  <2> QED
    BY <2>1, <2>2
<1>4. ASSUME NEW i \in 1..Len(a)
      PROVE  (a \o b)[i] = a[i]
  BY <1>1, <1>2
<1> QED
  BY <1>1, <1>3, <1>4

(* Each field is where the reader looks for it; the number of an N-PDU     *)
(* only if there is a sequence number.                                     *)
FieldsRead(m) ==
  /\ Fields(m)[1] = m.Flags
  /\ Fields(m)[5] = m.TEID[1] /\ Fields(m)[6] = m.TEID[2]
  /\ Fields(m)[7] = m.TEID[3] /\ Fields(m)[8] = m.TEID[4]
  /\ HasSequence(m) => Fields(m)[9] = m.SequenceNumber[1] /\ Fields(m)[10] = m.SequenceNumber[2]
  /\ HasSequence(m) /\ HasNPDUNumber(m) => Fields(m)[11] = m.NPDUNumber
LEMMA FieldsWhole ==
  ASSUME NEW m \in Message
  PROVE  FieldsRead(m)
<1> DEFINE lb == LengthBytes(m)
           h2 == <<m.Flags, m.Type>>
           h4 == h2 \o lb
           h8 == h4 \o m.TEID
           seq == IF HasSequence(m) THEN m.SequenceNumber ELSE <<>>
           hs == h8 \o seq
           npdu == IF HasNPDUNumber(m) THEN <<m.NPDUNumber>> ELSE <<>>
           all == hs \o npdu
<1>1. Fields(m) = all
  BY DEF Fields
<1>2. lb \in Seq(Byte) /\ Len(lb) = 2 /\ m.TEID \in Seq(Byte) /\ Len(m.TEID) = 4
  BY PartsType
<1>3. h2 \in Seq(Byte) /\ Len(h2) = 2 /\ h2[1] = m.Flags
  BY PartsType
<1>4. /\ seq \in Seq(Byte) /\ npdu \in Seq(Byte)
      /\ HasSequence(m) => seq = m.SequenceNumber /\ Len(seq) = 2
      /\ HasNPDUNumber(m) => Len(npdu) = 1 /\ npdu[1] = m.NPDUNumber
  BY PartsType
<1> HIDE DEF lb, h2, seq, npdu
<1>5. h4 \in Seq(Byte) /\ Len(h4) = 4 /\ h4[1] = h2[1]
  <2>1. /\ h4 \in Seq(Byte) /\ Len(h4) = Len(h2) + Len(lb) /\ \A i \in 1..Len(h2) : h4[i] = h2[i]
    BY <1>2, <1>3, BothThere
  <2> HIDE DEF h4
  <2> QED
    BY <1>2, <1>3, <2>1
<1> HIDE DEF h4
<1>6. /\ h8 \in Seq(Byte) /\ Len(h8) = 8 /\ h8[1] = h4[1]
      /\ h8[5] = m.TEID[1] /\ h8[6] = m.TEID[2] /\ h8[7] = m.TEID[3] /\ h8[8] = m.TEID[4]
  <2>1. /\ h8 \in Seq(Byte) /\ Len(h8) = Len(h4) + Len(m.TEID) /\ \A i \in 1..Len(h4) : h8[i] = h4[i]
        /\ \A i \in 1..Len(m.TEID) : h8[Len(h4) + i] = m.TEID[i]
    BY <1>2, <1>5, BothThere
  <2> HIDE DEF h8
  <2>2. /\ h8 \in Seq(Byte) /\ Len(h8) = 8 /\ \A i \in 1..4 : h8[i] = h4[i]
        /\ \A i \in 1..4 : h8[4 + i] = m.TEID[i]
    BY <1>2, <1>5, <2>1
  <2>3. h8[4 + 1] = m.TEID[1] /\ h8[4 + 2] = m.TEID[2] /\ h8[4 + 3] = m.TEID[3] /\ h8[4 + 4] = m.TEID[4]
    BY <2>2
  <2> QED
    BY <2>2, <2>3
<1> HIDE DEF h8
<1>7. /\ hs \in Seq(Byte) /\ \A i \in 1..8 : i \in 1..Len(hs) /\ hs[i] = h8[i]
      /\ HasSequence(m) => Len(hs) = 10 /\ hs[9] = m.SequenceNumber[1] /\ hs[10] = m.SequenceNumber[2]
  <2>1. /\ hs \in Seq(Byte) /\ Len(hs) = Len(h8) + Len(seq) /\ \A i \in 1..Len(h8) : hs[i] = h8[i]
        /\ \A i \in 1..Len(seq) : hs[Len(h8) + i] = seq[i]
    BY <1>4, <1>6, BothThere
  <2>2. Len(h8) = 8 /\ Len(seq) \in Nat
    BY <1>4, <1>6
  <2> HIDE DEF hs
  <2>3. \A i \in 1..8 : i \in 1..Len(hs) /\ hs[i] = h8[i]
    BY <2>1, <2>2
  <2>4. ASSUME HasSequence(m)
        PROVE  Len(hs) = 10 /\ hs[9] = m.SequenceNumber[1] /\ hs[10] = m.SequenceNumber[2]
    <3>1. Len(seq) = 2 /\ seq = m.SequenceNumber
      BY <1>4, <2>4
    <3>2. hs[8 + 1] = seq[1] /\ hs[8 + 2] = seq[2]
      BY <2>1, <2>2, <3>1
    <3> QED
      BY <2>1, <2>2, <3>1, <3>2
  <2> QED
    BY <2>1, <2>3, <2>4
<1> HIDE DEF hs
<1>8. /\ \A i \in 1..Len(hs) : all[i] = hs[i]
      /\ \A i \in 1..Len(npdu) : all[Len(hs) + i] = npdu[i]
  BY <1>4, <1>7, BothThere
<1> HIDE DEF all
<1>9. \A i \in 1..8 : all[i] = h8[i]
  BY <1>7, <1>8
<1>10. HasSequence(m) => all[9] = m.SequenceNumber[1] /\ all[10] = m.SequenceNumber[2]
  <2> SUFFICES ASSUME HasSequence(m)
               PROVE  all[9] = m.SequenceNumber[1] /\ all[10] = m.SequenceNumber[2]
    OBVIOUS
  <2>1. Len(hs) = 10
    BY <1>7
  <2>2. 9 \in 1..Len(hs) /\ 10 \in 1..Len(hs)
    BY <2>1
  <2> QED
    BY <1>7, <1>8, <2>2
<1>11. ASSUME HasSequence(m), HasNPDUNumber(m)
       PROVE  all[11] = m.NPDUNumber
  <2>1. Len(hs) = 10 /\ Len(npdu) = 1 /\ npdu[1] = m.NPDUNumber
    BY <1>4, <1>7, <1>11
  <2>2. all[10 + 1] = npdu[1]
    BY <1>8, <2>1
  <2> QED
    BY <2>1, <2>2
<1> QED
  BY <1>1, <1>3, <1>5, <1>6, <1>9, <1>10, <1>11 DEF FieldsRead

-----------------------------------------------------------------------------
(* A message whose flags announce what it has: the extension headers begin *)
(* at byte 11, whichever other fields there are.                           *)
Announced(m) ==
  /\ m.Flags % 8 # 0
  /\ m.Exts # <<>> => IsSet(m.Flags, 4)
  /\ HasNPDUNumber(m) => HasSequence(m)
LEMMA Aligned ==
  ASSUME NEW m \in Message, Announced(m)
  PROVE  /\ Align(FieldsEnd(m)) = 11 /\ EndAt(m) = 11 + 4 * Len(m.Exts)
         /\ \A k \in DOMAIN m.Exts : ExtAt(m, k) = 11 + 4 * (k - 1)
<1>1. FieldsEnd(m) \in {8, 10, 11}
  BY DEF Announced, FieldsEnd
<1>2. Align(8) = 11 /\ Align(10) = 11 /\ Align(11) = 11
  BY DEF Align
<1>3. Align(FieldsEnd(m)) = 11
  BY <1>1, <1>2
<1>4. EndAt(m) = 11 + 4 * Len(m.Exts)
  BY <1>3, Layout DEF LayoutOK
<1> QED
  BY <1>3, <1>4, ExtPlace

(* The bytes of a message, up to its length.                               *)
LEMMA ByteAt ==
  ASSUME NEW m \in Message, NEW p \in 0..(MessageLen(m) - 1)
  PROVE  At(Encode(m), p) = Encode(m)[p]
<1>1. DOMAIN Encode(m) = 0..(MessageLen(m) - 1)
  BY DEF Encode
<1> QED
  BY <1>1 DEF At

(* The fields say what was put into them.                                  *)
LEMMA HeadRead ==
  ASSUME NEW m \in Message, LengthSaid(m)
  PROVE  /\ At(Encode(m), 0) = m.Flags
         /\ 8 + 256 * At(Encode(m), 2) + At(Encode(m), 3) = MessageLen(m)
         /\ At(Encode(m), 4) = m.TEID[1] /\ At(Encode(m), 5) = m.TEID[2]
         /\ At(Encode(m), 6) = m.TEID[3] /\ At(Encode(m), 7) = m.TEID[4]
         /\ HasSequence(m) => /\ At(Encode(m), 8) = m.SequenceNumber[1]
                              /\ At(Encode(m), 9) = m.SequenceNumber[2]
         /\ HasSequence(m) /\ HasNPDUNumber(m) => At(Encode(m), 10) = m.NPDUNumber
<1>1. /\ FieldsEnd(m) \in Nat /\ 8 <= FieldsEnd(m) /\ FieldsEnd(m) <= EndAt(m) /\ EndAt(m) \in Nat
      /\ EndAt(m) < MessageLen(m) /\ MessageLen(m) \in Nat
  BY Layout DEF LayoutOK
<1>2. ASSUME NEW p \in Nat, p < FieldsEnd(m)
      PROVE  At(Encode(m), p) = Fields(m)[p + 1]
  <2>1. p \in 0..(MessageLen(m) - 1)
    BY <1>1, <1>2
  <2> QED
    BY <1>2, <2>1, ByteAt, EncodeField
<1>3. /\ At(Encode(m), 0) = Fields(m)[0 + 1] /\ At(Encode(m), 4) = Fields(m)[4 + 1]
      /\ At(Encode(m), 5) = Fields(m)[5 + 1] /\ At(Encode(m), 6) = Fields(m)[6 + 1]
      /\ At(Encode(m), 7) = Fields(m)[7 + 1]
  BY <1>1, <1>2
<1>4. ASSUME HasSequence(m)
      PROVE  /\ At(Encode(m), 8) = m.SequenceNumber[1] /\ At(Encode(m), 9) = m.SequenceNumber[2]
             /\ HasNPDUNumber(m) => At(Encode(m), 10) = m.NPDUNumber
  <2>1. FieldsEnd(m) >= 10 /\ (HasNPDUNumber(m) => FieldsEnd(m) = 11)
    BY <1>4 DEF FieldsEnd
  <2>2. At(Encode(m), 8) = Fields(m)[8 + 1] /\ At(Encode(m), 9) = Fields(m)[9 + 1]
    BY <1>1, <1>2, <2>1
  <2>3. HasNPDUNumber(m) => At(Encode(m), 10) = Fields(m)[10 + 1]
    BY <1>1, <1>2, <2>1
  <2> QED
    BY <1>4, <2>2, <2>3, FieldsWhole DEF FieldsRead
<1>5. 8 + 256 * At(Encode(m), 2) + At(Encode(m), 3) = MessageLen(m)
  <2>1. 2 \in 0..(MessageLen(m) - 1) /\ 3 \in 0..(MessageLen(m) - 1)
    BY <1>1
  <2>2. At(Encode(m), 2) = Encode(m)[2] /\ At(Encode(m), 3) = Encode(m)[3]
    BY <2>1, ByteAt
  <2>3. Encode(m)[2] \in Int /\ Encode(m)[3] \in Int
    <3>1. Encode(m)[2] = Fields(m)[2 + 1] /\ Encode(m)[3] = Fields(m)[3 + 1]
      BY <1>1, EncodeField
    <3>2. Fields(m)[3] = LengthBytes(m)[1] /\ Fields(m)[4] = LengthBytes(m)[2]
      BY FieldsFill DEF FieldsOK
    <3>3. LengthBytes(m) \in Seq(Byte) /\ Len(LengthBytes(m)) = 2
      BY PartsType
    <3>4. LengthBytes(m)[1] \in Byte /\ LengthBytes(m)[2] \in Byte
      <4>1. PICK lb : lb = LengthBytes(m)
        OBVIOUS
      <4>2. lb \in Seq(Byte) /\ Len(lb) = 2
        BY <3>3, <4>1, Zenon
      <4>3. 1 \in 1..Len(lb) /\ 2 \in 1..Len(lb)
        BY <4>2
      <4>4. lb[1] \in Byte /\ lb[2] \in Byte
        BY <4>2, <4>3, ElementOfSeq, Zenon
      <4> QED
        BY <4>1, <4>4, Zenon
    <3> QED
      BY <3>1, <3>2, <3>4 DEF Byte
  <2> QED
    BY <1>1, <2>2, <2>3, LengthRight
<1> QED
  BY <1>3, <1>4, <1>5, FieldsWhole DEF FieldsRead

(* Extension k: type 133, one word, four bits of the QFI; then their end.  *)
LEMMA ExtRead ==
  ASSUME NEW m \in Message, Announced(m)
  PROVE  /\ \A k \in 1..Len(m.Exts) :
              LET p == 11 + 4 * (k - 1)
              IN  /\ At(Encode(m), p) = 133 /\ At(Encode(m), p + 1) = 1
                  /\ At(Encode(m), p + 3) = m.Exts[k].QoSFlowID % 16
         /\ At(Encode(m), 11 + 4 * Len(m.Exts)) = 0
<1>1. /\ EndAt(m) \in Nat /\ EndAt(m) < MessageLen(m) /\ MessageLen(m) \in Nat
      /\ Len(m.Exts) \in Nat /\ DOMAIN m.Exts = 1..Len(m.Exts)
      /\ EndAt(m) = 11 + 4 * Len(m.Exts)
  BY Layout, Aligned DEF LayoutOK
<1>2. At(Encode(m), 11 + 4 * Len(m.Exts)) = 0
  <2>1. EndAt(m) \in 0..(MessageLen(m) - 1)
    BY <1>1
  <2> QED
    BY <1>1, <2>1, ByteAt, EndMarked
<1>3. ASSUME NEW k \in 1..Len(m.Exts), NEW p, p = 11 + 4 * (k - 1)
      PROVE  /\ At(Encode(m), p) = 133 /\ At(Encode(m), p + 1) = 1
             /\ At(Encode(m), p + 3) = m.Exts[k].QoSFlowID % 16
  <2>1. k \in DOMAIN m.Exts /\ ExtAt(m, k) = p
    BY <1>1, <1>3, Aligned
  <2>2. p \in Nat /\ p + 4 <= EndAt(m)
    BY <1>1, <1>3
  <2>3. ASSUME NEW i \in 1..4
        PROVE  At(Encode(m), p + i - 1) = Container(m.Exts[k])[i]
    <3>1. p + i - 1 \in 0..(MessageLen(m) - 1)
      BY <1>1, <2>2
    <3>2. Encode(m)[ExtAt(m, k) + i - 1] = Container(m.Exts[k])[i]
      BY <2>1, ExtensionWhole
    <3> QED
      BY <2>1, <3>1, <3>2, ByteAt
  <2>4. p + 1 - 1 = p /\ p + 2 - 1 = p + 1 /\ p + 4 - 1 = p + 3
    BY <2>2
  <2>5. /\ At(Encode(m), p + 1 - 1) = Container(m.Exts[k])[1]
        /\ At(Encode(m), p + 2 - 1) = Container(m.Exts[k])[2]
        /\ At(Encode(m), p + 4 - 1) = Container(m.Exts[k])[4]
    BY <2>3
  <2>6. /\ Container(m.Exts[k])[1] = 133 /\ Container(m.Exts[k])[2] = 1
        /\ Container(m.Exts[k])[4] = m.Exts[k].QoSFlowID % 16
    BY DEF Container
  <2> QED
    BY <2>4, <2>5, <2>6
<1> QED
  BY <1>2, <1>3

(* The reader goes from one to the next and stays at the end.              *)
LEMMA Walked ==
  ASSUME NEW m \in Message, Announced(m), NEW n \in Nat, Len(m.Exts) <= n
  PROVE  \A k \in 0..n :
           Walk(Encode(m), n)[k] = 11 + 4 * (IF k <= Len(m.Exts) THEN k ELSE Len(m.Exts))
<1> DEFINE b == Encode(m)
           N == Len(m.Exts)
           w == Walk(b, n)
           Place(k) == 11 + 4 * (IF k <= N THEN k ELSE N)
           T == {k \in 0..n : w[k] = Place(k)}
<1>1. N \in Nat
  BY Layout DEF LayoutOK
<1>2. w = [k \in 0..n |-> IF k = 0 THEN 11 ELSE Past(b, w[k - 1])]
  BY WalkDef
<1> HIDE DEF w
<1>3. w[0] = 11 /\ \A k \in 1..n : w[k] = Past(b, w[k - 1])
  BY <1>2
<1>4. /\ \A k \in 1..N : At(b, 11 + 4 * (k - 1)) = 133 /\ At(b, 11 + 4 * (k - 1) + 1) = 1
      /\ At(b, 11 + 4 * N) = 0
  BY ExtRead
<1> HIDE DEF b, N
<1>5. 0 \in T
  BY <1>1, <1>3
<1>6. ASSUME NEW k \in 0..(n - 1), k \in T
      PROVE  k + 1 \in T
  <2>1. w[k + 1] = Past(b, w[k]) /\ w[k] = Place(k) /\ k \in Nat /\ k + 1 \in 0..n
    <3>1. k + 1 \in 1..n /\ (k + 1) - 1 = k
      OBVIOUS
    <3> QED
      BY <1>3, <1>6, <3>1
  <2>2. CASE k < N
    <3>1. w[k] = 11 + 4 * k /\ Place(k + 1) = 11 + 4 * (k + 1)
      BY <1>1, <2>1, <2>2
    <3>2. k + 1 \in 1..N /\ 11 + 4 * ((k + 1) - 1) = 11 + 4 * k
      BY <1>1, <2>1, <2>2
    <3>3. At(b, 11 + 4 * k) = 133 /\ At(b, 11 + 4 * k + 1) = 1
      BY <1>4, <3>2
    <3>4. Past(b, w[k]) = 11 + 4 * k + 4 * 1
      BY <3>1, <3>3 DEF Past
    <3> QED
      BY <2>1, <3>1, <3>4
  <2>3. CASE ~(k < N)
    <3>1. w[k] = 11 + 4 * N /\ Place(k + 1) = 11 + 4 * N
      BY <1>1, <2>1, <2>3
    <3>2. Past(b, w[k]) = w[k]
      BY <1>4, <3>1 DEF Past
    <3> QED
      BY <2>1, <3>1, <3>2
  <2> QED
    BY <2>2, <2>3
<1>7. 0..n \subseteq T
  <2> HIDE DEF T
  <2> QED
    BY <1>5, <1>6, UpTo
<1> QED
  BY <1>7 DEF w, b, N

(* It counts them.                                                         *)
LEMMA Counted ==
  ASSUME NEW m \in Message, Announced(m), NEW n \in Nat, Len(m.Exts) <= n
  PROVE  Cardinality({k \in 0..n : At(Encode(m), Walk(Encode(m), n)[k]) # 0}) = Len(m.Exts)
<1> DEFINE b == Encode(m)
           N == Len(m.Exts)
           w == Walk(b, n)
           S == {k \in 0..n : At(b, w[k]) # 0}
<1>1. N \in Nat
  BY Layout DEF LayoutOK
<1>2. \A k \in 0..n : w[k] = 11 + 4 * (IF k <= N THEN k ELSE N)
  BY Walked
<1>3. /\ \A k \in 1..N : At(b, 11 + 4 * (k - 1)) = 133
      /\ At(b, 11 + 4 * N) = 0
  BY ExtRead
<1> HIDE DEF b, N, w
<1>4. ASSUME NEW k \in 0..n
      PROVE  At(b, w[k]) # 0 <=> k \in 0..(N - 1)
  <2>1. CASE k < N
    <3>1. k + 1 \in 1..N /\ (k + 1) - 1 = k
      BY <1>1, <2>1
    <3>2. At(b, 11 + 4 * k) = 133
      <4>1. At(b, 11 + 4 * ((k + 1) - 1)) = 133
        BY <1>3, <3>1
      <4> QED
        BY <3>1, <4>1
    <3>3. w[k] = 11 + 4 * k
      BY <1>1, <1>2, <2>1
    <3> QED
      BY <1>1, <2>1, <3>2, <3>3
  <2>2. CASE ~(k < N)
    <3>1. w[k] = 11 + 4 * N
      BY <1>1, <1>2, <2>2
    <3> QED
      BY <1>1, <1>3, <2>2, <3>1
  <2> QED
    BY <2>1, <2>2
<1>5. S = 0..(N - 1)
  <2>1. 0..(N - 1) \subseteq 0..n
    BY <1>1 DEF N
  <2> QED
    BY <1>4, <2>1
<1>6. Cardinality(0..(N - 1)) = N
  <2>1. 0 \in Int /\ N - 1 \in Int
    BY <1>1
  <2>2. Cardinality(0..(N - 1)) = IF 0 > N - 1 THEN 0 ELSE (N - 1) - 0 + 1
    BY <2>1, FS_Interval
  <2> QED
    BY <1>1, <2>2
<1> QED
  BY <1>5, <1>6 DEF S, b, N, w

(* What the reader takes from the bytes.                                   *)
LEMMA DecodeDef ==
  ASSUME NEW b
  PROVE  /\ Decode(b).TEID = <<At(b, 4), At(b, 5), At(b, 6), At(b, 7)>>
         /\ Decode(b).Seq = IF IsSet(At(b, 0), 2) THEN <<At(b, 8), At(b, 9)>> ELSE <<>>
         /\ Decode(b).NPDU = IF IsSet(At(b, 0), 1) THEN <<At(b, 10)>> ELSE <<>>
         /\ Decode(b).Exts = [k \in 1..ExtsOf(b) |->
                               [type |-> At(b, Walk(b, EndOf(b))[k - 1]),
                                QFI  |-> At(b, Walk(b, EndOf(b))[k - 1] + 3)]]
         /\ Decode(b).Payload = [k \in 1..(EndOf(b) - BodyAt(b)) |-> At(b, BodyAt(b) + k - 1)]
         /\ Decode(b) = [TEID |-> Decode(b).TEID, Seq |-> Decode(b).Seq, NPDU |-> Decode(b).NPDU,
                         Exts |-> Decode(b).Exts, Payload |-> Decode(b).Payload]
<1>1. PICK t, s, n, x, y :
        /\ t = <<At(b, 4), At(b, 5), At(b, 6), At(b, 7)>>
        /\ s = IF IsSet(At(b, 0), 2) THEN <<At(b, 8), At(b, 9)>> ELSE <<>>
        /\ n = IF IsSet(At(b, 0), 1) THEN <<At(b, 10)>> ELSE <<>>
        /\ x = [k \in 1..ExtsOf(b) |-> [type |-> At(b, Walk(b, EndOf(b))[k - 1]),
                                        QFI  |-> At(b, Walk(b, EndOf(b))[k - 1] + 3)]]
        /\ y = [k \in 1..(EndOf(b) - BodyAt(b)) |-> At(b, BodyAt(b) + k - 1)]
  BY Zenon
<1>2. Decode(b) = [TEID |-> t, Seq |-> s, NPDU |-> n, Exts |-> x, Payload |-> y]
  BY <1>1, Zenon DEF Decode
<1>3. /\ Decode(b).TEID = t /\ Decode(b).Seq = s /\ Decode(b).NPDU = n
      /\ Decode(b).Exts = x /\ Decode(b).Payload = y
  BY <1>2
<1> QED
  BY <1>1, <1>2, <1>3, Zenon

(* d is what was put into m, with QFIs cut to four bits.                   *)
Read(m, d) ==
  /\ d.TEID = m.TEID
  /\ d.Seq = IF HasSequence(m) THEN m.SequenceNumber ELSE <<>>
  /\ d.NPDU = IF HasNPDUNumber(m) THEN <<m.NPDUNumber>> ELSE <<>>
  /\ d.Exts = [k \in DOMAIN m.Exts |-> [type |-> 133, QFI |-> m.Exts[k].QoSFlowID % 16]]
  /\ d.Payload = m.Payload

(* msg.go:52: what the reader makes of an announced message: its fields,   *)
(* the type and the QFI of every extension, cut to four bits, the payload. *)
THEOREM ReadAsMade ==
  ASSUME NEW m \in Message, Announced(m), LengthSaid(m)
  PROVE  Read(m, Decode(Encode(m)))
<1> DEFINE b    == Encode(m)
           N    == Len(m.Exts)
           end  == EndOf(b)
           w    == Walk(b, end)
           heads == {k \in 0..end : At(b, w[k]) # 0}
           exts == ExtsOf(b)
           body == BodyAt(b)
           d    == Decode(b)
<1>1. /\ d.TEID = <<At(b, 4), At(b, 5), At(b, 6), At(b, 7)>>
      /\ d.Seq = IF IsSet(At(b, 0), 2) THEN <<At(b, 8), At(b, 9)>> ELSE <<>>
      /\ d.NPDU = IF IsSet(At(b, 0), 1) THEN <<At(b, 10)>> ELSE <<>>
      /\ d.Exts = [k \in 1..exts |-> [type |-> At(b, w[k - 1]), QFI |-> At(b, w[k - 1] + 3)]]
      /\ d.Payload = [k \in 1..(end - body) |-> At(b, body + k - 1)]
  BY DecodeDef
<1> HIDE DEF b
<1>0. /\ exts = (IF IsSet(At(b, 0), 4) THEN Cardinality(heads) ELSE 0)
      /\ body = (IF At(b, 0) % 8 = 0 THEN 8 ELSE w[exts] + 1)
      /\ end = 8 + 256 * At(b, 2) + At(b, 3)
  <2>1. exts = (IF IsSet(At(b, 0), 4) THEN Cardinality(heads) ELSE 0)
    BY DEF ExtsOf
  <2>2. body = (IF At(b, 0) % 8 = 0 THEN 8 ELSE w[exts] + 1)
    BY DEF BodyAt
  <2>3. end = 8 + 256 * At(b, 2) + At(b, 3)
    BY DEF EndOf
  <2> QED
    BY <2>1, <2>2, <2>3
<1> HIDE DEF w, heads, exts, body, d, end
<1>2. /\ At(b, 0) = m.Flags /\ end = MessageLen(m)
      /\ At(b, 4) = m.TEID[1] /\ At(b, 5) = m.TEID[2] /\ At(b, 6) = m.TEID[3] /\ At(b, 7) = m.TEID[4]
      /\ HasSequence(m) => At(b, 8) = m.SequenceNumber[1] /\ At(b, 9) = m.SequenceNumber[2]
      /\ HasSequence(m) /\ HasNPDUNumber(m) => At(b, 10) = m.NPDUNumber
  <2>1. end = 8 + 256 * At(b, 2) + At(b, 3)
    BY <1>0
  <2> QED
    BY <2>1, HeadRead DEF b
<1>3. /\ N \in Nat /\ DOMAIN m.Exts = 1..N /\ MessageLen(m) \in Nat /\ EndAt(m) < MessageLen(m)
      /\ EndAt(m) = 11 + 4 * N /\ PayloadAt(m) = EndAt(m) + 1
      /\ MessageLen(m) = PayloadAt(m) + Len(m.Payload) /\ Len(m.Payload) \in Nat
  BY Layout, Aligned DEF LayoutOK
<1>4. end \in Nat /\ N <= end
  <2> HIDE DEF N
  <2>1. end = MessageLen(m)
    BY <1>2
  <2>2. PICK l, n, e : l = MessageLen(m) /\ n = N /\ e = EndAt(m)
    BY Zenon
  <2>3. n \in Nat /\ l \in Nat /\ e = 11 + 4 * n /\ e < l
    BY <1>3, <2>2, Zenon
  <2>4. l \in Nat /\ n <= l
    BY <2>3
  <2> QED
    BY <2>1, <2>2, <2>4, Zenon
<1>5. Cardinality(heads) = N /\ \A k \in 0..end : w[k] = 11 + 4 * (IF k <= N THEN k ELSE N)
  BY <1>4, Counted, Walked DEF heads, w, b
<1> HIDE DEF b, N
<1>6. m.Flags % 8 # 0 /\ (N # 0 => IsSet(m.Flags, 4))
  <2>1. N # 0 => m.Exts # <<>>
    BY DEF N
  <2> QED
    BY <2>1 DEF Announced
<1>7. exts = N
  BY <1>0, <1>2, <1>3, <1>5, <1>6
<1>8. body = PayloadAt(m) /\ end - body = Len(m.Payload)
  <2>1. w[N] = 11 + 4 * N
    BY <1>3, <1>4, <1>5
  <2>2. body = w[N] + 1
    BY <1>0, <1>2, <1>6, <1>7
  <2>3. body = PayloadAt(m) /\ body \in Nat
    BY <1>3, <2>1, <2>2
  <2> QED
    BY <1>2, <1>3, <2>3
<1>9. d.TEID = m.TEID
  <2>1. PICK t : t = m.TEID
    OBVIOUS
  <2>2. t \in Seq(Byte) /\ Len(t) = 4
    BY <2>1, PartsType
  <2>3. <<t[1], t[2], t[3], t[4]>> = t
    BY <2>2
  <2> QED
    BY <1>1, <1>2, <2>1, <2>3
<1>10. d.Seq = IF HasSequence(m) THEN m.SequenceNumber ELSE <<>>
  <2>1. PICK t : t = m.SequenceNumber
    OBVIOUS
  <2>2. t \in Seq(Byte) /\ Len(t) = 2
    BY <2>1, PartsType
  <2>3. <<t[1], t[2]>> = t
    BY <2>2
  <2>4. HasSequence(m) <=> IsSet(At(b, 0), 2)
    BY <1>2 DEF HasSequence
  <2>5. CASE HasSequence(m)
    <3>1. d.Seq = <<At(b, 8), At(b, 9)>>
      BY <1>1, <2>4, <2>5
    <3>2. At(b, 8) = t[1] /\ At(b, 9) = t[2]
      BY <1>2, <2>1, <2>5
    <3> QED
      BY <2>1, <2>3, <2>5, <3>1, <3>2
  <2>6. CASE ~HasSequence(m)
    BY <1>1, <2>4, <2>6
  <2> QED
    BY <2>5, <2>6
<1>11. d.NPDU = IF HasNPDUNumber(m) THEN <<m.NPDUNumber>> ELSE <<>>
  <2>1. HasNPDUNumber(m) <=> IsSet(At(b, 0), 1)
    BY <1>2 DEF HasNPDUNumber
  <2>2. CASE HasNPDUNumber(m)
    <3>1. HasSequence(m)
      BY <2>2 DEF Announced
    <3>2. At(b, 10) = m.NPDUNumber
      BY <1>2, <2>2, <3>1
    <3> QED
      BY <1>1, <2>1, <2>2, <3>2
  <2>3. CASE ~HasNPDUNumber(m)
    BY <1>1, <2>1, <2>3
  <2> QED
    BY <2>2, <2>3
<1>12. d.Exts = [k \in DOMAIN m.Exts |-> [type |-> 133, QFI |-> m.Exts[k].QoSFlowID % 16]]
  <2>1. ASSUME NEW k \in 1..N
        PROVE  /\ At(b, w[k - 1]) = 133
               /\ At(b, w[k - 1] + 3) = m.Exts[k].QoSFlowID % 16
    <3>1. k - 1 \in 0..end /\ k - 1 <= N
      BY <1>3, <1>4
    <3>2. w[k - 1] = 11 + 4 * (k - 1)
      BY <1>5, <3>1
    <3>3. /\ At(b, 11 + 4 * (k - 1)) = 133
          /\ At(b, 11 + 4 * (k - 1) + 3) = m.Exts[k].QoSFlowID % 16
      BY ExtRead DEF b, N
    <3> QED
      BY <3>2, <3>3
  <2> QED
    BY <1>1, <1>3, <1>7, <2>1
<1>13. d.Payload = m.Payload
  <2>1. ASSUME NEW k \in 1..Len(m.Payload)
        PROVE  At(b, body + k - 1) = m.Payload[k]
    <3>1. body = PayloadAt(m) /\ PayloadAt(m) \in Nat
      BY <1>3, <1>8
    <3>2. PayloadAt(m) + k - 1 \in 0..(MessageLen(m) - 1)
      BY <1>3, <3>1
    <3> QED
      BY <3>1, <3>2, ByteAt, PayloadWhole DEF b
  <2>2. d.Payload = [k \in 1..Len(m.Payload) |-> m.Payload[k]]
    BY <1>1, <1>8, <2>1
  <2>3. m.Payload \in Seq(Byte)
    BY DEF Message
  <2> QED
    BY <2>2, <2>3
<1> QED
  BY <1>9, <1>10, <1>11, <1>12, <1>13 DEF Read, d, b

(* msg.go:35, :52: a receiver reads from an encodable message that is      *)
(* short enough for the length what was put into it.                       *)
THEOREM EncodedIsRead ==
  ASSUME NEW m \in Message, LengthSaid(m)
  PROVE  ReceiverReads(m)
<1> SUFFICES ASSUME Encodable(m)
             PROVE  Decode(Encode(m)) = Expected(m)
  BY DEF ReceiverReads
<1>1. Announced(m) /\ \A k \in DOMAIN m.Exts : m.Exts[k].QoSFlowID < 16
  BY DEF Announced, Encodable
<1>2. Read(m, Decode(Encode(m)))
  BY <1>1, ReadAsMade
<1>3. PICK d : d = Decode(Encode(m))
  OBVIOUS
<1>4. d = [TEID |-> d.TEID, Seq |-> d.Seq, NPDU |-> d.NPDU, Exts |-> d.Exts, Payload |-> d.Payload]
  BY <1>3, DecodeDef, Zenon
<1>5. \A k \in DOMAIN m.Exts : m.Exts[k].QoSFlowID % 16 = m.Exts[k].QoSFlowID
  <2>1. \A k \in DOMAIN m.Exts : m.Exts[k].QoSFlowID \in Byte
    <3>1. PICK x : x = m.Exts
      OBVIOUS
    <3>2. x \in Seq([PDUType : 0..15, QoSFlowID : Byte])
      BY <3>1 DEF Message
    <3>3. DOMAIN x = 1..Len(x)
      BY <3>2
    <3>4. \A k \in DOMAIN x : x[k] \in [PDUType : 0..15, QoSFlowID : Byte]
      BY <3>2, <3>3, ElementOfSeq, Zenon
    <3> QED
      BY <3>1, <3>4
  <2> QED
    BY <1>1, <2>1 DEF Byte
<1>6. d.Exts = [k \in DOMAIN m.Exts |-> [type |-> 133, QFI |-> m.Exts[k].QoSFlowID]]
  BY <1>2, <1>3, <1>5 DEF Read
<1>7. /\ d.TEID = m.TEID /\ d.Payload = m.Payload
      /\ d.Seq = (IF HasSequence(m) THEN m.SequenceNumber ELSE <<>>)
      /\ d.NPDU = (IF HasNPDUNumber(m) THEN <<m.NPDUNumber>> ELSE <<>>)
  BY <1>2, <1>3 DEF Read
<1> QED
  BY <1>3, <1>4, <1>6, <1>7, Zenon DEF Expected

(* What a queued packet grows by, with the extensions of its QERs, can be  *)
(* said in the length of its message.                                      *)
QueuedFits(qer, pkt) == 4 + 4 * Len(qer) + Len(pkt) < 65536
TunnelID == {b \in Seq(Byte) : Len(b) = 4}

(* WritePacket makes a message whose flags say what it has: E, and neither *)
(* a sequence number nor one for N-PDUs.                                   *)
QueuedMsg(far, qer, pkt) == WritePacket(far, qer, pkt).msg
HasTunnel(far) == far.Creation # <<>> /\ far.Creation[1].TEID \in TunnelID
SentOK(far, qer, pkt, m) ==
  /\ m \in Message /\ m.Flags = 52 /\ m.TEID = far.Creation[1].TEID /\ m.Payload = pkt
  /\ DOMAIN m.Exts = 1..Len(qer) /\ Len(m.Exts) = Len(qer)
  /\ \A k \in 1..Len(qer) : m.Exts[k].QoSFlowID = qer[k].QFI

(* It is a message, with what it was made of.                              *)
LEMMA SentMessage ==
  ASSUME NEW far, HasTunnel(far), NEW qer \in Seq([QFI : Byte]), NEW pkt \in Seq(Byte)
  PROVE  SentOK(far, qer, pkt, QueuedMsg(far, qer, pkt))
<1> far.Creation # <<>> /\ far.Creation[1].TEID \in TunnelID
  BY DEF HasTunnel
<1>1. PICK t, x, m : /\ t = far.Creation[1].TEID /\ m = QueuedMsg(far, qer, pkt)
                     /\ x = [k \in DOMAIN qer |-> [PDUType |-> 0, QoSFlowID |-> qer[k].QFI]]
  OBVIOUS
<1>2. m = [Flags |-> 52, Type |-> 255, TEID |-> t, SequenceNumber |-> <<0, 0>>, NPDUNumber |-> 0,
           Payload |-> pkt, Exts |-> x]
  BY <1>1, Zenon DEF QueuedMsg, WritePacket, MsgTypeTPDU
<1>3. DOMAIN qer = 1..Len(qer) /\ Len(qer) \in Nat
  OBVIOUS
<1>4. \A k \in 1..Len(qer) : qer[k].QFI \in Byte
  <2>1. \A k \in 1..Len(qer) : qer[k] \in [QFI : Byte]
    BY ElementOfSeq, Zenon
  <2> QED
    BY <2>1
<1>5. x \in Seq([PDUType : 0..15, QoSFlowID : Byte]) /\ Len(x) = Len(qer) /\ DOMAIN x = 1..Len(qer)
  <2>1. x = [k \in 1..Len(qer) |-> [PDUType |-> 0, QoSFlowID |-> qer[k].QFI]]
    BY <1>1, <1>3
  <2>2. \A k \in 1..Len(qer) : [PDUType |-> 0, QoSFlowID |-> qer[k].QFI] \in [PDUType : 0..15, QoSFlowID : Byte]
    BY <1>4
  <2> QED
    BY <1>3, <2>1, <2>2
<1>6. <<0, 0>> \in {b \in Seq(Byte) : Len(b) = 2} /\ 0 \in Byte /\ 52 \in Byte /\ 255 \in Byte
  BY DEF Byte
<1>7. m \in Message
  <2>1. PICK z, o, f, y : z = <<0, 0>> /\ o = 0 /\ f = 52 /\ y = 255
    OBVIOUS
  <2>2. m = [Flags |-> f, Type |-> y, TEID |-> t, SequenceNumber |-> z, NPDUNumber |-> o,
             Payload |-> pkt, Exts |-> x]
    BY <1>2, <2>1, Zenon
  <2>3. /\ z \in {b \in Seq(Byte) : Len(b) = 2} /\ o \in Byte /\ f \in Byte /\ y \in Byte
        /\ t \in {b \in Seq(Byte) : Len(b) = 4}
    BY <1>1, <1>6, <2>1, Zenon DEF TunnelID
  <2> QED
    BY <1>5, <2>2, <2>3 DEF Message
<1>8. m.Flags = 52 /\ m.TEID = t /\ m.Payload = pkt /\ m.Exts = x
  BY <1>2
<1>9. \A k \in 1..Len(qer) : x[k].QoSFlowID = qer[k].QFI
  BY <1>1, <1>3
<1> QED
  BY <1>1, <1>5, <1>7, <1>8, <1>9, Zenon DEF SentOK

(* Four bits hold it.                                                      *)
LEMMA FourBits ==
  \A q \in 0..255 : q < 16 => q % 16 = q
  OBVIOUS

(* gtp5g.go:1237: a packet that leaves a queue reaches the peer of its FAR *)
(* whole, under its tunnel and the QFI of its QER, whatever FAR, QER and   *)
(* packet, as long as its length can be said.                              *)
THEOREM QueuedArrives ==
  ASSUME NEW far, far.Creation = <<>> \/ far.Creation[1].TEID \in TunnelID,
         NEW qer \in Seq([QFI : Byte]), NEW pkt \in Seq(Byte), QueuedFits(qer, pkt)
  PROVE  PacketArrives(far, qer, pkt)
<1>1. CASE far.Creation = <<>>
  BY <1>1 DEF PacketArrives, WritePacket
<1>2. CASE far.Creation # <<>>
  <2> DEFINE m == QueuedMsg(far, qer, pkt)
             d == Decode(Encode(m))
  <2>1. /\ m \in Message /\ m.Flags = 52 /\ m.TEID = far.Creation[1].TEID /\ m.Payload = pkt
        /\ DOMAIN m.Exts = 1..Len(qer) /\ Len(m.Exts) = Len(qer)
        /\ \A k \in 1..Len(qer) : m.Exts[k].QoSFlowID = qer[k].QFI
    <3>1. HasTunnel(far)
      BY <1>2, Zenon DEF HasTunnel
    <3>2. SentOK(far, qer, pkt, m)
      BY <3>1, SentMessage
    <3> QED
      BY <3>2, Zenon DEF SentOK
  <2> HIDE DEF m
  <2>2. /\ ~HasSequence(m) /\ ~HasNPDUNumber(m) /\ IsSet(m.Flags, 4) /\ m.Flags % 8 # 0
    BY <2>1 DEF HasSequence, HasNPDUNumber, IsSet
  <2>3. Announced(m)
    BY <2>2 DEF Announced
  <2>4. LengthSaid(m)
    <3>1. FieldsEnd(m) = 8 /\ Align(8) = 11
      BY <2>2 DEF FieldsEnd, Align
    <3>2. MessageLen(m) - 8 = 4 + 4 * Len(qer) + Len(pkt)
      BY <2>1, <3>1 DEF MessageLen, ExtLen
    <3> QED
      BY <3>2 DEF LengthSaid, QueuedFits
  <2>5. Read(m, d)
    BY <2>1, <2>3, <2>4, ReadAsMade
  <2> HIDE DEF d
  <2>6. d.TEID = far.Creation[1].TEID /\ d.Payload = pkt
    BY <2>1, <2>5 DEF Read
  <2>7. d.Exts = [k \in 1..Len(qer) |-> [type |-> 133, QFI |-> m.Exts[k].QoSFlowID % 16]]
    BY <2>1, <2>5 DEF Read
  <2>8. Len(d.Exts) = Len(qer)
    BY <2>7
  <2>9. \A k \in DOMAIN qer : qer[k].QFI < 16 => d.Exts[k].QFI = qer[k].QFI
    <3> SUFFICES ASSUME NEW k \in 1..Len(qer), qer[k].QFI < 16
                 PROVE  d.Exts[k].QFI = qer[k].QFI
      OBVIOUS
    <3>1. m.Exts[k].QoSFlowID = qer[k].QFI
      BY <2>1
    <3>2. d.Exts[k].QFI = qer[k].QFI % 16
      BY <2>7, <3>1
    <3>3. qer[k] \in [QFI : Byte]
      BY ElementOfSeq, Zenon
    <3>4. qer[k].QFI \in 0..255
      BY <3>3 DEF Byte
    <3>5. PICK q : q = qer[k].QFI
      OBVIOUS
    <3>6. q \in 0..255 /\ q < 16 /\ d.Exts[k].QFI = q % 16
      BY <3>2, <3>4, <3>5, Zenon
    <3>7. q % 16 = q
      BY <3>6, FourBits
    <3> QED
      BY <3>5, <3>6, <3>7, Zenon
  <2>10. WritePacket(far, qer, pkt).addr = <<far.Creation[1].PeerAddr, far.Creation[1].Port>>
    BY <1>2 DEF WritePacket
  <2> QED
    BY <1>2, <2>6, <2>8, <2>9, <2>10 DEF PacketArrives, d, m, QueuedMsg
<1> QED
  BY <1>1, <1>2

-----------------------------------------------------------------------------
(* The kernel driver's loop over the IEs of a rule.                        *)
LEMMA LoopDef ==
  ASSUME NEW f, NEW ies, Len(ies) \in Nat
  PROVE  Loop(f, ies) =
           [k \in 0..Len(ies) |->
              IF k = 0 THEN Start ELSE Take(f, Loop(f, ies)[k - 1], ies[k])]
<1> DEFINE n == Len(ies)
           IsWalk(p, m) == p = [k \in 0..m |-> IF k = 0 THEN Start ELSE Take(f, p[k - 1], ies[k])]
           T == {m \in Nat : \E p : IsWalk(p, m)}
<1>1. 0 \in T
  <2>1. IsWalk([k \in 0..0 |-> Start], 0)
    OBVIOUS
  <2> QED
    BY <2>1
<1>2. ASSUME NEW m \in 0..(n - 1), m \in T
      PROVE  m + 1 \in T
  <2>1. PICK p : IsWalk(p, m)
    BY <1>2
  <2> DEFINE q == [k \in 0..(m + 1) |-> IF k = m + 1 THEN Take(f, p[m], ies[m + 1]) ELSE p[k]]
  <2>2. \A k \in 0..m : q[k] = p[k]
    OBVIOUS
  <2>3. \A k \in 0..(m + 1) : q[k] = IF k = 0 THEN Start ELSE Take(f, q[k - 1], ies[k])
    <3>1. ASSUME NEW k \in 0..m
          PROVE  q[k] = IF k = 0 THEN Start ELSE Take(f, q[k - 1], ies[k])
      <4>1. p[k] = IF k = 0 THEN Start ELSE Take(f, p[k - 1], ies[k])
        BY <2>1
      <4> QED
        BY <2>2, <4>1
    <3>2. q[m + 1] = Take(f, q[(m + 1) - 1], ies[m + 1]) /\ m + 1 # 0
      OBVIOUS
    <3>3. \A k \in 0..(m + 1) : k \in 0..m \/ k = m + 1
      OBVIOUS
    <3> HIDE DEF q
    <3> QED
      BY <3>1, <3>2, <3>3
  <2>4. IsWalk(q, m + 1)
    BY <2>3
  <2>5. m + 1 \in Nat
    OBVIOUS
  <2> HIDE DEF q, IsWalk
  <2> QED
    BY <2>4, <2>5
<1>3. n \in T
  <2>1. 0..n \subseteq T
    <3> HIDE DEF T
    <3> QED
      BY <1>1, <1>2, UpTo
  <2> QED
    BY <2>1
<1>4. \E p : IsWalk(p, n)
  BY <1>3
<1> QED
  BY <1>4 DEF Loop
(* A table of the driver: an ID and attributes of other IEs, each under a  *)
(* name of its own; errors of no other IEs end the loop.                   *)
Kind == {"PDR", "FAR", "QER", "URR", "BAR"}
Sound(f) ==
  /\ f.id \notin DOMAIN f.names /\ f.drains \in BOOLEAN
  /\ \A s, t \in DOMAIN f.names : f.names[s] = f.names[t] => s = t
  /\ f.strict \subseteq {f.id} \union DOMAIN f.names

(* All ten are.                                                            *)
LEMMA TablesSound ==
  ASSUME NEW kind \in Kind
  PROVE  Sound(Creates[kind]) /\ Sound(Updates[kind])
<1> DEFINE Apart(names, id) == /\ id \notin DOMAIN names
                               /\ \A s, t \in DOMAIN names : names[s] = names[t] => s = t
<1>1. kind = "PDR" => Sound(Creates[kind]) /\ Sound(Updates[kind])
  <2>1. Apart(PdrNames, "PDRID") /\ Apart(UpdatePdrNames, "PDRID")
    BY DEF PdrNames, UpdatePdrNames
  <2>2. Sound(CreatePDR) /\ Sound(UpdatePDR)
    BY <2>1 DEF CreatePDR, UpdatePDR, Sound
  <2>3. Creates["PDR"] = CreatePDR /\ Updates["PDR"] = UpdatePDR
    BY DEF Creates, Updates
  <2> QED
    BY <2>2, <2>3
<1>2. kind = "FAR" => Sound(Creates[kind]) /\ Sound(Updates[kind])
  <2>1. Apart(FarNames, "FARID") /\ Apart(UpdateFarNames, "FARID")
    BY DEF FarNames, UpdateFarNames
  <2>2. /\ {"ApplyAction", "ForwardingParameters"} \subseteq DOMAIN FarNames
        /\ {"ApplyAction", "UpdateForwardingParameters"} \subseteq DOMAIN UpdateFarNames
    BY DEF FarNames, UpdateFarNames
  <2>3. Sound(CreateFAR) /\ Sound(UpdateFAR)
    BY <2>1, <2>2 DEF CreateFAR, UpdateFAR, Sound
  <2>4. Creates["FAR"] = CreateFAR /\ Updates["FAR"] = UpdateFAR
    BY DEF Creates, Updates
  <2> QED
    BY <2>3, <2>4
<1>3. kind = "QER" => Sound(Creates[kind]) /\ Sound(Updates[kind])
  <2>1. Apart(QerNames, "QERID") /\ Apart(UpdateQerNames, "QERID")
    BY DEF QerNames, UpdateQerNames
  <2>2. Sound(CreateQER) /\ Sound(UpdateQER)
    BY <2>1 DEF CreateQER, UpdateQER, Sound
  <2>3. Creates["QER"] = CreateQER /\ Updates["QER"] = UpdateQER
    BY DEF Creates, Updates
  <2> QED
    BY <2>2, <2>3
<1>4. kind = "URR" => Sound(Creates[kind]) /\ Sound(Updates[kind])
  <2>1. Apart(UrrNames, "URRID") /\ Apart(UpdateUrrNames, "URRID")
    BY DEF UrrNames, UpdateUrrNames
  <2>2. Sound(CreateURR) /\ Sound(UpdateURR)
    BY <2>1 DEF CreateURR, UpdateURR, Sound
  <2>3. Creates["URR"] = CreateURR /\ Updates["URR"] = UpdateURR
    BY DEF Creates, Updates
  <2> QED
    BY <2>2, <2>3
<1>5. kind = "BAR" => Sound(Creates[kind]) /\ Sound(Updates[kind])
  <2>1. Apart(BarNames, "BARID") /\ Apart(UpdateBarNames, "BARID")
    BY DEF BarNames, UpdateBarNames
  <2>2. Sound(CreateBAR) /\ Sound(UpdateBAR)
    BY <2>1 DEF CreateBAR, UpdateBAR, Sound
  <2>3. Creates["BAR"] = CreateBAR /\ Updates["BAR"] = UpdateBAR
    BY DEF Creates, Updates
  <2> QED
    BY <2>2, <2>3
<1> QED
  BY <1>1, <1>2, <1>3, <1>4, <1>5 DEF Kind

(* An IE becomes one attribute of the given name, or none.                 *)
LEMMA AttrShape ==
  ASSUME NEW name, NEW i
  PROVE  Attr(name, i) = <<>> \/ \E x : Attr(name, i) = << <<name, x>> >>
<1>1. \A list : Attrs(name, list) = <<>> \/ Attrs(name, list) = << <<name, list>> >>
  BY DEF Attrs
<1> QED
  BY <1>1 DEF Attr

(* Rules as they come: IEs of types S with values from V.                  *)
IEsOver(S, V) == Seq(S \X V \X BOOLEAN)

(* What the loop has got together.                                         *)
AttrOf(f, ies, k) == Attr(f.names[Type(ies[k])], ies[k])
Accs(f, ies, V) ==
  [err : BOOLEAN, oid : V \union {0}, drained : Seq(V \union {0}),
   attrs : Seq({AttrOf(f, ies, k)[1] : k \in DOMAIN ies})]

(* One IE keeps the accumulator of its type.                               *)
LEMMA TakeType ==
  ASSUME NEW S, NEW V, NEW ies \in IEsOver(S, V), NEW f, Sound(f), NEW k \in DOMAIN ies,
         NEW a \in Accs(f, ies, V)
  PROVE  Take(f, a, ies[k]) \in Accs(f, ies, V)
<1> DEFINE i == ies[k]
<1>1. i \in S \X V \X BOOLEAN /\ Val(i) \in V /\ Readable(i) \in BOOLEAN
  BY DEF IEsOver, Val, Readable
<1>2. AttrOf(f, ies, k) \in Seq({AttrOf(f, ies, j)[1] : j \in DOMAIN ies})
  <2>1. CASE AttrOf(f, ies, k) = <<>>
    BY <2>1
  <2>2. CASE AttrOf(f, ies, k) # <<>>
    <3>1. PICK x : AttrOf(f, ies, k) = << <<f.names[Type(i)], x>> >>
      BY <2>2, AttrShape DEF AttrOf
    <3>2. AttrOf(f, ies, k) = <<AttrOf(f, ies, k)[1]>>
      BY <3>1
    <3>3. AttrOf(f, ies, k)[1] \in {AttrOf(f, ies, j)[1] : j \in DOMAIN ies}
      OBVIOUS
    <3> DEFINE U == {AttrOf(f, ies, j)[1] : j \in DOMAIN ies}
               y == AttrOf(f, ies, k)[1]
    <3>4. y \in U
      BY <3>3
    <3> HIDE DEF U, y
    <3>5. <<y>> \in Seq(U)
      BY <3>4
    <3> QED
      BY <3>2, <3>5 DEF U, y
  <2> QED
    BY <2>1, <2>2
<1>3. CASE a.err \/ Type(i) \notin {f.id} \union DOMAIN f.names
  <2>1. Take(f, a, i) = a
    BY <1>3 DEF Take
  <2> QED
    BY <2>1
<1>4. CASE ~a.err /\ Type(i) \in {f.id} \union DOMAIN f.names /\ ~Readable(i)
  <2>1. Take(f, a, i) = [a EXCEPT !.err = Type(i) \in f.strict]
    BY <1>4 DEF Take
  <2>2. \A e \in BOOLEAN : [a EXCEPT !.err = e] \in Accs(f, ies, V)
    BY DEF Accs
  <2>3. (Type(i) \in f.strict) \in BOOLEAN
    OBVIOUS
  <2> QED
    BY <2>1, <2>2, <2>3
<1>5. CASE ~a.err /\ Type(i) = f.id /\ Readable(i)
  <2>1. Take(f, a, i) = [a EXCEPT !.oid = Val(i)]
    BY <1>5 DEF Take
  <2> QED
    BY <1>1, <2>1 DEF Accs
<1>6. CASE ~a.err /\ Type(i) \in DOMAIN f.names /\ Readable(i)
  <2>1. PICK d \in Seq(V \union {0}) :
          Take(f, a, i) = [a EXCEPT !.attrs = a.attrs \o AttrOf(f, ies, k), !.drained = d]
    <3>1. Type(i) # f.id
      BY <1>6 DEF Sound
    <3>2. a.drained \in Seq(V \union {0}) /\ Append(a.drained, a.oid) \in Seq(V \union {0})
      BY DEF Accs
    <3> QED
      BY <1>6, <3>1, <3>2 DEF Take, AttrOf
  <2>2. a.attrs \o AttrOf(f, ies, k) \in Seq({AttrOf(f, ies, j)[1] : j \in DOMAIN ies})
    BY <1>2 DEF Accs
  <2> QED
    BY <2>1, <2>2 DEF Accs
<1> QED
  BY <1>1, <1>3, <1>4, <1>5, <1>6
(* What IE k makes of the accumulator a, case by case.                     *)
Effect(f, ies, k, a, b) ==
  LET i == ies[k]
  IN  /\ a.err \/ Type(i) \notin {f.id} \union DOMAIN f.names => b = a
      /\ ~a.err /\ Type(i) \in {f.id} \union DOMAIN f.names /\ ~Readable(i) =>
           /\ b.err <=> Type(i) \in f.strict
           /\ b.oid = a.oid /\ b.attrs = a.attrs /\ b.drained = a.drained
      /\ ~a.err /\ Type(i) = f.id /\ Readable(i) =>
           /\ b.oid = Val(i)
           /\ ~b.err /\ b.attrs = a.attrs /\ b.drained = a.drained
      /\ ~a.err /\ Type(i) \in DOMAIN f.names /\ Readable(i) =>
           /\ b.attrs = a.attrs \o AttrOf(f, ies, k)
           /\ b.drained = IF f.drains /\ Type(i) = "ApplyAction"
                          THEN Append(a.drained, a.oid) ELSE a.drained
           /\ ~b.err /\ b.oid = a.oid

(* The cases are those of the switch.                                      *)
LEMMA TakeFields ==
  ASSUME NEW S, NEW V, NEW ies \in IEsOver(S, V), NEW f, Sound(f), NEW k \in DOMAIN ies,
         NEW a \in Accs(f, ies, V), NEW b, b = Take(f, a, ies[k])
  PROVE  Effect(f, ies, k, a, b)
<1> DEFINE i == ies[k]
<1>1. CASE a.err \/ Type(i) \notin {f.id} \union DOMAIN f.names
  BY <1>1 DEF Take, Effect
<1>2. CASE ~a.err /\ Type(i) \in {f.id} \union DOMAIN f.names /\ ~Readable(i)
  <2>1. b = [a EXCEPT !.err = Type(i) \in f.strict]
    BY <1>2 DEF Take
  <2>2. \A e \in BOOLEAN : LET c == [a EXCEPT !.err = e]
                           IN  c.err = e /\ c.oid = a.oid /\ c.attrs = a.attrs /\ c.drained = a.drained
    BY DEF Accs
  <2>3. (Type(i) \in f.strict) \in BOOLEAN
    OBVIOUS
  <2>4. /\ b.err = (Type(i) \in f.strict)
        /\ b.oid = a.oid /\ b.attrs = a.attrs /\ b.drained = a.drained
    BY <2>1, <2>2, <2>3
  <2>5. b.err <=> Type(i) \in f.strict
    BY <2>4
  <2> QED
    BY <1>2, <2>4, <2>5 DEF Sound, Effect
<1>3. CASE ~a.err /\ Type(i) = f.id /\ Readable(i)
  <2>1. b = [a EXCEPT !.oid = Val(i)]
    BY <1>3 DEF Take
  <2> QED
    BY <1>3, <2>1 DEF Accs, Sound, Effect
<1>4. CASE ~a.err /\ Type(i) \in DOMAIN f.names /\ Readable(i)
  <2> DEFINE d == IF f.drains /\ Type(i) = "ApplyAction" THEN Append(a.drained, a.oid) ELSE a.drained
             t == a.attrs \o AttrOf(f, ies, k)
  <2>1. Type(i) # f.id
    BY <1>4 DEF Sound
  <2>2. b = [a EXCEPT !.attrs = t, !.drained = d]
    BY <1>4, <2>1 DEF Take, AttrOf
  <2> HIDE DEF d, t
  <2>3. b.attrs = t /\ b.drained = d /\ b.err = a.err /\ b.oid = a.oid
    BY <2>2 DEF Accs
  <2> QED
    BY <1>4, <2>1, <2>3 DEF d, t, Effect
<1> QED
  BY <1>1, <1>2, <1>3, <1>4

(* The loop takes one IE after the other.                                  *)
LEMMA LoopSteps ==
  ASSUME NEW S, NEW V, NEW ies \in IEsOver(S, V), NEW f, Sound(f)
  PROVE  /\ Len(ies) \in Nat /\ DOMAIN ies = 1..Len(ies)
         /\ Loop(f, ies)[0] = Start
         /\ \A k \in DOMAIN ies : Loop(f, ies)[k] = Take(f, Loop(f, ies)[k - 1], ies[k])
         /\ \A k \in 0..Len(ies) : Loop(f, ies)[k] \in Accs(f, ies, V)
<1> DEFINE n == Len(ies)
           L == Loop(f, ies)
<1>1. n \in Nat /\ DOMAIN ies = 1..n
  BY DEF IEsOver
<1>2. L = [k \in 0..n |-> IF k = 0 THEN Start ELSE Take(f, L[k - 1], ies[k])]
  BY <1>1, LoopDef
<1> HIDE DEF L
<1>3. L[0] = Start /\ \A k \in 1..n : L[k] = Take(f, L[k - 1], ies[k])
  BY <1>1, <1>2
<1>4. Start \in Accs(f, ies, V)
  BY DEF Start, Accs
<1> DEFINE T == {k \in 0..n : L[k] \in Accs(f, ies, V)}
<1>5. 0 \in T
  BY <1>1, <1>3, <1>4
<1>6. ASSUME NEW k \in 0..(n - 1), k \in T
      PROVE  k + 1 \in T
  <2>1. k + 1 \in 1..n /\ k + 1 \in 0..n /\ (k + 1) - 1 = k
    BY <1>1
  <2>2. L[k + 1] = Take(f, L[k], ies[k + 1])
    BY <1>3, <2>1
  <2> QED
    BY <1>1, <1>6, <2>1, <2>2, TakeType
<1>7. 0..n \subseteq T
  <2> HIDE DEF T, n
  <2> QED
    BY <1>1, <1>5, <1>6, UpTo
<1> QED
  BY <1>1, <1>3, <1>7 DEF L

(* The two tables of a kind give an IE the same place.                     *)
LEMMA TwinTables ==
  ASSUME NEW S, NEW V, NEW kind \in Kind, NEW i \in S \X V \X BOOLEAN,
         "UpdateForwardingParameters" \in S, Type(i) # "UpdateForwardingParameters"
  PROVE  LET c == Creates[kind]
             u == Updates[kind]
             j == AsUpdate(i)
         IN  /\ j \in S \X V \X BOOLEAN /\ Val(j) = Val(i) /\ Readable(j) = Readable(i)
             /\ Type(j) = u.id <=> Type(i) = c.id
             /\ Type(j) \in DOMAIN u.names <=> Type(i) \in DOMAIN c.names
             /\ Type(i) \in DOMAIN c.names => u.names[Type(j)] = c.names[Type(i)]
             /\ Type(j) \in u.strict <=> Type(i) \in c.strict
<1> DEFINE j == AsUpdate(i)
           FP == "ForwardingParameters"
<1>1. /\ j \in S \X V \X BOOLEAN /\ Val(j) = Val(i) /\ Readable(j) = Readable(i)
      /\ Type(i) # FP => j = i
      /\ Type(i) = FP => Type(j) = "UpdateForwardingParameters"
  <2>1. i[2] \in V /\ i[3] \in BOOLEAN
    OBVIOUS
  <2>2. CASE Type(i) = FP
    <3>1. j = <<"UpdateForwardingParameters", Val(i), Readable(i)>>
      BY <2>2 DEF AsUpdate
    <3>2. Val(i) \in V /\ Readable(i) \in BOOLEAN
      BY <2>1 DEF Val, Readable
    <3> HIDE DEF j
    <3>3. j[1] = "UpdateForwardingParameters" /\ j[2] = Val(i) /\ j[3] = Readable(i)
      BY <3>1
    <3>4. \A a \in S, b \in V, c \in BOOLEAN : <<a, b, c>> \in S \X V \X BOOLEAN
      OBVIOUS
    <3>5. j \in S \X V \X BOOLEAN
      <4>1. "UpdateForwardingParameters" \in S
        OBVIOUS
      <4>2. <<"UpdateForwardingParameters", Val(i), Readable(i)>> \in S \X V \X BOOLEAN
        BY <3>2, <3>4, <4>1, Zenon
      <4> QED
        BY <3>1, <4>2
    <3> QED
      BY <2>2, <3>3, <3>5 DEF Type, Val, Readable
  <2>3. CASE Type(i) # FP
    BY <2>3 DEF AsUpdate
  <2> QED
    BY <2>2, <2>3
<1>2. ASSUME Creates[kind] = Updates[kind],
             Updates[kind].id \notin {FP, "UpdateForwardingParameters"},
             {FP, "UpdateForwardingParameters"} \intersect DOMAIN Updates[kind].names = {}
      PROVE  /\ Type(j) = Updates[kind].id <=> Type(i) = Creates[kind].id
             /\ Type(j) \in DOMAIN Updates[kind].names <=> Type(i) \in DOMAIN Creates[kind].names
             /\ Type(i) \in DOMAIN Creates[kind].names =>
                  Updates[kind].names[Type(j)] = Creates[kind].names[Type(i)]
             /\ Type(j) \in Updates[kind].strict <=> Type(i) \in Creates[kind].strict
  <2>1. Sound(Updates[kind])
    BY TablesSound
  <2> QED
    BY <1>1, <1>2, <2>1 DEF Sound
<1>3. CASE kind = "PDR"
  <2>1. Creates["PDR"] = CreatePDR /\ Updates["PDR"] = UpdatePDR /\ CreatePDR = UpdatePDR
    BY DEF Creates, Updates, CreatePDR, UpdatePDR, PdrNames, UpdatePdrNames
  <2>2. /\ UpdatePDR.id \notin {FP, "UpdateForwardingParameters"}
        /\ {FP, "UpdateForwardingParameters"} \intersect DOMAIN UpdatePDR.names = {}
    BY DEF UpdatePDR, UpdatePdrNames
  <2> QED
    BY <1>1, <1>2, <1>3, <2>1, <2>2
<1>4. CASE kind = "QER"
  <2>1. Creates["QER"] = CreateQER /\ Updates["QER"] = UpdateQER /\ CreateQER = UpdateQER
    BY DEF Creates, Updates, CreateQER, UpdateQER, QerNames, UpdateQerNames
  <2>2. /\ UpdateQER.id \notin {FP, "UpdateForwardingParameters"}
        /\ {FP, "UpdateForwardingParameters"} \intersect DOMAIN UpdateQER.names = {}
    BY DEF UpdateQER, UpdateQerNames
  <2> QED
    BY <1>1, <1>2, <1>4, <2>1, <2>2
<1>5. CASE kind = "URR"
  <2>1. Creates["URR"] = CreateURR /\ Updates["URR"] = UpdateURR /\ CreateURR = UpdateURR
    BY DEF Creates, Updates, CreateURR, UpdateURR, UrrNames, UpdateUrrNames
  <2>2. /\ UpdateURR.id \notin {FP, "UpdateForwardingParameters"}
        /\ {FP, "UpdateForwardingParameters"} \intersect DOMAIN UpdateURR.names = {}
    BY DEF UpdateURR, UpdateUrrNames
  <2> QED
    BY <1>1, <1>2, <1>5, <2>1, <2>2
<1>6. CASE kind = "BAR"
  <2>1. Creates["BAR"] = CreateBAR /\ Updates["BAR"] = UpdateBAR /\ CreateBAR = UpdateBAR
    BY DEF Creates, Updates, CreateBAR, UpdateBAR, BarNames, UpdateBarNames
  <2>2. /\ UpdateBAR.id \notin {FP, "UpdateForwardingParameters"}
        /\ {FP, "UpdateForwardingParameters"} \intersect DOMAIN UpdateBAR.names = {}
    BY DEF UpdateBAR, UpdateBarNames
  <2> QED
    BY <1>1, <1>2, <1>6, <2>1, <2>2
<1>7. CASE kind = "FAR"
  <2>1. Creates["FAR"] = CreateFAR /\ Updates["FAR"] = UpdateFAR
    BY DEF Creates, Updates
  <2>2. /\ DOMAIN FarNames = {"ApplyAction", FP, "BARID"}
        /\ DOMAIN UpdateFarNames = {"ApplyAction", "UpdateForwardingParameters", "BARID"}
        /\ \A t \in {"ApplyAction", "BARID"} : FarNames[t] = UpdateFarNames[t]
        /\ FarNames[FP] = UpdateFarNames["UpdateForwardingParameters"]
    BY DEF FarNames, UpdateFarNames
  <2>3. /\ CreateFAR.id = "FARID" /\ CreateFAR.names = FarNames
        /\ CreateFAR.strict = {"FARID", "ApplyAction", FP}
        /\ UpdateFAR.id = "FARID" /\ UpdateFAR.names = UpdateFarNames
        /\ UpdateFAR.strict = {"FARID", "ApplyAction", "UpdateForwardingParameters"}
    BY DEF CreateFAR, UpdateFAR
  <2> QED
    BY <1>1, <1>7, <2>1, <2>2, <2>3
<1> QED
  BY <1>1, <1>3, <1>4, <1>5, <1>6, <1>7 DEF Kind

(* gtp5g.go:671, :807: create and update tell the kernel the same about    *)
(* the same IEs, whatever rule it is and in whatever order they come.      *)
THEOREM UpdatesLikeCreates ==
  ASSUME NEW S, NEW V, NEW kind \in Kind, NEW ies \in IEsOver(S, V),
         "UpdateForwardingParameters" \in S
  PROVE  UpdateLikeCreate(kind, ies)
<1> SUFFICES ASSUME \A k \in DOMAIN ies : Type(ies[k]) # "UpdateForwardingParameters"
             PROVE  LET c == Created(kind, ies)
                        u == Updated(kind, [k \in DOMAIN ies |-> AsUpdate(ies[k])])
                    IN  /\ u.err = c.err /\ u.oid = c.oid
                        /\ c.attrs = IF kind = "PDR" THEN Append(u.attrs, SocketAttr) ELSE u.attrs
  BY DEF UpdateLikeCreate
<1> DEFINE n == Len(ies)
           us == [k \in DOMAIN ies |-> AsUpdate(ies[k])]
           C == Loop(Creates[kind], ies)
           U == Loop(Updates[kind], us)
           Same(k) == U[k].err = C[k].err /\ U[k].oid = C[k].oid /\ U[k].attrs = C[k].attrs
<1>1. Sound(Creates[kind]) /\ Sound(Updates[kind])
  BY TablesSound
<1>2. /\ n \in Nat /\ DOMAIN ies = 1..n
      /\ C[0] = Start
      /\ \A k \in 1..n : C[k] = Take(Creates[kind], C[k - 1], ies[k])
      /\ \A k \in 0..n : C[k] \in Accs(Creates[kind], ies, V)
  BY <1>1, LoopSteps
<1>3. \A k \in 1..n : ies[k] \in S \X V \X BOOLEAN
  BY DEF IEsOver
<1>4. ASSUME NEW k \in 1..n
      PROVE  us[k] \in S \X V \X BOOLEAN
  <2>1. ies[k] \in S \X V \X BOOLEAN /\ Type(ies[k]) # "UpdateForwardingParameters"
    BY <1>2, <1>3
  <2>2. us[k] = AsUpdate(ies[k])
    BY <1>2
  <2> QED
    BY <2>1, <2>2, TwinTables
<1>5. us \in IEsOver(S, V) /\ Len(us) = n
  BY <1>2, <1>4 DEF IEsOver
<1>6. \A k \in 1..n : us[k] = AsUpdate(ies[k])
  BY <1>2
<1> HIDE DEF us, n
<1>9. /\ U[0] = Start /\ DOMAIN us = 1..n
      /\ \A k \in 1..n : U[k] = Take(Updates[kind], U[k - 1], us[k])
      /\ \A k \in 0..n : U[k] \in Accs(Updates[kind], us, V)
  BY <1>1, <1>5, LoopSteps
<1> HIDE DEF C, U
<1>7. Same(0)
  BY <1>2, <1>9
<1>8. ASSUME NEW k \in 1..n, Same(k - 1)
      PROVE  Same(k)
  <2> DEFINE i == ies[k]
             c == Creates[kind]
             u == Updates[kind]
  <2>1. k - 1 \in 0..n /\ k \in 0..n /\ k \in DOMAIN us /\ k \in DOMAIN ies
    BY <1>2, <1>9
  <2>2. i \in S \X V \X BOOLEAN /\ Type(i) # "UpdateForwardingParameters"
    BY <1>2, <1>3, <2>1
  <2>3. us[k] = AsUpdate(i)
    BY <1>6
  <2>4. /\ Val(us[k]) = Val(i) /\ Readable(us[k]) = Readable(i)
        /\ Type(us[k]) = u.id <=> Type(i) = c.id
        /\ Type(us[k]) \in DOMAIN u.names <=> Type(i) \in DOMAIN c.names
        /\ Type(i) \in DOMAIN c.names => u.names[Type(us[k])] = c.names[Type(i)]
        /\ Type(us[k]) \in u.strict <=> Type(i) \in c.strict
    BY <2>2, <2>3, TwinTables
  <2>5. \A name : Attr(name, us[k]) = Attr(name, i)
    BY <2>4, Zenon DEF Attr
  <2>6. Type(i) \in DOMAIN c.names => AttrOf(u, us, k) = AttrOf(c, ies, k)
    BY <2>4, <2>5 DEF AttrOf
  <2> DEFINE a == C[k - 1]
             b == U[k - 1]
  <2>7. /\ C[k] = Take(c, a, ies[k]) /\ a \in Accs(c, ies, V) /\ C[k] \in Accs(c, ies, V)
        /\ U[k] = Take(u, b, us[k]) /\ b \in Accs(u, us, V) /\ U[k] \in Accs(u, us, V)
    BY <1>2, <1>9, <2>1
  <2>8. a.err \in BOOLEAN /\ b.err = a.err /\ b.oid = a.oid /\ b.attrs = a.attrs
    BY <1>8, <2>7 DEF Accs
  <2>9. C[k].err \in BOOLEAN /\ U[k].err \in BOOLEAN
    BY <2>7 DEF Accs
  <2> HIDE DEF a, b, c, u
  <2>10. Effect(c, ies, k, a, C[k])
    BY <1>1, <2>1, <2>7, TakeFields DEF c
  <2>11. Effect(u, us, k, b, U[k])
    BY <1>1, <1>5, <2>1, <2>7, TakeFields DEF u
  <2> HIDE DEF i
  <2>12. (U[k].err <=> C[k].err) /\ U[k].oid = C[k].oid /\ U[k].attrs = C[k].attrs
    BY <2>4, <2>6, <2>8, <2>10, <2>11 DEF Effect, c, u, i
  <2> QED
    BY <2>9, <2>12
<1>10. Same(n)
  <2> DEFINE T == {k \in 0..n : Same(k)}
  <2>1. 0 \in T
    BY <1>2, <1>7
  <2>2. ASSUME NEW k \in 0..(n - 1), k \in T
        PROVE  k + 1 \in T
    <3>1. k + 1 \in 1..n /\ (k + 1) - 1 = k /\ Same(k) /\ k + 1 \in 0..n
      BY <1>2, <2>2
    <3> QED
      BY <1>8, <3>1
  <2>3. 0..n \subseteq T
    <3> HIDE DEF T
    <3> QED
      BY <1>2, <2>1, <2>2, UpTo
  <2> QED
    BY <1>2, <2>3
<1>11. C[n] \in Accs(Creates[kind], ies, V) /\ Len(us) = n
  BY <1>2, <1>5
<1>12. Translate(Creates[kind], ies) = C[n] /\ Updated(kind, us) = U[n]
  BY <1>11 DEF Translate, Updated, C, U, n
<1>13. CASE kind = "PDR"
  <2>1. Created(kind, ies) = [C[n] EXCEPT !.attrs = Append(C[n].attrs, SocketAttr)]
    BY <1>12, <1>13 DEF Created
  <2>2. LET c == Created(kind, ies)
        IN  c.err = C[n].err /\ c.oid = C[n].oid /\ c.attrs = Append(C[n].attrs, SocketAttr)
    BY <1>11, <2>1 DEF Accs
  <2> QED
    BY <1>10, <1>12, <1>13, <2>2 DEF us
<1>14. CASE kind # "PDR"
  <2>1. Created(kind, ies) = C[n]
    BY <1>12, <1>14 DEF Created
  <2> QED
    BY <1>10, <1>12, <1>14, <2>1 DEF us
<1> QED
  BY <1>13, <1>14

(* Of IE j: it ends the loop, it holds the ID, it becomes an attribute.    *)
Fails(f, ies, j) == ~Readable(ies[j]) /\ Type(ies[j]) \in f.strict
Names(f, ies, j) == Readable(ies[j]) /\ Type(ies[j]) = f.id
Says(f, ies, j)  == Readable(ies[j]) /\ Type(ies[j]) \in DOMAIN f.names

(* What the loop has after k IEs, said without their order.                *)
Gathered(f, ies, k, a) ==
  /\ a.err <=> \E j \in 1..k : Fails(f, ies, j)
  /\ ~a.err =>
       /\ \A x : (\E p \in DOMAIN a.attrs : a.attrs[p] = x) <=>
                 \E j \in 1..k : Says(f, ies, j) /\ \E p \in DOMAIN AttrOf(f, ies, j) :
                                                      AttrOf(f, ies, j)[p] = x
       /\ \A p, q \in DOMAIN a.attrs : a.attrs[p] = a.attrs[q] => p = q
       /\ \A j \in 1..k : Names(f, ies, j) => a.oid = Val(ies[j])
       /\ (\A j \in 1..k : ~Names(f, ies, j)) => a.oid = 0

(* An IE adds an attribute of its own name, or none.                       *)
LEMMA AttrOfOne ==
  ASSUME NEW f, NEW ies, NEW k
  PROVE  \/ AttrOf(f, ies, k) = <<>> /\ DOMAIN AttrOf(f, ies, k) = {}
         \/ \E y : /\ AttrOf(f, ies, k) = <<y>> /\ y[1] = f.names[Type(ies[k])]
                   /\ DOMAIN AttrOf(f, ies, k) = {1} /\ AttrOf(f, ies, k)[1] = y
<1>1. CASE AttrOf(f, ies, k) = <<>>
  BY <1>1
<1>2. CASE AttrOf(f, ies, k) # <<>>
  <2>1. PICK x : AttrOf(f, ies, k) = << <<f.names[Type(ies[k])], x>> >>
    BY <1>2, AttrShape DEF AttrOf
  <2> QED
    BY <2>1
<1> QED
  BY <1>1, <1>2

(* One IE more: nothing of what was gathered is lost or said twice.        *)
LEMMA GatheredStep ==
  ASSUME NEW S, NEW V, NEW ies \in IEsOver(S, V), NEW f, Sound(f), Once(ies),
         NEW k \in Nat, k + 1 \in DOMAIN ies,
         NEW a \in Accs(f, ies, V), NEW b \in Accs(f, ies, V),
         b = Take(f, a, ies[k + 1]), Gathered(f, ies, k, a)
  PROVE  Gathered(f, ies, k + 1, b)
<1> DEFINE i == ies[k + 1]
<1>1. /\ 1..(k + 1) = (1..k) \union {k + 1}
      /\ k + 1 \notin 1..k /\ 1..(k + 1) \subseteq DOMAIN ies
      /\ Len(ies) \in Nat /\ DOMAIN ies = 1..Len(ies)
  BY DEF IEsOver
<1>2. Effect(f, ies, k + 1, a, b)
  BY TakeFields
<1>3. Readable(i) \in BOOLEAN /\ a.err \in BOOLEAN /\ b.err \in BOOLEAN
  BY DEF IEsOver, Readable, Accs
<1>4. \A j \in 1..k : Type(ies[j]) # Type(i)
  BY <1>1 DEF Once
<1>5. f.id \notin DOMAIN f.names /\ f.strict \subseteq {f.id} \union DOMAIN f.names
  BY DEF Sound
<1>6. CASE a.err
  BY <1>1, <1>2, <1>3, <1>6 DEF Effect, Gathered
<1>7. CASE ~a.err /\ Type(i) \notin {f.id} \union DOMAIN f.names
  <2>1. b = a /\ ~Fails(f, ies, k + 1) /\ ~Names(f, ies, k + 1) /\ ~Says(f, ies, k + 1)
    BY <1>2, <1>5, <1>7 DEF Effect, Fails, Names, Says
  <2> QED
    BY <1>1, <2>1 DEF Gathered
<1>8. CASE ~a.err /\ Type(i) \in {f.id} \union DOMAIN f.names /\ ~Readable(i)
  <2>1. /\ b.err <=> Fails(f, ies, k + 1)
        /\ b.attrs = a.attrs /\ b.oid = a.oid
        /\ ~Names(f, ies, k + 1) /\ ~Says(f, ies, k + 1)
    BY <1>2, <1>8 DEF Effect, Fails, Names, Says
  <2> QED
    BY <1>1, <1>8, <2>1 DEF Gathered
<1>9. CASE ~a.err /\ Type(i) = f.id /\ Readable(i)
  <2>1. /\ ~b.err /\ b.attrs = a.attrs /\ b.oid = Val(i)
        /\ ~Fails(f, ies, k + 1) /\ ~Says(f, ies, k + 1) /\ Names(f, ies, k + 1)
    BY <1>2, <1>5, <1>9 DEF Effect, Fails, Names, Says
  <2>2. \A j \in 1..k : ~Names(f, ies, j)
    BY <1>4, <1>9 DEF Names
  <2>3. \A j \in 1..(k + 1) : Names(f, ies, j) => j = k + 1
    BY <1>1, <2>2
  <2>4. ~a.err /\ Val(ies[k + 1]) = b.oid
    BY <1>9, <2>1
  <2>5. \A j \in 1..(k + 1) : Names(f, ies, j) => b.oid = Val(ies[j])
    BY <2>3, <2>4
  <2>6. \A j \in 1..(k + 1) : ~Fails(f, ies, j)
    BY <1>1, <2>1, <2>4 DEF Gathered
  <2>7. \A j : (j \in 1..(k + 1) /\ Says(f, ies, j)) <=> (j \in 1..k /\ Says(f, ies, j))
    BY <1>1, <2>1
  <2>8. ~ \A j \in 1..(k + 1) : ~Names(f, ies, j)
    BY <1>1, <2>1
  <2>9. \A x : (\E p \in DOMAIN b.attrs : b.attrs[p] = x) <=>
                 \E j \in 1..(k + 1) : Says(f, ies, j) /\ \E p \in DOMAIN AttrOf(f, ies, j) :
                                                            AttrOf(f, ies, j)[p] = x
    BY <2>1, <2>4, <2>7 DEF Gathered
  <2>10. \A p, q \in DOMAIN b.attrs : b.attrs[p] = b.attrs[q] => p = q
    BY <2>1, <2>4 DEF Gathered
  <2>11. b.err <=> \E j \in 1..(k + 1) : Fails(f, ies, j)
    BY <2>1, <2>6
  <2> QED
    BY <2>5, <2>8, <2>9, <2>10, <2>11 DEF Gathered
<1>10. CASE ~a.err /\ Type(i) \in DOMAIN f.names /\ Readable(i)
  <2> DEFINE A == AttrOf(f, ies, k + 1)
  <2>1. /\ ~b.err /\ b.attrs = a.attrs \o A /\ b.oid = a.oid
        /\ ~Fails(f, ies, k + 1) /\ Says(f, ies, k + 1) /\ ~Names(f, ies, k + 1)
    BY <1>2, <1>5, <1>10 DEF Effect, Fails, Names, Says
  <2>2. a.attrs \in Seq({AttrOf(f, ies, j)[1] : j \in DOMAIN ies})
    BY DEF Accs
  <2>3. Len(a.attrs) \in Nat /\ DOMAIN a.attrs = 1..Len(a.attrs)
    BY <2>2
  <2>4. CASE A = <<>> /\ DOMAIN A = {}
    <3>1. b.attrs = a.attrs
      BY <2>1, <2>2, <2>4, ConcatEmptySeq
    <3>2. ASSUME NEW x
          PROVE  (\E j \in 1..(k + 1) : Says(f, ies, j) /\ \E p \in DOMAIN AttrOf(f, ies, j) :
                                                            AttrOf(f, ies, j)[p] = x)
                   <=> \E j \in 1..k : Says(f, ies, j) /\ \E p \in DOMAIN AttrOf(f, ies, j) :
                                                            AttrOf(f, ies, j)[p] = x
      BY <1>1, <2>4
    <3> HIDE DEF A
    <3>3. \A x : (\E p \in DOMAIN b.attrs : b.attrs[p] = x) <=>
                   \E j \in 1..(k + 1) : Says(f, ies, j) /\ \E p \in DOMAIN AttrOf(f, ies, j) :
                                                              AttrOf(f, ies, j)[p] = x
      BY <1>10, <3>1, <3>2 DEF Gathered
    <3>4. \A p, q \in DOMAIN b.attrs : b.attrs[p] = b.attrs[q] => p = q
      BY <1>10, <3>1 DEF Gathered
    <3>5. b.err <=> \E j \in 1..(k + 1) : Fails(f, ies, j)
      BY <1>1, <1>10, <2>1 DEF Gathered
    <3>6. /\ \A j \in 1..(k + 1) : Names(f, ies, j) => b.oid = Val(ies[j])
          /\ (\A j \in 1..(k + 1) : ~Names(f, ies, j)) => b.oid = 0
      BY <1>1, <1>10, <2>1 DEF Gathered
    <3> QED
      BY <3>3, <3>4, <3>5, <3>6 DEF Gathered
  <2>5. ASSUME NEW y, A = <<y>>, y[1] = f.names[Type(i)], DOMAIN A = {1}, A[1] = y
        PROVE  Gathered(f, ies, k + 1, b)
    <3>1. b.attrs = Append(a.attrs, y)
      <4> DEFINE U == {AttrOf(f, ies, j)[1] : j \in DOMAIN ies}
      <4>1. y \in U
        BY <2>5
      <4>2. a.attrs \in Seq(U)
        BY <2>2
      <4> HIDE DEF U
      <4> QED
        BY <2>1, <2>5, <4>1, <4>2, AppendIsConcat
    <3>2. /\ DOMAIN b.attrs = DOMAIN a.attrs \union {Len(a.attrs) + 1}
          /\ b.attrs[Len(a.attrs) + 1] = y /\ Len(a.attrs) + 1 \notin DOMAIN a.attrs
          /\ \A p \in DOMAIN a.attrs : b.attrs[p] = a.attrs[p]
      BY <2>2, <2>3, <3>1
    <3>3. \A p \in DOMAIN a.attrs : a.attrs[p] # y
      <4> SUFFICES ASSUME NEW p \in DOMAIN a.attrs, a.attrs[p] = y
                   PROVE  FALSE
        OBVIOUS
      <4>1. PICK j \in 1..k : Says(f, ies, j) /\ \E q \in DOMAIN AttrOf(f, ies, j) :
                                                   AttrOf(f, ies, j)[q] = y
        BY <1>10 DEF Gathered
      <4>2. y[1] = f.names[Type(ies[j])]
        BY <4>1, AttrOfOne
      <4>3. Type(ies[j]) = Type(i)
        BY <1>10, <2>5, <4>1, <4>2 DEF Sound, Says
      <4> QED
        BY <1>4, <4>3
    <3>4. ASSUME NEW x
          PROVE  (\E p \in DOMAIN b.attrs : b.attrs[p] = x) <=>
                 \E j \in 1..(k + 1) : Says(f, ies, j) /\ \E p \in DOMAIN AttrOf(f, ies, j) :
                                                            AttrOf(f, ies, j)[p] = x
      <4>1. (\E p \in DOMAIN b.attrs : b.attrs[p] = x)
              <=> (\E p \in DOMAIN a.attrs : a.attrs[p] = x) \/ x = y
        BY <3>2
      <4>2. (\E p \in DOMAIN A : A[p] = x) <=> x = y
        BY <2>5
      <4>3. (\E p \in DOMAIN a.attrs : a.attrs[p] = x) <=>
                 \E j \in 1..k : Says(f, ies, j) /\ \E p \in DOMAIN AttrOf(f, ies, j) :
                                                      AttrOf(f, ies, j)[p] = x
        BY <1>10 DEF Gathered
      <4> QED
        BY <1>1, <2>1, <4>1, <4>2, <4>3
    <3>5. \A p, q \in DOMAIN b.attrs : b.attrs[p] = b.attrs[q] => p = q
      BY <1>10, <3>2, <3>3 DEF Gathered
    <3> QED
      BY <1>1, <1>10, <2>1, <3>4, <3>5 DEF Gathered
  <2> QED
    BY <2>4, <2>5, AttrOfOne
<1> QED
  BY <1>3, <1>6, <1>7, <1>8, <1>9, <1>10

(* So after all IEs, for a loop with any table.                            *)
LEMMA AllGathered ==
  ASSUME NEW S, NEW V, NEW ies \in IEsOver(S, V), NEW f, Sound(f), Once(ies)
  PROVE  Gathered(f, ies, Len(ies), Translate(f, ies)) /\ Translate(f, ies) \in Accs(f, ies, V)
<1> DEFINE n == Len(ies)
           L == Loop(f, ies)
           T == {k \in 0..n : Gathered(f, ies, k, L[k])}
<1>1. /\ n \in Nat /\ DOMAIN ies = 1..n
      /\ L[0] = Start
      /\ \A k \in 1..n : L[k] = Take(f, L[k - 1], ies[k])
      /\ \A k \in 0..n : L[k] \in Accs(f, ies, V)
  BY LoopSteps
<1>2. Translate(f, ies) = L[n]
  BY DEF Translate
<1> HIDE DEF L
<1>3. 0 \in T
  <2>1. 1..0 = {}
    OBVIOUS
  <2>2. Gathered(f, ies, 0, Start)
    BY <2>1 DEF Gathered, Start
  <2> QED
    BY <1>1, <2>2
<1>4. ASSUME NEW k \in 0..(n - 1), k \in T
      PROVE  k + 1 \in T
  <2>1. /\ k \in Nat /\ k \in 0..n /\ k + 1 \in 0..n /\ k + 1 \in 1..n
        /\ (k + 1) - 1 = k
    BY <1>1
  <2>2. L[k + 1] = Take(f, L[k], ies[k + 1]) /\ L[k] \in Accs(f, ies, V)
        /\ L[k + 1] \in Accs(f, ies, V) /\ k + 1 \in DOMAIN ies
    BY <1>1, <2>1
  <2> QED
    BY <1>4, <2>1, <2>2, GatheredStep
<1>5. 0..n \subseteq T
  <2> HIDE DEF T, n
  <2> QED
    BY <1>1, <1>3, <1>4, UpTo
<1> QED
  BY <1>1, <1>2, <1>5

(* gtp5g.go:306, :807: a rule that names no IE twice is told to the kernel *)
(* alike in every order of its IEs.                                        *)
THEOREM OrdersIrrelevant ==
  ASSUME NEW S, NEW V, NEW kind \in Kind, NEW ies \in IEsOver(S, V), Once(ies)
  PROVE  OrderIrrelevant(kind, ies)
<1> DEFINE n == Len(ies)
           f == Updates[kind]
           t == Updated(kind, ies)
           read == {i \in Range(ies) : Readable(i)}
           said == {i \in read : Type(i) \in DOMAIN f.names}
<1>1. /\ Gathered(f, ies, n, t) /\ t \in Accs(f, ies, V)
      /\ n \in Nat /\ DOMAIN ies = 1..n
  <2>1. Sound(f)
    BY TablesSound
  <2>2. t = Translate(f, ies)
    BY DEF Updated
  <2>3. n \in Nat /\ DOMAIN ies = 1..n
    BY DEF IEsOver
  <2> HIDE DEF t, f
  <2> QED
    BY <2>1, <2>2, <2>3, AllGathered
<1>2. Range(ies) = {ies[j] : j \in 1..n}
  BY <1>1 DEF Range
<1>3. t.err \in BOOLEAN /\ \A j \in 1..n : Readable(ies[j]) \in BOOLEAN
  BY <1>1 DEF Accs, IEsOver, Readable
<1> HIDE DEF t, n
<1>4. t.err <=> \E i \in Range(ies) \ read : Type(i) \in f.strict
  BY <1>1, <1>2, <1>3 DEF Gathered, Fails
<1>5. ASSUME ~t.err
      PROVE  Range(t.attrs) = UNION {Range(Attr(f.names[Type(i)], i)) : i \in said}
  <2>1. \A x : x \in Range(t.attrs) <=> \E p \in DOMAIN t.attrs : t.attrs[p] = x
    BY DEF Range
  <2>2. \A j, x : x \in Range(AttrOf(f, ies, j)) <=> \E p \in DOMAIN AttrOf(f, ies, j) :
                                                       AttrOf(f, ies, j)[p] = x
    BY DEF Range
  <2>3. \A x : x \in Range(t.attrs) <=>
                 \E j \in 1..n : Says(f, ies, j) /\ x \in Range(AttrOf(f, ies, j))
    BY <1>1, <1>5, <2>1, <2>2 DEF Gathered
  <2>4. \A i : i \in said <=> \E j \in 1..n : i = ies[j] /\ Says(f, ies, j)
    BY <1>2 DEF Says
  <2> HIDE DEF said
  <2> QED
    BY <2>3, <2>4 DEF AttrOf
<1>6. ~t.err => IsInjective(t.attrs)
  BY <1>1 DEF Gathered, IsInjective
<1>7. ASSUME ~t.err
      PROVE  t.oid = IF \E i \in read : Type(i) = f.id
                     THEN Val(CHOOSE i \in read : Type(i) = f.id) ELSE 0
  <2>1. \A i : i \in read /\ Type(i) = f.id <=> \E j \in 1..n : i = ies[j] /\ Names(f, ies, j)
    BY <1>2 DEF Names
  <2>2. CASE \E i \in read : Type(i) = f.id
    <3> DEFINE i == CHOOSE i \in read : Type(i) = f.id
    <3>1. i \in read /\ Type(i) = f.id
      BY <2>2
    <3> HIDE DEF i
    <3>2. PICK j \in 1..n : i = ies[j] /\ Names(f, ies, j)
      BY <2>1, <3>1
    <3>3. t.oid = Val(i)
      BY <1>1, <1>7, <3>2 DEF Gathered
    <3> QED
      BY <2>2, <3>3 DEF i
  <2>3. CASE ~ \E i \in read : Type(i) = f.id
    <3>1. \A j \in 1..n : ~Names(f, ies, j)
      BY <2>1, <2>3
    <3> QED
      BY <1>1, <1>7, <2>3, <3>1 DEF Gathered
  <2> QED
    BY <2>2, <2>3
<1> QED
  <2>1. t.err = \E i \in Range(ies) \ read : Type(i) \in f.strict
    BY <1>3, <1>4
  <2> QED
    BY <1>5, <1>6, <1>7, <2>1 DEF OrderIrrelevant, t

-----------------------------------------------------------------------------
(* The accessor of a grouped IE finds the one IE with the ID.              *)
LEMMA FirstIDIs ==
  ASSUME NEW S, NEW V, NEW kind \in Kind, NEW ies \in IEsOver(S, V), Once(ies)
  PROVE  /\ \A j \in DOMAIN ies : Names(Creates[kind], ies, j) => FirstID(kind, ies) = Val(ies[j])
         /\ (\A j \in DOMAIN ies : ~Names(Creates[kind], ies, j)) => FirstID(kind, ies) = NoID
<1> DEFINE c == Creates[kind]
           ids == {k \in DOMAIN ies : Type(ies[k]) = c.id}
<1>1. DOMAIN ies \subseteq Nat /\ \A k \in DOMAIN ies : Readable(ies[k]) \in BOOLEAN
  BY DEF IEsOver, Readable
<1>2. FirstID(kind, ies) = IF ids = {} \/ ~Readable(ies[Min(ids)]) THEN NoID ELSE Val(ies[Min(ids)])
  BY DEF FirstID
<1>3. ASSUME NEW j \in ids
      PROVE  ids # {} /\ Min(ids) = j
  <2>1. ids = {j}
    BY DEF Once
  <2>2. \A x : x \in ids /\ (\A y \in ids : x <= y) <=> x = j
    BY <1>1, <2>1
  <2> HIDE DEF ids
  <2> QED
    BY <1>3, <2>2 DEF Min
<1> HIDE DEF c
<1>4. ASSUME NEW j \in DOMAIN ies, Names(c, ies, j)
      PROVE  FirstID(kind, ies) = Val(ies[j])
  <2>1. j \in ids /\ Readable(ies[j])
    BY <1>4 DEF Names
  <2> QED
    BY <1>2, <1>3, <2>1
<1>5. ASSUME \A j \in DOMAIN ies : ~Names(c, ies, j)
      PROVE  FirstID(kind, ies) = NoID
  <2>1. CASE ids = {}
    BY <1>2, <2>1
  <2>2. ASSUME NEW j \in ids
        PROVE  FirstID(kind, ies) = NoID
    <3>1. ~Readable(ies[j])
      BY <1>5 DEF Names
    <3> QED
      BY <1>2, <1>3, <3>1
  <2> HIDE DEF ids
  <2> QED
    BY <2>1, <2>2
<1> QED
  BY <1>4, <1>5 DEF c

(* Both loops of a kind read the ID from the same IE.                      *)
LEMMA SameID ==
  ASSUME NEW kind \in Kind
  PROVE  Creates[kind].id = Updates[kind].id
<1>1. CASE kind = "PDR"
  BY <1>1 DEF Creates, Updates, CreatePDR, UpdatePDR
<1>2. CASE kind = "FAR"
  BY <1>2 DEF Creates, Updates, CreateFAR, UpdateFAR
<1>3. CASE kind = "QER"
  BY <1>3 DEF Creates, Updates, CreateQER, UpdateQER
<1>4. CASE kind = "URR"
  BY <1>4 DEF Creates, Updates, CreateURR, UpdateURR
<1>5. CASE kind = "BAR"
  BY <1>5 DEF Creates, Updates, CreateBAR, UpdateBAR
<1> QED
  BY <1>1, <1>2, <1>3, <1>4, <1>5 DEF Kind

(* node.go:116: Sess records a rule under the ID the driver gave it, for   *)
(* rules of every kind with their IEs in every order; IDs are unsigned.    *)
THEOREM RecordsAsMade ==
  ASSUME NEW S, NEW V, NEW kind \in Kind, NEW ies \in IEsOver(S, V), Once(ies),
         \A j \in DOMAIN ies : Type(ies[j]) = Creates[kind].id => Val(ies[j]) \in Nat
  PROVE  RecordedAsMade(kind, ies)
<1> DEFINE f == Creates[kind]
           t == Translate(f, ies)
           c == Created(kind, ies)
           n == Len(ies)
<1>1. Sound(f) /\ n \in Nat /\ DOMAIN ies = 1..n
  BY TablesSound DEF IEsOver
<1>2. Gathered(f, ies, n, t) /\ t \in Accs(f, ies, V)
  <2> HIDE DEF f
  <2> QED
    BY <1>1, AllGathered
<1>3. c.err = t.err /\ c.oid = t.oid
  <2>1. CASE kind = "PDR"
    <3>1. c = [t EXCEPT !.attrs = Append(t.attrs, SocketAttr)]
      BY <2>1 DEF Created
    <3> HIDE DEF c, t
    <3> QED
      BY <1>2, <3>1 DEF Accs
  <2>2. CASE kind # "PDR"
    BY <2>2 DEF Created
  <2> QED
    BY <2>1, <2>2
<1>4. Recorded(kind, ies) = IF c.err THEN NoID ELSE FirstID(kind, ies)
  BY DEF Recorded
<1>5. Removed(kind, ies) = FirstID(kind, ies)
  BY DEF Removed
<1> HIDE DEF t, c, f
<1>6. ASSUME ~c.err
      PROVE  LET r == Recorded(kind, ies)
             IN  IF r = NoID THEN c.oid = 0 ELSE c.oid = r /\ Removed(kind, ies) = c.oid
  <2>1. ~t.err
    BY <1>3, <1>6
  <2>2. CASE \A j \in 1..n : ~Names(f, ies, j)
    <3>1. FirstID(kind, ies) = NoID
      BY <1>1, <2>2, FirstIDIs DEF f
    <3>2. t.oid = 0
      BY <1>2, <2>1, <2>2 DEF Gathered
    <3> QED
      BY <1>3, <1>4, <1>6, <3>1, <3>2
  <2>3. ASSUME NEW j \in 1..n, Names(f, ies, j)
        PROVE  LET r == Recorded(kind, ies)
               IN  IF r = NoID THEN c.oid = 0 ELSE c.oid = r /\ Removed(kind, ies) = c.oid
    <3>1. FirstID(kind, ies) = Val(ies[j]) /\ Val(ies[j]) \in Nat
      BY <1>1, <2>3, FirstIDIs DEF f, Names
    <3>2. t.oid = Val(ies[j])
      BY <1>2, <2>1, <2>3 DEF Gathered
    <3>3. Val(ies[j]) # NoID
      BY <3>1 DEF NoID
    <3> QED
      BY <1>3, <1>4, <1>5, <1>6, <3>1, <3>2, <3>3
  <2> QED
    BY <2>2, <2>3
<1> QED
  BY <1>6 DEF RecordedAsMade, c

(* Of IE j: an ApplyAction that can be read.                               *)
Acts(ies, j) == Readable(ies[j]) /\ Type(ies[j]) = "ApplyAction"

(* Which queues the loop has emptied after k IEs.                          *)
Drained(f, ies, k, a) ==
  /\ ~f.drains => a.drained = <<>>
  /\ f.drains /\ ~a.err =>
       /\ (\A j \in 1..k : ~Acts(ies, j)) => a.drained = <<>>
       /\ \A j \in 1..k : Acts(ies, j) =>
            \E oid : /\ a.drained = <<oid>>
                     /\ (\A i \in 1..(j - 1) : ~Names(f, ies, i)) => oid = 0
                     /\ \A i \in 1..(j - 1) : Names(f, ies, i) => oid = Val(ies[i])

(* One IE more empties queues only for an ApplyAction.                     *)
LEMMA DrainedStep ==
  ASSUME NEW S, NEW V, NEW ies \in IEsOver(S, V), NEW f, Sound(f), Once(ies),
         "ApplyAction" \in DOMAIN f.names \/ ~f.drains,
         NEW k \in Nat, k + 1 \in DOMAIN ies,
         NEW a \in Accs(f, ies, V), NEW b \in Accs(f, ies, V),
         b = Take(f, a, ies[k + 1]), Gathered(f, ies, k, a), Drained(f, ies, k, a)
  PROVE  Drained(f, ies, k + 1, b)
<1> DEFINE i == ies[k + 1]
<1>1. /\ 1..(k + 1) = (1..k) \union {k + 1}
      /\ 1..(k + 1) \subseteq DOMAIN ies /\ (k + 1) - 1 = k /\ k + 1 \notin 1..k
  BY DEF IEsOver
<1>2. Effect(f, ies, k + 1, a, b)
  BY TakeFields
<1>3. Readable(i) \in BOOLEAN /\ a.err \in BOOLEAN /\ b.err \in BOOLEAN /\ f.drains \in BOOLEAN
  BY DEF IEsOver, Readable, Accs, Sound
<1>4. CASE ~f.drains
  <2>1. a.drained = <<>>
    BY <1>4 DEF Drained
  <2>2. b.drained = a.drained
    BY <1>2, <1>3, <1>4 DEF Effect
  <2> QED
    BY <1>4, <2>1, <2>2 DEF Drained
<1>5. CASE f.drains /\ a.err
  BY <1>2, <1>5 DEF Effect, Drained
<1>6. CASE f.drains /\ ~a.err /\ ~Acts(ies, k + 1)
  <2>1. b.drained = a.drained
    BY <1>2, <1>3, <1>6 DEF Effect, Acts
  <2>2. \A j \in 1..(k + 1) : Acts(ies, j) => j \in 1..k
    BY <1>1, <1>6
  <2> QED
    BY <1>1, <1>6, <2>1, <2>2 DEF Drained
<1>7. CASE f.drains /\ ~a.err /\ Acts(ies, k + 1)
  <2>1. \A j \in 1..(k + 1) : Acts(ies, j) => j = k + 1
    BY <1>1, <1>7 DEF Acts, Once
  <2>2. a.drained = <<>>
    BY <1>1, <1>7, <2>1 DEF Drained
  <2>3. b.drained = Append(a.drained, a.oid)
    BY <1>2, <1>7 DEF Effect, Acts
  <2>4. b.drained = <<a.oid>>
    BY <2>2, <2>3
  <2>5. /\ (\A j \in 1..k : ~Names(f, ies, j)) => a.oid = 0
        /\ \A j \in 1..k : Names(f, ies, j) => a.oid = Val(ies[j])
    BY <1>7 DEF Gathered
  <2>6. ~ \A j \in 1..(k + 1) : ~Acts(ies, j)
    BY <1>1, <1>7
  <2> QED
    BY <1>1, <1>7, <2>1, <2>4, <2>5, <2>6 DEF Drained
<1> QED
  BY <1>3, <1>4, <1>5, <1>6, <1>7

(* So after all IEs.                                                       *)
LEMMA AllDrained ==
  ASSUME NEW S, NEW V, NEW ies \in IEsOver(S, V), NEW f, Sound(f), Once(ies),
         "ApplyAction" \in DOMAIN f.names \/ ~f.drains
  PROVE  Drained(f, ies, Len(ies), Translate(f, ies))
<1> DEFINE n == Len(ies)
           L == Loop(f, ies)
           T == {k \in 0..n : Gathered(f, ies, k, L[k]) /\ Drained(f, ies, k, L[k])}
<1>1. /\ n \in Nat /\ DOMAIN ies = 1..n
      /\ L[0] = Start
      /\ \A k \in 1..n : L[k] = Take(f, L[k - 1], ies[k])
      /\ \A k \in 0..n : L[k] \in Accs(f, ies, V)
  BY LoopSteps
<1>2. Translate(f, ies) = L[n]
  BY DEF Translate
<1> HIDE DEF L
<1>3. 0 \in T
  <2>1. 1..0 = {}
    OBVIOUS
  <2>2. Gathered(f, ies, 0, Start)
    BY <2>1 DEF Gathered, Start
  <2>3. Drained(f, ies, 0, Start)
    BY <2>1 DEF Drained, Start
  <2> QED
    BY <1>1, <2>2, <2>3
<1>4. ASSUME NEW k \in 0..(n - 1), k \in T
      PROVE  k + 1 \in T
  <2>1. /\ k \in Nat /\ k \in 0..n /\ k + 1 \in 0..n /\ k + 1 \in 1..n
        /\ (k + 1) - 1 = k
    BY <1>1
  <2>2. L[k + 1] = Take(f, L[k], ies[k + 1]) /\ L[k] \in Accs(f, ies, V)
        /\ L[k + 1] \in Accs(f, ies, V) /\ k + 1 \in DOMAIN ies
    BY <1>1, <2>1
  <2>3. Gathered(f, ies, k + 1, L[k + 1])
    BY <1>4, <2>1, <2>2, GatheredStep
  <2>4. Drained(f, ies, k + 1, L[k + 1])
    BY <1>4, <2>1, <2>2, DrainedStep
  <2> QED
    BY <2>1, <2>3, <2>4
<1>5. 0..n \subseteq T
  <2> HIDE DEF T, n
  <2> QED
    BY <1>1, <1>3, <1>4, UpTo
<1> QED
  BY <1>1, <1>2, <1>5

(* gtp5g.go:630: only an update of a FAR empties queues, once for its      *)
(* ApplyAction: its own, unless the ID comes later.                        *)
THEOREM DrainsOwn ==
  ASSUME NEW S, NEW V, NEW kind \in Kind, NEW ies \in IEsOver(S, V), Once(ies)
  PROVE  DrainsOwnFar(kind, ies)
<1> DEFINE n == Len(ies)
           u == Updated(kind, ies)
           read == {k \in DOMAIN ies : Readable(ies[k])}
           id   == {k \in read : Type(ies[k]) = "FARID"}
           act  == {k \in read : Type(ies[k]) = "ApplyAction"}
<1>1. n \in Nat /\ DOMAIN ies = 1..n
  BY DEF IEsOver
<1>2. Sound(Creates[kind]) /\ Sound(Updates[kind])
  BY TablesSound
<1>3. ~Creates[kind].drains /\ (kind # "FAR" => ~Updates[kind].drains)
  BY DEF Kind, Creates, Updates, CreatePDR, UpdatePDR, CreateFAR, UpdateFAR, CreateQER,
         UpdateQER, CreateURR, UpdateURR, CreateBAR, UpdateBAR
<1>4. Created(kind, ies).drained = <<>>
  <2> DEFINE t == Translate(Creates[kind], ies)
  <2>1. t \in Accs(Creates[kind], ies, V) /\ t.drained = <<>>
    <3>1. Drained(Creates[kind], ies, n, t)
      BY <1>2, <1>3, AllDrained
    <3>2. t \in Accs(Creates[kind], ies, V)
      BY <1>2, AllGathered
    <3> HIDE DEF t
    <3> QED
      BY <1>3, <3>1, <3>2 DEF Drained
  <2>2. CASE kind = "PDR"
    <3>1. Created(kind, ies) = [t EXCEPT !.attrs = Append(t.attrs, SocketAttr)]
      BY <2>2 DEF Created
    <3> HIDE DEF t
    <3> QED
      BY <2>1, <3>1 DEF Accs
  <2>3. CASE kind # "PDR"
    BY <2>1, <2>3 DEF Created
  <2> QED
    BY <2>2, <2>3
<1>5. kind # "FAR" => u.drained = <<>>
  <2> SUFFICES ASSUME kind # "FAR"
               PROVE  u.drained = <<>>
    OBVIOUS
  <2>1. Drained(Updates[kind], ies, n, Translate(Updates[kind], ies))
    BY <1>2, <1>3, AllDrained
  <2> QED
    BY <1>3, <2>1 DEF Drained, Updated
<1>6. ASSUME kind = "FAR", ~u.err
      PROVE  /\ Len(u.drained) = Cardinality(act)
             /\ \A a \in act :
                  u.drained[1] = IF \E k \in id : k < a THEN FirstID(kind, ies) ELSE 0
  <2> DEFINE f == Updates["FAR"]
  <2>1. f.id = "FARID" /\ f.drains /\ "ApplyAction" \in DOMAIN f.names
    BY DEF Updates, UpdateFAR, UpdateFarNames
  <2>2. Drained(f, ies, n, u)
    BY <1>2, <1>6, <2>1, AllDrained DEF Updated
  <2>3. \A j : Names(f, ies, j) <=> Readable(ies[j]) /\ Type(ies[j]) = "FARID"
    BY <2>1 DEF Names
  <2>4. \A j \in DOMAIN ies : Names(f, ies, j) => FirstID(kind, ies) = Val(ies[j])
    <3>1. \A j : Names(f, ies, j) <=> Names(Creates[kind], ies, j)
      BY <1>6, SameID DEF Names
    <3> QED
      BY <3>1, FirstIDIs
  <2> HIDE DEF f, u, n
  <2>5. CASE act = {}
    <3>1. \A j \in 1..n : ~Acts(ies, j)
      BY <1>1, <2>5 DEF Acts
    <3>2. u.drained = <<>>
      BY <1>6, <2>1, <2>2, <3>1 DEF Drained
    <3> QED
      BY <2>5, <3>2, FS_EmptySet
  <2>6. ASSUME NEW a \in act
        PROVE  /\ Len(u.drained) = Cardinality(act)
               /\ u.drained[1] = IF \E k \in id : k < a THEN FirstID(kind, ies) ELSE 0
    <3>1. act = {a} /\ a \in 1..n /\ Acts(ies, a)
      BY <1>1 DEF Once, Acts
    <3>2. PICK oid : /\ u.drained = <<oid>>
                     /\ (\A i \in 1..(a - 1) : ~Names(f, ies, i)) => oid = 0
                     /\ \A i \in 1..(a - 1) : Names(f, ies, i) => oid = Val(ies[i])
      BY <1>6, <2>1, <2>2, <3>1 DEF Drained
    <3>3. Len(u.drained) = 1 /\ u.drained[1] = oid
      BY <3>2
    <3>4. Cardinality(act) = 1
      BY <3>1, FS_Singleton
    <3>5. CASE \E k \in id : k < a
      <4>1. PICK k \in id : k < a
        BY <3>5
      <4>2. k \in 1..(a - 1) /\ Names(f, ies, k) /\ k \in DOMAIN ies
        BY <1>1, <2>3, <3>1, <4>1
      <4>3. oid = FirstID(kind, ies)
        BY <2>4, <3>2, <4>2
      <4> QED
        BY <3>3, <3>4, <3>5, <4>3
    <3>6. CASE ~ \E k \in id : k < a
      <4>1. \A i \in 1..(a - 1) : ~Names(f, ies, i)
        BY <1>1, <2>3, <3>1, <3>6
      <4> QED
        BY <3>2, <3>3, <3>4, <3>6, <4>1
    <3> QED
      BY <3>5, <3>6
  <2> HIDE DEF act, id
  <2> QED
    BY <2>5, <2>6
<1> QED
  BY <1>4, <1>5, <1>6 DEF DrainsOwnFar

-----------------------------------------------------------------------------
(* Flow descriptions.  Their words: those of K, numbers, addresses.        *)
PortLists == Seq(Seq(Nat \union {NaN}))
Networks == [v : {4, 6}, ip : Nat, len : Nat \union {Host}]
FlowWords(K) ==
  {Word(x) : x \in K} \union {<<"list", ps>> : ps \in PortLists}
    \union {<<"net", n>> : n \in Networks}

(* A word is of one class.                                                 *)
LEMMA Classes ==
  ASSUME NEW K, NEW w \in FlowWords(K)
  PROVE  \/ Class(w) = "word"
         \/ Class(w) = "list" /\ Content(w) \in PortLists
         \/ Class(w) = "net" /\ Content(w) \in Networks
  BY DEF FlowWords, Class, Content, Word
LEMMA WordClass == \A x : Class(Word(x)) = "word"
  BY DEF Class, Word

(* Powers of two, from their definition in steps.                          *)
LEMMA PowerPositive ==
  ASSUME NEW n \in Nat
  PROVE  PowerOfTwo(n) \in Nat \ {0} /\ (n = 0 => PowerOfTwo(n) = 1)
<1> DEFINE Doubles(p, m) == p = [k \in 0..m |-> IF k = 0 THEN 1 ELSE 2 * p[k - 1]]
           T == {m \in Nat : \E p : Doubles(p, m)}
<1>1. 0 \in T
  <2>1. Doubles([k \in 0..0 |-> 1], 0)
    OBVIOUS
  <2> QED
    BY <2>1
<1>2. ASSUME NEW m \in 0..(n - 1), m \in T
      PROVE  m + 1 \in T
  <2>1. PICK p : Doubles(p, m)
    BY <1>2
  <2> DEFINE q == [k \in 0..(m + 1) |-> IF k = m + 1 THEN 2 * p[m] ELSE p[k]]
  <2>2. \A k \in 0..m : q[k] = p[k]
    OBVIOUS
  <2>3. \A k \in 0..(m + 1) : q[k] = IF k = 0 THEN 1 ELSE 2 * q[k - 1]
    <3>1. ASSUME NEW k \in 0..m
          PROVE  q[k] = IF k = 0 THEN 1 ELSE 2 * q[k - 1]
      <4>1. p[k] = IF k = 0 THEN 1 ELSE 2 * p[k - 1]
        BY <2>1
      <4> QED
        BY <2>2, <4>1
    <3>2. q[m + 1] = 2 * q[(m + 1) - 1] /\ m + 1 # 0
      OBVIOUS
    <3>3. \A k \in 0..(m + 1) : k \in 0..m \/ k = m + 1
      OBVIOUS
    <3> HIDE DEF q
    <3> QED
      BY <3>1, <3>2, <3>3
  <2>4. Doubles(q, m + 1)
    BY <2>3
  <2>5. m + 1 \in Nat
    OBVIOUS
  <2> HIDE DEF q, Doubles
  <2> QED
    BY <2>4, <2>5
<1>3. n \in T
  <2>1. 0..n \subseteq T
    <3> HIDE DEF T
    <3> QED
      BY <1>1, <1>2, UpTo
  <2> QED
    BY <2>1
<1>4. \E p : Doubles(p, n)
  BY <1>3
<1>5. PICK p : Doubles(p, n) /\ PowerOfTwo(n) = p[n]
  BY <1>4 DEF PowerOfTwo
<1>6. p[0] = 1 /\ \A k \in 1..n : p[k] = 2 * p[k - 1]
  BY <1>5
<1> DEFINE P == {k \in 0..n : p[k] \in Nat \ {0}}
<1>7. 0 \in P
  BY <1>6
<1>8. ASSUME NEW k \in 0..(n - 1), k \in P
      PROVE  k + 1 \in P
  <2>1. k + 1 \in 1..n /\ (k + 1) - 1 = k
    OBVIOUS
  <2>2. p[k + 1] = 2 * p[k]
    BY <1>6, <2>1
  <2> QED
    BY <1>8, <2>1, <2>2
<1>9. n \in P
  <2>1. 0..n \subseteq P
    <3> HIDE DEF P
    <3> QED
      BY <1>7, <1>8, UpTo
  <2> QED
    BY <2>1
<1> QED
  BY <1>5, <1>6, <1>9

(* The bits of a host, cut off, tell a network from another as its number  *)
(* does.                                                                   *)
LEMMA SameNetwork ==
  \A R \in Nat \ {0} : \A a, b \in Nat :
    (a - (a % R) = b - (b % R)) <=> (a \div R = b \div R)
  OBVIOUS

(* flowdesc.go:115: the parser reads an address if it is one, and the      *)
(* network it makes has the addresses the word stands for.                 *)
LEMMA AddrRead ==
  ASSUME NEW K, NEW w \in FlowWords(K)
  PROVE  /\ ParseFlowDescIPNet(w) # NoNet <=> IsNetwork(w)
         /\ IsNetwork(w) => Contained(ParseFlowDescIPNet(w)) = Denoted(w)
<1>0. Bits[4] \in Nat /\ Bits[6] \in Nat /\ Host \notin Nat
  BY WordsAssumption
<1>1. CASE w = Word("any")
  <2> DEFINE R == PowerOfTwo(Bits[6])
  <2>1. ParseFlowDescIPNet(w) = [v |-> 6, ip |-> 0, len |-> 0]
    <3>1. Class(w) # "net"
      BY <1>1, WordClass
    <3> QED
      BY <1>1, <3>1 DEF ParseFlowDescIPNet
  <2>2. R \in Nat \ {0}
    BY <1>0, PowerPositive
  <2>3. Contained([v |-> 6, ip |-> 0, len |-> 0]) = {a \in 0..(R - 1) : a - (a % R) = 0}
    <3>1. Bits[6] - 0 = Bits[6]
      BY <1>0
    <3> QED
      BY <3>1 DEF Contained
  <2>4. Denoted(w) = 0..(R - 1)
    BY <1>1 DEF Denoted
  <2> HIDE DEF R
  <2>5. \A a \in 0..(R - 1) : a % R = a /\ a - a = 0
    BY <2>2
  <2>6. {a \in 0..(R - 1) : a - (a % R) = 0} = 0..(R - 1)
    BY <2>5
  <2>7. ParseFlowDescIPNet(w) # NoNet
    BY <2>1 DEF NoNet
  <2> QED
    BY <1>1, <2>1, <2>3, <2>4, <2>6, <2>7 DEF IsNetwork
<1>2. CASE w # Word("any") /\ Class(w) # "net"
  BY <1>2 DEF ParseFlowDescIPNet, IsNetwork
<1>3. CASE Class(w) = "net"
  <2> DEFINE n == Content(w)
             B == Bits[n.v]
             net == ParseFlowDescIPNet(w)
  <2>1. n \in Networks /\ w # Word("any")
    BY <1>3, Classes, WordClass
  <2>2. n.v \in {4, 6} /\ n.ip \in Nat /\ n.len \in Nat \union {Host} /\ B \in Nat
    BY <1>0, <2>1 DEF Networks
  <2>3. IsNetwork(w) <=> n.len = Host \/ n.len <= B
    BY <1>0, <1>3, <2>1, <2>2 DEF IsNetwork
  <2> HIDE DEF n, B
  <2>4. CASE n.len = Host
    <3>1. net = [v |-> n.v, ip |-> n.ip, len |-> B]
      BY <1>3, <2>1, <2>4 DEF ParseFlowDescIPNet, n, B
    <3>2. PowerOfTwo(0) \in Nat \ {0} /\ PowerOfTwo(B) \in Nat \ {0} /\ B - B = 0
      BY <2>2, PowerPositive
    <3>3. PowerOfTwo(0) = 1
      BY PowerPositive
    <3>4. Contained(net) = {a \in 0..(PowerOfTwo(B) - 1) : a - (a % 1) = n.ip}
      BY <3>1, <3>2, <3>3 DEF Contained, B
    <3>5. Denoted(w) = {a \in 0..(PowerOfTwo(B) - 1) : a \div 1 = n.ip \div 1}
      BY <2>1, <2>4, <3>3 DEF Denoted, n, B
    <3>6. \A a \in 0..(PowerOfTwo(B) - 1) : a - (a % 1) = a /\ a \div 1 = a
      BY <3>2
    <3>7. n.ip \div 1 = n.ip
      BY <2>2
    <3>8. Contained(net) = Denoted(w)
      BY <3>4, <3>5, <3>6, <3>7
    <3>9. net # NoNet
      BY <2>2, <3>1 DEF NoNet
    <3> QED
      BY <2>3, <2>4, <3>8, <3>9
  <2>5. CASE n.len # Host /\ n.len <= B
    <3> DEFINE R == PowerOfTwo(B - n.len)
    <3>1. net = [n EXCEPT !.ip = n.ip - (n.ip % R)]
      BY <1>3, <2>1, <2>5 DEF ParseFlowDescIPNet, n, B
    <3>2. net.v = n.v /\ net.ip = n.ip - (n.ip % R) /\ net.len = n.len
      BY <2>1, <3>1 DEF Networks
    <3>3. PowerOfTwo(B) \in Nat \ {0} /\ R \in Nat \ {0}
      BY <2>2, <2>5, PowerPositive
    <3>4. Contained(net) = {a \in 0..(PowerOfTwo(B) - 1) : a - (a % R) = n.ip - (n.ip % R)}
      BY <3>2 DEF Contained, B
    <3>5. Denoted(w) = {a \in 0..(PowerOfTwo(B) - 1) : a \div R = n.ip \div R}
      BY <2>1, <2>5 DEF Denoted, n, B
    <3> HIDE DEF R, net
    <3>6. \A a \in Nat :
            (a - (a % R) = n.ip - (n.ip % R)) <=> (a \div R = n.ip \div R)
      <4>1. PICK b : b = n.ip /\ b \in Nat
        BY <2>2
      <4> QED
        BY <3>3, <4>1, SameNetwork, Zenon
    <3>7. Contained(net) = Denoted(w)
      <4>1. \A a \in 0..(PowerOfTwo(B) - 1) : a \in Nat
        BY <3>3
      <4> QED
        BY <3>4, <3>5, <3>6, <4>1
    <3>8. net # NoNet
      BY <2>2, <3>2 DEF NoNet
    <3> QED
      BY <2>3, <2>5, <3>7, <3>8 DEF net
  <2>6. CASE n.len # Host /\ ~(n.len <= B)
    BY <1>3, <2>1, <2>3, <2>6 DEF ParseFlowDescIPNet, n, B
  <2> QED
    BY <2>4, <2>5, <2>6
<1> QED
  BY <1>1, <1>2, <1>3

(* Sixteen bits.                                                           *)
Uint(n) == n \in 0..65535
LEMMA UintRead ==
  /\ \A n \in Nat \union {NaN} : IsUint16(n) <=> Uint(n)
  /\ ~Uint(NaN)
<1>1. NaN \notin Nat
  BY WordsAssumption
<1>2. ~Uint(NaN)
  <2>1. \A n : Uint(n) => n \in Nat
    BY DEF Uint
  <2> QED
    BY <1>1, <2>1
<1>3. ASSUME NEW n \in Nat
      PROVE  IsUint16(n) <=> Uint(n)
  <2>1. n # NaN
    BY <1>1
  <2> QED
    BY <2>1 DEF IsUint16, Uint
<1>4. ~IsUint16(NaN)
  BY DEF IsUint16
<1> QED
  BY <1>2, <1>3, <1>4

(* What the grammar says of ports, part by part.                           *)
PortsAre(c) ==
  \A k \in DOMAIN c : Len(c[k]) \in {1, 2} /\ \A j \in DOMAIN c[k] : Uint(c[k][j])
LEMMA PortsByPart ==
  ASSUME NEW w
  PROVE  IsPorts(w) <=> Class(w) = "list" /\ PortsAre(Content(w))
<1>1. PICK c : c = Content(w)
  OBVIOUS
<1>2. IsPorts(w) <=> /\ Class(w) = "list"
                     /\ \A p \in ToSet(c) : Len(p) \in {1, 2} /\ \A n \in ToSet(p) : Uint(n)
  BY <1>1 DEF IsPorts, Uint
<1>3. \A s : ToSet(s) = {s[k] : k \in DOMAIN s}
  BY DEF ToSet
<1>4. (\A p \in ToSet(c) : Len(p) \in {1, 2} /\ \A n \in ToSet(p) : Uint(n)) <=> PortsAre(c)
  <2>1. \A s : (\A n \in ToSet(s) : Uint(n)) <=> (\A j \in DOMAIN s : Uint(s[j]))
    BY <1>3
  <2> QED
    BY <1>3, <2>1 DEF PortsAre
<1> QED
  BY <1>1, <1>2, <1>4

(* The ports are read if they are, as they are.                            *)
LEMMA PortsRead ==
  ASSUME NEW K, NEW w \in FlowWords(K)
  PROVE  /\ ParseFlowDescPorts(w) # NoPorts <=> IsPorts(w)
         /\ IsPorts(w) => ParseFlowDescPorts(w) = Content(w)
<1>1. CASE Class(w) # "list"
  <2>1. ParseFlowDescPorts(w) = NoPorts
    BY <1>1, Zenon DEF ParseFlowDescPorts
  <2> QED
    BY <1>1, <2>1, PortsByPart
<1>2. CASE Class(w) = "list"
  <2>1. PICK c : c = Content(w)
    OBVIOUS
  <2> DEFINE AsRead == \A k \in DOMAIN c : Len(c[k]) \in {1, 2} /\ \A j \in DOMAIN c[k] : IsUint16(c[k][j])
  <2>2. c \in PortLists
    BY <1>2, <2>1, Classes
  <2>3. IsPorts(w) <=> PortsAre(c)
    BY <1>2, <2>1, PortsByPart
  <2>4. ParseFlowDescPorts(w) = IF AsRead THEN c ELSE NoPorts
    BY <1>2, <2>1, Zenon DEF ParseFlowDescPorts
  <2>5. \A k \in DOMAIN c : c[k] \in Seq(Nat \union {NaN})
    BY <2>2 DEF PortLists
  <2>6. \A k \in DOMAIN c : \A j \in DOMAIN c[k] : c[k][j] \in Nat \union {NaN}
    BY <2>5
  <2>7. AsRead <=> PortsAre(c)
    BY <2>6, UintRead, Zenon DEF PortsAre
  <2>8. PortsAre(c) => c # NoPorts
    <3>1. ASSUME c = NoPorts
          PROVE  ~PortsAre(c)
      <4>1. 1 \in DOMAIN c /\ 1 \in DOMAIN c[1] /\ c[1][1] = NaN
        BY <3>1 DEF NoPorts
      <4> QED
        BY <4>1, UintRead DEF PortsAre
    <3> QED
      BY <3>1
  <2> HIDE DEF AsRead
  <2> QED
    BY <2>1, <2>3, <2>4, <2>7, <2>8
<1> QED
  BY <1>1, <1>2

(* The protocol is read if it is one.                                      *)
LEMMA ProtoRead ==
  ASSUME NEW K, NEW w \in FlowWords(K)
  PROVE  ParseProto(w) # NaN <=> IsProto(w)
<1>0. \A n \in Nat : n # NaN
  BY WordsAssumption
<1>1. CASE w = Word("ip")
  <2>1. ParseProto(w) = 255
    BY <1>1, WordClass DEF ParseProto
  <2> QED
    BY <1>0, <1>1, <2>1 DEF IsProto
<1>2. CASE w # Word("ip") /\ ~(Class(w) = "list" /\ Len(Content(w)) = 1 /\ Len(Content(w)[1]) = 1)
  BY <1>2 DEF ParseProto, IsProto
<1>3. CASE w # Word("ip") /\ Class(w) = "list" /\ Len(Content(w)) = 1 /\ Len(Content(w)[1]) = 1
  <2> DEFINE p == Content(w)[1][1]
  <2>1. p \in Nat \union {NaN}
    <3>1. Content(w) \in PortLists
      BY <1>3, Classes
    <3>2. PICK c, q : c = Content(w) /\ q = c[1]
      OBVIOUS
    <3>3. c \in Seq(Seq(Nat \union {NaN})) /\ Len(c) = 1
      BY <1>3, <3>1, <3>2, Zenon DEF PortLists
    <3>4. q \in Seq(Nat \union {NaN})
      <4>1. 1 \in 1..Len(c)
        BY <3>3
      <4> QED
        BY <3>2, <3>3, <4>1, ElementOfSeq, Zenon
    <3>5. Len(q) = 1
      BY <1>3, <3>2, Zenon
    <3>6. q[1] \in Nat \union {NaN}
      BY <3>4, <3>5
    <3> QED
      BY <3>2, <3>6, Zenon
  <2>2. ParseProto(w) = IF p # NaN /\ p < 256 THEN p ELSE NaN
    BY <1>3 DEF ParseProto
  <2>3. IsProto(w) <=> p \in 0..255
    BY <1>3 DEF IsProto
  <2> HIDE DEF p
  <2> QED
    BY <1>0, <2>1, <2>2, <2>3
<1> QED
  BY <1>1, <1>2, <1>3

(* Ports are taken where there are any.                                    *)
LEMMA PortsTaken ==
  ASSUME NEW K, NEW t \in Seq(FlowWords(K)), NEW p \in Nat \ {0}
  PROVE  /\ p <= Len(t) /\ IsPorts(t[p]) => /\ PortsAt(t, p).ports = Content(t[p])
                                           /\ PortsAt(t, p).next = p + 1
         /\ ~(p <= Len(t) /\ IsPorts(t[p])) => /\ PortsAt(t, p).ports = <<>>
                                              /\ PortsAt(t, p).next = p
<1>1. p <= Len(t) => t[p] \in FlowWords(K)
  <2>1. p <= Len(t) => p \in 1..Len(t)
    OBVIOUS
  <2> QED
    BY <2>1, ElementOfSeq, Zenon
<1>2. CASE p <= Len(t) /\ IsPorts(t[p])
  BY <1>1, <1>2, PortsRead DEF PortsAt, Has
<1>3. CASE ~(p <= Len(t) /\ IsPorts(t[p]))
  BY <1>1, <1>3, PortsRead DEF PortsAt, Has
<1> QED
  BY <1>2, <1>3

(* The two halves of a description: up to the source, and from its ports.  *)
UpToSource(t) ==
  /\ Is(t, 1, "permit")
  /\ Is(t, 2, "in") \/ Is(t, 2, "out")
  /\ Has(t, 3) /\ ParseProto(t[3]) # NaN
  /\ Is(t, 4, "from")
  /\ Has(t, 5) /\ ParseFlowDescIPNet(t[5]) # NoNet
AfterSource(t, n) == Is(t, n, "to") /\ Has(t, n + 1) /\ ParseFlowDescIPNet(t[n + 1]) # NoNet
LEMMA ParseDef ==
  ASSUME NEW t, NEW n, n = PortsAt(t, 6).next
  PROVE  /\ ParseFlowDesc(t) # NoFD <=> UpToSource(t) /\ AfterSource(t, n)
         /\ UpToSource(t) /\ AfterSource(t, n) =>
              /\ ParseFlowDesc(t).Src = ParseFlowDescIPNet(t[5])
              /\ ParseFlowDesc(t).Dst = ParseFlowDescIPNet(t[n + 1])
              /\ ParseFlowDesc(t).SrcPorts = PortsAt(t, 6).ports
              /\ ParseFlowDesc(t).DstPorts = PortsAt(t, n + 2).ports
<1> DEFINE fd == [Action |-> "permit", Dir |-> Content(t[2]), Proto |-> ParseProto(t[3]),
                  Src |-> ParseFlowDescIPNet(t[5]), SrcPorts |-> PortsAt(t, 6).ports,
                  Dst |-> ParseFlowDescIPNet(t[n + 1]), DstPorts |-> PortsAt(t, n + 2).ports]
<1>1. ParseFlowDesc(t) = IF ~(UpToSource(t) /\ AfterSource(t, n)) THEN NoFD ELSE fd
  BY Zenon DEF ParseFlowDesc, UpToSource, AfterSource
<1>2. fd.Action = "permit" /\ NoFD.Action = "none"
  BY DEF NoFD
<1>3. /\ fd.Src = ParseFlowDescIPNet(t[5]) /\ fd.SrcPorts = PortsAt(t, 6).ports
      /\ fd.Dst = ParseFlowDescIPNet(t[n + 1]) /\ fd.DstPorts = PortsAt(t, n + 2).ports
  OBVIOUS
<1> HIDE DEF fd
<1>4. fd # NoFD
  BY <1>2
<1> QED
  BY <1>1, <1>3, <1>4

(* A sentence that is understood, with sp and dp lists of ports.           *)
Reads(t, sp, dp) ==
  /\ Len(t) = 7 + sp + dp
  /\ t[1] = Word("permit") /\ IsDir(t[2]) /\ IsProto(t[3]) /\ t[4] = Word("from")
  /\ IsNetwork(t[5]) /\ (sp = 1 => IsPorts(t[6]))
  /\ t[6 + sp] = Word("to") /\ IsNetwork(t[7 + sp]) /\ (dp = 1 => IsPorts(t[8 + sp]))

(* It is accepted, and gives its own networks and ports.                   *)
LEMMA SentenceRead ==
  ASSUME NEW K, NEW t \in Seq(FlowWords(K)), NEW sp \in {0, 1}, NEW dp \in {0, 1}, Reads(t, sp, dp)
  PROVE  /\ ParseFlowDesc(t) # NoFD
         /\ Is(t, 6, "to") <=> sp = 0
         /\ Contained(ParseFlowDesc(t).Src) = Denoted(t[5])
         /\ Contained(ParseFlowDesc(t).Dst) = Denoted(t[7 + sp])
         /\ ParseFlowDesc(t).SrcPorts = IF sp = 1 THEN Content(t[6]) ELSE <<>>
         /\ ParseFlowDesc(t).DstPorts = IF dp = 1 THEN Content(t[8 + sp]) ELSE <<>>
<1> DEFINE n == PortsAt(t, 6).next
<1>1. Len(t) = 7 + sp + dp /\ \A k \in 1..Len(t) : t[k] \in FlowWords(K)
  BY ElementOfSeq DEF Reads
<1>2. /\ t[3] \in FlowWords(K) /\ t[5] \in FlowWords(K) /\ t[6] \in FlowWords(K) /\ t[7 + sp] \in FlowWords(K)
      /\ dp = 1 => t[8 + sp] \in FlowWords(K)
  BY <1>1
<1>3. /\ n = 6 + sp
      /\ PortsAt(t, 6).ports = IF sp = 1 THEN Content(t[6]) ELSE <<>>
  <2>1. 6 <= Len(t) /\ (IsPorts(t[6]) <=> sp = 1)
    <3>1. sp = 0 => Class(t[6]) = "word"
      BY WordClass DEF Reads
    <3> QED
      BY <1>1, <3>1, PortsByPart DEF Reads
  <2> QED
    BY <2>1, PortsTaken
<1>4. PortsAt(t, 8 + sp).ports = IF dp = 1 THEN Content(t[8 + sp]) ELSE <<>>
  <2>1. 8 + sp <= Len(t) <=> dp = 1
    BY <1>1
  <2>2. dp = 1 => IsPorts(t[8 + sp])
    BY DEF Reads
  <2>3. 8 + sp \in Nat \ {0}
    OBVIOUS
  <2> QED
    BY <2>1, <2>2, <2>3, PortsTaken
<1>5. Is(t, 6, "to") <=> sp = 0
  <2>1. sp = 1 => Class(t[6]) = "list"
    BY PortsByPart DEF Reads
  <2>2. sp = 0 => t[6] = Word("to")
    BY DEF Reads
  <2>3. Class(Word("to")) = "word" /\ "word" # "list"
    BY WordClass
  <2> QED
    BY <1>1, <2>1, <2>2, <2>3 DEF Is, Has
<1> HIDE DEF n
<1>6. UpToSource(t)
  BY <1>1, <1>2, AddrRead, ProtoRead DEF UpToSource, Reads, Is, Has, IsDir
<1>7. AfterSource(t, n)
  <2>1. n + 1 = 7 + sp /\ n <= Len(t) /\ n + 1 <= Len(t)
    BY <1>1, <1>3
  <2> QED
    BY <1>2, <1>3, <2>1, AddrRead DEF AfterSource, Reads, Is, Has
<1>8. n + 1 = 7 + sp /\ n + 2 = 8 + sp
  BY <1>3
<1>9. /\ ParseFlowDesc(t) # NoFD
      /\ ParseFlowDesc(t).Src = ParseFlowDescIPNet(t[5])
      /\ ParseFlowDesc(t).Dst = ParseFlowDescIPNet(t[7 + sp])
      /\ ParseFlowDesc(t).SrcPorts = PortsAt(t, 6).ports
      /\ ParseFlowDesc(t).DstPorts = PortsAt(t, 8 + sp).ports
  BY <1>6, <1>7, <1>8, ParseDef DEF n
<1>10. IsNetwork(t[5]) /\ IsNetwork(t[7 + sp])
  BY DEF Reads
<1> QED
  BY <1>2, <1>3, <1>4, <1>5, <1>9, <1>10, AddrRead

(* A sentence, and what tells the two: none of the words the parser does   *)
(* not know.                                                               *)
Spells(t, sp, dp) ==
  /\ Len(t) = 7 + sp + dp
  /\ IsAction(t[1]) /\ IsDir(t[2]) /\ IsProto(t[3]) /\ t[4] = Word("from")
  /\ IsAddr(t[5]) /\ (sp = 1 => IsPorts(t[6]))
  /\ t[6 + sp] = Word("to") /\ IsAddr(t[7 + sp]) /\ (dp = 1 => IsPorts(t[8 + sp]))
LEMMA SentenceSpelt == \A t : Sentence(t) <=> \E sp, dp \in {0, 1} : Spells(t, sp, dp)
  BY Zenon DEF Sentence, Spells

Unknown(w) == w \in {Word("deny"), Word("assigned")}
LEMMA UnknownApart ==
  /\ \A w : IsNetwork(w) \/ IsPorts(w) \/ IsProto(w) \/ IsDir(w) => ~Unknown(w)
  /\ \A w \in {Word("permit"), Word("from"), Word("to")} : ~Unknown(w)
  /\ \A w : IsAddr(w) /\ ~Unknown(w) => IsNetwork(w)
  /\ \A w : IsAction(w) /\ ~Unknown(w) => w = Word("permit")
<1>1. \A x, y : Word(x) = Word(y) => x = y
  BY DEF Word
<1>2. \A w : Unknown(w) => Class(w) = "word"
  BY WordClass DEF Unknown
<1>3. ASSUME NEW x \in {"permit", "from", "to", "any", "ip", "in", "out"}
      PROVE  ~Unknown(Word(x))
  <2>1. x # "deny" /\ x # "assigned"
    OBVIOUS
  <2> QED
    BY <1>1, <2>1 DEF Unknown
<1>4. \A w : Class(w) = "list" \/ Class(w) = "net" => ~Unknown(w)
  BY <1>2
<1>5. \A w : IsNetwork(w) => ~Unknown(w)
  BY <1>3, <1>4 DEF IsNetwork
<1>6. \A w : IsPorts(w) => ~Unknown(w)
  BY <1>4, PortsByPart
<1>7. \A w : IsProto(w) => ~Unknown(w)
  BY <1>3, <1>4 DEF IsProto
<1>8. \A w : IsDir(w) => ~Unknown(w)
  BY <1>3 DEF IsDir
<1>9. \A w : IsAddr(w) /\ ~Unknown(w) => IsNetwork(w)
  BY DEF IsAddr, Unknown
<1>10. \A w : IsAction(w) /\ ~Unknown(w) => w = Word("permit")
  BY DEF IsAction, Unknown
<1> QED
  BY <1>3, <1>5, <1>6, <1>7, <1>8, <1>9, <1>10

LEMMA UnderstoodReads ==
  ASSUME NEW K, NEW t \in Seq(FlowWords(K))
  PROVE  Understood(t) <=> \E sp, dp \in {0, 1} : Reads(t, sp, dp)
<1>0. DOMAIN t = 1..Len(t) /\ Len(t) \in Nat
  OBVIOUS
<1>1. ASSUME NEW sp \in {0, 1}, NEW dp \in {0, 1}, Spells(t, sp, dp),
             \A k \in DOMAIN t : ~Unknown(t[k])
      PROVE  Reads(t, sp, dp)
  <2>1. 1 \in DOMAIN t /\ 5 \in DOMAIN t /\ 7 + sp \in DOMAIN t
    BY <1>0, <1>1 DEF Spells
  <2>2. t[1] = Word("permit") /\ IsNetwork(t[5]) /\ IsNetwork(t[7 + sp])
    BY <1>1, <2>1, UnknownApart DEF Spells
  <2> QED
    BY <1>1, <2>2 DEF Spells, Reads
<1>2. ASSUME NEW sp \in {0, 1}, NEW dp \in {0, 1}, Reads(t, sp, dp)
      PROVE  Spells(t, sp, dp) /\ \A k \in DOMAIN t : ~Unknown(t[k])
  <2>1. Spells(t, sp, dp)
    BY <1>2 DEF Spells, Reads, IsAction, IsAddr
  <2>2. ASSUME NEW k \in 1..Len(t)
        PROVE  ~Unknown(t[k])
    <3>1. \/ k \in {1, 2, 3, 4, 5, 6 + sp, 7 + sp}
          \/ k = 6 /\ sp = 1
          \/ k = 8 + sp /\ dp = 1
      BY <1>2 DEF Reads
    <3> QED
      BY <1>2, <3>1, UnknownApart DEF Reads
  <2> QED
    BY <1>0, <2>1, <2>2
<1>3. Understood(t) <=> Sentence(t) /\ \A k \in DOMAIN t : ~Unknown(t[k])
  BY DEF Understood, Unknown
<1> QED
  BY <1>1, <1>2, <1>3, SentenceSpelt

(* What is accepted is understood as far as the destination.               *)
LEMMA AcceptedBegins ==
  ASSUME NEW K, NEW t \in Seq(FlowWords(K)), ParseFlowDesc(t) # NoFD
  PROVE  \E n \in 7..9 : n <= Len(t) /\ Understood(SubSeq(t, 1, n))
<1> DEFINE n == PortsAt(t, 6).next
<1>1. UpToSource(t) /\ AfterSource(t, n)
  BY ParseDef
<1>2. PICK sp \in {0, 1} : n = 6 + sp /\ (sp = 1 => 6 <= Len(t) /\ IsPorts(t[6]))
  BY PortsTaken
<1> HIDE DEF n
<1>3. Len(t) \in Nat /\ 7 + sp <= Len(t) /\ 7 + sp \in 7..9
  BY <1>1, <1>2 DEF AfterSource, Has
<1> DEFINE s == SubSeq(t, 1, 7 + sp)
<1>4. Len(s) = 7 + sp /\ \A k \in 1..(7 + sp) : s[k] = t[k]
  BY <1>3
<1>5. \A k \in 1..(7 + sp) : t[k] \in FlowWords(K)
  BY <1>3, ElementOfSeq
<1>6. /\ t[1] = Word("permit") /\ IsDir(t[2]) /\ t[4] = Word("from")
      /\ IsProto(t[3]) /\ IsNetwork(t[5])
  <2>1. t[3] \in FlowWords(K) /\ t[5] \in FlowWords(K)
    BY <1>5
  <2> QED
    BY <1>1, <2>1, AddrRead, ProtoRead DEF UpToSource, Is, Has, IsDir
<1>7. t[6 + sp] = Word("to") /\ IsNetwork(t[7 + sp])
  <2>1. t[7 + sp] \in FlowWords(K) /\ n + 1 = 7 + sp
    BY <1>2, <1>5
  <2> QED
    BY <1>1, <1>2, <2>1, AddrRead DEF AfterSource, Is
<1>8. Reads(s, sp, 0)
  <2>1. /\ s[1] = t[1] /\ s[2] = t[2] /\ s[3] = t[3] /\ s[4] = t[4] /\ s[5] = t[5] /\ s[6] = t[6]
        /\ s[6 + sp] = t[6 + sp] /\ s[7 + sp] = t[7 + sp]
    BY <1>4
  <2>2. Len(s) = 7 + sp + 0 /\ 0 # 1
    BY <1>4
  <2> HIDE DEF s
  <2> QED
    BY <1>2, <1>6, <1>7, <2>1, <2>2 DEF Reads
<1>9. Understood(s)
  <2> HIDE DEF s
  <2>1. 0 \in {0, 1}
    OBVIOUS
  <2>2. s \in Seq(FlowWords(K))
    <3>1. PICK m : m = 7 + sp
      OBVIOUS
    <3>2. m \in 1..Len(t) /\ s = SubSeq(t, 1, m)
      BY <1>3, <3>1 DEF s
    <3> QED
      BY <3>2
  <2> QED
    BY <1>8, <2>1, <2>2, UnderstoodReads
<1> QED
  BY <1>3, <1>9

(* A sentence that is accepted is understood: the parser has tried the     *)
(* words at the places where the sentence has them.                        *)
LEMMA AcceptedUnderstood ==
  ASSUME NEW K, NEW t \in Seq(FlowWords(K)), Sentence(t), ParseFlowDesc(t) # NoFD
  PROVE  Understood(t)
<1> DEFINE n == PortsAt(t, 6).next
<1>1. UpToSource(t) /\ AfterSource(t, n)
  BY ParseDef
<1>2. PICK sp \in {0, 1} : n = 6 + sp /\ (sp = 1 => 6 <= Len(t) /\ IsPorts(t[6]))
  BY PortsTaken
<1> HIDE DEF n
<1>3. PICK ss \in {0, 1}, dp \in {0, 1} : Spells(t, ss, dp)
  BY SentenceSpelt
<1>4. t[6 + sp] = Word("to") /\ t[6 + ss] = Word("to")
  BY <1>1, <1>2, <1>3 DEF AfterSource, Is, Spells
<1>5. ~IsPorts(Word("to"))
  <2>1. Class(Word("to")) # "list"
    BY WordClass
  <2> QED
    BY <2>1, PortsByPart
<1>6. sp = ss
  <2>1. sp = 1 => IsPorts(t[6])
    BY <1>2
  <2>2. ss = 1 => IsPorts(t[6])
    BY <1>3 DEF Spells
  <2> QED
    BY <1>4, <1>5, <2>1, <2>2
<1>7. Len(t) = 7 + ss + dp /\ \A k \in 1..Len(t) : t[k] \in FlowWords(K)
  BY <1>3, ElementOfSeq DEF Spells
<1>8. t[1] = Word("permit") /\ IsNetwork(t[5])
  <2>1. t[5] \in FlowWords(K)
    BY <1>7
  <2> QED
    BY <1>1, <2>1, AddrRead DEF UpToSource, Is
<1>9. IsNetwork(t[7 + ss])
  <2>1. t[7 + ss] \in FlowWords(K) /\ n + 1 = 7 + ss
    BY <1>2, <1>6, <1>7
  <2> QED
    BY <1>1, <2>1, AddrRead DEF AfterSource
<1>10. Reads(t, ss, dp)
  BY <1>3, <1>8, <1>9 DEF Spells, Reads
<1> QED
  BY <1>10, UnderstoodReads

(* flowdesc.go:38: of the sentences of the grammar the parser refuses just *)
(* those with 'deny' or 'assigned'; of the others it gives the networks    *)
(* and ports, and what it accepts begins with one of them.                 *)
THEOREM FlowsParsed ==
  ASSUME NEW K, NEW t \in Seq(FlowWords(K))
  PROVE  FlowParsed(t)
<1> DEFINE fd == ParseFlowDesc(t)
           to == IF Is(t, 6, "to") THEN 6 ELSE 7
<1>1. ASSUME Understood(t)
      PROVE  /\ fd # NoFD
             /\ Contained(fd.Src) = Denoted(t[5]) /\ Contained(fd.Dst) = Denoted(t[to + 1])
             /\ fd.SrcPorts = IF to = 7 THEN Content(t[6]) ELSE <<>>
             /\ fd.DstPorts = IF Len(t) = to + 2 THEN Content(t[to + 2]) ELSE <<>>
  <2>1. PICK sp \in {0, 1}, dp \in {0, 1} : Reads(t, sp, dp)
    BY <1>1, UnderstoodReads
  <2>2. /\ fd # NoFD /\ (Is(t, 6, "to") <=> sp = 0)
        /\ Contained(fd.Src) = Denoted(t[5]) /\ Contained(fd.Dst) = Denoted(t[7 + sp])
        /\ fd.SrcPorts = IF sp = 1 THEN Content(t[6]) ELSE <<>>
        /\ fd.DstPorts = IF dp = 1 THEN Content(t[8 + sp]) ELSE <<>>
    BY <2>1, SentenceRead
  <2>3. Len(t) = 7 + sp + dp
    BY <2>1 DEF Reads
  <2>4. to = 6 + sp /\ to + 1 = 7 + sp /\ to + 2 = 8 + sp /\ (to = 7 <=> sp = 1) /\ (Len(t) = to + 2 <=> dp = 1)
    BY <2>2, <2>3
  <2> HIDE DEF to, fd
  <2> QED
    BY <2>2, <2>4
<1>2. fd # NoFD => \E n \in 7..9 : n <= Len(t) /\ Understood(SubSeq(t, 1, n))
  BY AcceptedBegins
<1>3. Sentence(t) => (fd # NoFD <=> Understood(t))
  BY <1>1, AcceptedUnderstood
<1> QED
  BY <1>1, <1>2, <1>3 DEF FlowParsed

(* The driver stops at a second range of ports.                            *)
LEMMA PanicsAtTwo ==
  ASSUME NEW K, NEW w \in FlowWords(K), IsPorts(w)
  PROVE  Panics(Content(w)) <=> Len(Content(w)) > 1
<1>1. PICK c : c = Content(w)
  OBVIOUS
<1>2. c \in PortLists /\ PortsAre(c)
  BY <1>1, PortsByPart, Classes
<1>3. Len(c) \in Nat /\ DOMAIN c = 1..Len(c)
  BY <1>2 DEF PortLists
<1>4. \A k \in 1..Len(c) : Len(c[k]) \in {1, 2}
  BY <1>2, <1>3 DEF PortsAre
<1>5. ASSUME NEW k \in 1..Len(c), 4 * (k - 1) >= Len(c[k])
      PROVE  Len(c) > 1
  <2>1. Len(c[k]) \in {1, 2} /\ k \in Nat /\ k <= Len(c)
    BY <1>3, <1>4
  <2>2. PICK l : l = Len(c[k])
    OBVIOUS
  <2>3. l \in {1, 2} /\ 4 * (k - 1) >= l
    BY <1>5, <2>1, <2>2, Zenon
  <2>4. k # 1
    BY <2>3
  <2> QED
    BY <1>3, <2>1, <2>4
<1>6. ASSUME Len(c) > 1
      PROVE  2 \in 1..Len(c) /\ 4 * (2 - 1) >= Len(c[2])
  <2>1. 2 \in 1..Len(c)
    BY <1>3, <1>6
  <2>2. PICK l : l = Len(c[2])
    OBVIOUS
  <2>3. l \in {1, 2}
    BY <1>4, <2>1, <2>2, Zenon
  <2>4. 4 * (2 - 1) >= l
    BY <2>3
  <2> QED
    BY <2>1, <2>2, <2>4, Zenon
<1> QED
  BY <1>1, <1>3, <1>5, <1>6 DEF Panics

(* The first range of a list, as a reader of two numbers finds it.         *)
Single(w) == Len(Content(w)) = 1 /\ Len(Content(w)[1]) = 1
LEMMA FirstRange ==
  ASSUME NEW K, NEW w \in FlowWords(K), IsPorts(w)
  PROVE  /\ Len(Content(w)) \in Nat
         /\ ~(Len(Content(w)) > 1) => (Overruns(Content(w)) <=> Single(w))
<1>1. PICK c : c = Content(w)
  OBVIOUS
<1>2. Content(w) \in PortLists
  BY PortsByPart, Classes
<1>3. Len(c) \in Nat /\ (Len(c) = 0 <=> c = <<>>)
  BY <1>1, <1>2 DEF PortLists
<1>4. ~(Len(c) > 1) => (c # <<>> <=> Len(c) = 1)
  <2>1. PICK n \in Nat : n = Len(c)
    BY <1>3
  <2>2. ~(n > 1) => (n # 0 <=> n = 1)
    OBVIOUS
  <2> QED
    BY <1>3, <2>1, <2>2, Zenon
<1> QED
  BY <1>1, <1>3, <1>4 DEF Overruns, Single

(* What the driver makes of the ports, by the sides they are on.           *)
StopsAt(fd) == Panics(fd.SrcPorts) \/ Panics(fd.DstPorts)
RunsAt(fd) == Overruns(fd.SrcPorts) \/ Overruns(fd.DstPorts)
LEMMA FlowOutcome ==
  ASSUME NEW t, NEW fd, fd = ParseFlowDesc(t), fd # NoFD
  PROVE  /\ NewFlowDesc(t) = <<"panic">> <=> StopsAt(fd)
         /\ NewFlowDesc(t) = <<"overrun">> <=> ~StopsAt(fd) /\ RunsAt(fd)
<1>1. <<"panic">> # <<"overrun">> /\ Len(<<"panic">>) = 1 /\ Len(<<"overrun">>) = 1
  OBVIOUS
<1>2. CASE StopsAt(fd)
  <2>1. NewFlowDesc(t) = <<"panic">>
    BY <1>2, Zenon DEF NewFlowDesc, StopsAt
  <2> QED
    BY <1>1, <1>2, <2>1
<1>3. CASE ~StopsAt(fd) /\ RunsAt(fd)
  <2>1. NewFlowDesc(t) = <<"overrun">>
    BY <1>3, Zenon DEF NewFlowDesc, StopsAt, RunsAt
  <2> QED
    BY <1>1, <1>3, <2>1
<1>4. CASE ~StopsAt(fd) /\ ~RunsAt(fd)
  <2>1. Len(NewFlowDesc(t)) = 9
    BY <1>4 DEF NewFlowDesc, StopsAt, RunsAt
  <2> QED
    BY <1>1, <1>4, <2>1
<1> QED
  BY <1>2, <1>3, <1>4

(* gtp5g.go:165: two ranges of ports on a side stop the driver, a single   *)
(* number for a range is written over its end, and of the descriptions the *)
(* parser takes no other one does either.                                  *)
THEOREM OneRangeSafe ==
  ASSUME NEW K, NEW t \in Seq(FlowWords(K))
  PROVE  OneRangeIsSafe(t)
<1> DEFINE ranges == {Content(t[k]) : k \in {j \in DOMAIN t : j > 3 /\ Class(t[j]) = "list"}}
           many == \E ps \in ranges : Len(ps) > 1
           one == \E ps \in ranges : Len(ps) = 1 /\ Len(ps[1]) = 1
<1> SUFFICES ASSUME Understood(t)
             PROVE  /\ NewFlowDesc(t) = <<"panic">> <=> many
                    /\ NewFlowDesc(t) = <<"overrun">> <=> ~many /\ one
  BY DEF OneRangeIsSafe
<1> DEFINE fd == ParseFlowDesc(t)
           Stops == StopsAt(fd)
           Runs == RunsAt(fd)
           Long(k) == Len(Content(t[k])) > 1
<1>1. PICK sp \in {0, 1}, dp \in {0, 1} : Reads(t, sp, dp)
  BY UnderstoodReads
<1>2. /\ fd # NoFD
      /\ fd.SrcPorts = IF sp = 1 THEN Content(t[6]) ELSE <<>>
      /\ fd.DstPorts = IF dp = 1 THEN Content(t[8 + sp]) ELSE <<>>
  BY <1>1, SentenceRead
<1>3. /\ NewFlowDesc(t) = <<"panic">> <=> Stops
      /\ NewFlowDesc(t) = <<"overrun">> <=> ~Stops /\ Runs
  <2>1. PICK f : f = ParseFlowDesc(t)
    OBVIOUS
  <2>2. f # NoFD
    BY <1>2, <2>1
  <2>3. /\ NewFlowDesc(t) = <<"panic">> <=> StopsAt(f)
        /\ NewFlowDesc(t) = <<"overrun">> <=> ~StopsAt(f) /\ RunsAt(f)
    BY <2>1, <2>2, FlowOutcome
  <2> QED
    BY <2>1, <2>3
<1>4. ~Panics(<<>>) /\ ~Overruns(<<>>)
  BY DEF Panics, Overruns
<1>5. Len(t) = 7 + sp + dp /\ DOMAIN t = 1..Len(t) /\ \A k \in 1..Len(t) : t[k] \in FlowWords(K)
  BY <1>1, ElementOfSeq DEF Reads
<1>6. sp = 1 => /\ Class(t[6]) = "list" /\ Len(Content(t[6])) \in Nat
                /\ Panics(Content(t[6])) <=> Long(6)
                /\ ~Long(6) => (Overruns(Content(t[6])) <=> Single(t[6]))
  <2>1. sp = 1 => IsPorts(t[6]) /\ t[6] \in FlowWords(K)
    BY <1>1, <1>5 DEF Reads
  <2> QED
    BY <2>1, PanicsAtTwo, PortsByPart, FirstRange
<1>7. dp = 1 => /\ Class(t[8 + sp]) = "list" /\ Len(Content(t[8 + sp])) \in Nat
                /\ Panics(Content(t[8 + sp])) <=> Long(8 + sp)
                /\ ~Long(8 + sp) => (Overruns(Content(t[8 + sp])) <=> Single(t[8 + sp]))
  <2>1. dp = 1 => IsPorts(t[8 + sp]) /\ t[8 + sp] \in FlowWords(K)
    BY <1>1, <1>5 DEF Reads
  <2> QED
    BY <2>1, PanicsAtTwo, PortsByPart, FirstRange
<1>8. ASSUME NEW k \in DOMAIN t, k > 3, Class(t[k]) = "list"
      PROVE  (sp = 1 /\ k = 6) \/ (dp = 1 /\ k = 8 + sp)
  <2>1. k # 4 /\ k # 6 + sp
    <3>1. t[4] = Word("from") /\ t[6 + sp] = Word("to")
      BY <1>1 DEF Reads
    <3> QED
      BY <1>8, <3>1, WordClass
  <2>2. k # 5 /\ k # 7 + sp
    <3>1. IsNetwork(t[5]) /\ IsNetwork(t[7 + sp])
      BY <1>1 DEF Reads
    <3> QED
      BY <1>8, <3>1, WordClass DEF IsNetwork
  <2> QED
    BY <1>5, <1>8, <2>1, <2>2
<1> HIDE DEF fd
<1>9. Stops <=> (sp = 1 /\ Long(6)) \/ (dp = 1 /\ Long(8 + sp))
  BY <1>2, <1>4, <1>6, <1>7 DEF StopsAt
<1>10. ~Stops => (Runs <=> (sp = 1 /\ Single(t[6])) \/ (dp = 1 /\ Single(t[8 + sp])))
  BY <1>2, <1>4, <1>6, <1>7, <1>9 DEF RunsAt
<1>11. /\ sp = 1 => 6 \in DOMAIN t /\ 6 > 3
       /\ dp = 1 => 8 + sp \in DOMAIN t /\ 8 + sp > 3
  BY <1>5
<1>12. many <=> (sp = 1 /\ Long(6)) \/ (dp = 1 /\ Long(8 + sp))
  BY <1>6, <1>7, <1>8, <1>11
<1>13. one <=> (sp = 1 /\ Single(t[6])) \/ (dp = 1 /\ Single(t[8 + sp]))
  BY <1>6, <1>7, <1>8, <1>11 DEF Single
<1> HIDE DEF Stops, Runs, Long, many, one
<1> QED
  BY <1>3, <1>9, <1>10, <1>12, <1>13
=============================================================================
