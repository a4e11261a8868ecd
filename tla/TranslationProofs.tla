-------------------------- MODULE TranslationProofs --------------------------
(* Proofs about the translations: for all inputs first, then for those the *)
(* behaviours of MCTranslation enumerate.                                  *)
EXTENDS MCTranslation, EncodingProofs

-----------------------------------------------------------------------------
(* PFCP.  Every datagram, whatever its type and its IEs, is answered in    *)
(* kind, or the process ends, and just for the requests that EndsProcess   *)
(* lists; the lists of message types of the four places agree.             *)
THEOREM AllAnsweredInKind ==
  ASSUME NEW d, d.type \in Nat, d.seid \in {"live", "none", "huge"}, d.pending \in BOOLEAN
  PROVE  AnswersInKind(d)
<1> USE DEF HeartbeatRequest, HeartbeatResponse, AssociationSetupRequest,
            AssociationSetupResponse, SessionEstablishmentRequest,
            SessionEstablishmentResponse, SessionModificationRequest,
            SessionModificationResponse, SessionDeletionRequest,
            SessionDeletionResponse, SessionReportRequest, SessionReportResponse
<1> DEFINE a == ReqDispacher(d)
           Answered(n) == a # NoAnswer /\ a # Panic /\ a.type = n
           Silent == a = NoAnswer \/ a = Panic
<1>0. NoAnswer # Panic
  BY DEF NoAnswer, Panic
<1>1. ASSUME NEW n \in {2, 6, 51, 53, 55}, NEW c, a = SendRspTo(Answer(n, c))
      PROVE  Answered(n)
  BY <1>1 DEF SendRspTo, Answer, NoAnswer, Panic, IsResponse
<1>2. d.type = 1 => Answered(2) /\ ~EndsProcess(d)
  <2>1. d.type = 1 => a = SendRspTo(Answer(2, "none")) /\ ~EndsProcess(d)
    BY DEF ReqDispacher, HandleHeartbeat, EndsProcess
  <2> QED
    BY <1>1, <2>1
<1>3. d.type = 5 => /\ Answered(6) \/ a = NoAnswer
                    /\ Complete(d) => Answered(6)
                    /\ ~EndsProcess(d)
  <2>1. d.type = 5 => a = HandleAssociationSetup(d) /\ ~EndsProcess(d)
    BY DEF ReqDispacher, EndsProcess
  <2>2. \/ HandleAssociationSetup(d) = NoAnswer /\ ~Complete(d)
        \/ HandleAssociationSetup(d) = SendRspTo(Answer(6, "accepted"))
    BY DEF HandleAssociationSetup, Complete
  <2> QED
    BY <1>1, <2>1, <2>2
<1>4. d.type = 50 => /\ Answered(51) \/ Silent
                     /\ Complete(d) => IF EndsProcess(d) THEN a = Panic ELSE Answered(51)
  <2>1. d.type = 50 => a = HandleSessionEstablishment(d) /\ (EndsProcess(d) <=> d.rules \in Panicking)
    BY DEF ReqDispacher, EndsProcess
  <2>2. \/ HandleSessionEstablishment(d) = NoAnswer /\ ~Complete(d)
        \/ HandleSessionEstablishment(d) = Panic /\ d.rules \in Panicking
        \/ HandleSessionEstablishment(d) = SendRspTo(Answer(51, "accepted")) /\ d.rules \notin Panicking
    BY DEF HandleSessionEstablishment, Complete
  <2> QED
    BY <1>1, <2>1, <2>2
<1>5. d.type = 52 => /\ Answered(53) \/ Silent
                     /\ Complete(d) => IF EndsProcess(d) THEN a = Panic ELSE Answered(53)
  <2> DEFINE h == HandleSessionModification(d)
             Ends == d.seid = "huge" \/ (d.seid = "live" /\ d.rules \in Panicking)
  <2>1. d.type = 52 => a = h /\ (EndsProcess(d) <=> Ends)
    BY DEF ReqDispacher, EndsProcess
  <2>2. \/ h = Panic /\ Ends
        \/ h = SendRspTo(Answer(53, "not found")) /\ ~Ends
        \/ h = NoAnswer /\ ~Complete(d)
        \/ h = SendRspTo(Answer(53, "accepted")) /\ ~Ends
    <3>1. CASE d.seid = "huge"
      BY <3>1 DEF HandleSessionModification
    <3>2. CASE d.seid = "none"
      BY <3>2 DEF HandleSessionModification
    <3>3. CASE d.seid = "live" /\ d.nodeID = "bad"
      BY <3>3 DEF HandleSessionModification, Complete
    <3>4. CASE d.seid = "live" /\ d.nodeID # "bad"
      BY <3>4 DEF HandleSessionModification
    <3> QED
      BY <3>1, <3>2, <3>3, <3>4
  <2> QED
    BY <1>1, <2>1, <2>2
<1>6. d.type = 54 => IF EndsProcess(d) THEN a = Panic ELSE Answered(55)
  <2>1. d.type = 54 => a = HandleSessionDeletion(d) /\ (EndsProcess(d) <=> d.seid = "huge")
    BY DEF ReqDispacher, EndsProcess
  <2>2. d.seid # "huge" => \E c : HandleSessionDeletion(d) = SendRspTo(Answer(55, c))
    BY Zenon DEF HandleSessionDeletion
  <2>3. d.seid = "huge" => HandleSessionDeletion(d) = Panic
    BY DEF HandleSessionDeletion
  <2> QED
    BY <1>1, <2>1, <2>2, <2>3
<1>7. d.type \notin Supported => a = NoAnswer
  BY DEF ReqDispacher, Supported
<1> HIDE DEF a
<1>8. /\ IsRequest(d.type) => Received(d).answer = a /\ ~Received(d).ends
      /\ ~IsRequest(d.type) => Received(d).answer = NoAnswer
      /\ d.type \in Supported => IsRequest(d.type)
  BY DEF Received, Supported, IsRequest, a
<1>9. d.type = 57 /\ d.pending => Received(d).handled
  <2>1. d.type = 57 => ~IsRequest(d.type) /\ IsResponse(d.type) /\ RspDispacher(d.type)
    BY DEF IsRequest, IsResponse, RspDispacher
  <2> SUFFICES ASSUME d.type = 57, d.pending
               PROVE  Received(d).handled = TRUE
    OBVIOUS
  <2>2. (d.pending /\ RspDispacher(d.type)) = TRUE
    BY <2>1
  <2>3. Received(d) = [answer |-> NoAnswer, ends |-> d.pending, handled |-> TRUE]
    BY <2>1, <2>2, Zenon DEF Received
  <2> QED
    BY <2>3
<1>10. SendReqTo(56) /\ TxtoDispacher(56)
  BY DEF SendReqTo, TxtoDispacher, IsRequest
<1>11. a \notin {NoAnswer, Panic} => d.type \in Supported /\ a.type = d.type + 1
  BY <1>2, <1>3, <1>4, <1>5, <1>6, <1>7 DEF Supported
<1>12. a = Panic => d.type \in Supported
  BY <1>0, <1>7
<1>13. d.type \in Supported /\ Complete(d) => a # NoAnswer /\ (a = Panic <=> EndsProcess(d))
  BY <1>0, <1>2, <1>3, <1>4, <1>5, <1>6 DEF Supported
<1>14. Received(d).answer = a \/ (Received(d).answer = NoAnswer /\ d.type \notin Supported)
  BY <1>8
<1> HIDE DEF Answered, Silent
<1>15. LET r == Received(d)
       IN  /\ r.answer \notin {NoAnswer, Panic} => d.type \in Supported /\ r.answer.type = d.type + 1
           /\ r.answer = Panic => d.type \in Supported
           /\ d.type \in Supported /\ Complete(d) =>
                r.answer # NoAnswer /\ (r.answer = Panic <=> EndsProcess(d))
  BY <1>0, <1>11, <1>12, <1>13, <1>14, Zenon
<1> QED
  BY <1>8, <1>9, <1>10, <1>15 DEF AnswersInKind

-----------------------------------------------------------------------------
(* The inputs: a rule has IEs of its kind and none twice, what is fixed is *)
(* of the kind.                                                            *)
RuleIEs(k) == IF k \in P4Kinds THEN P4IEs[k] ELSE KernelIEs[k]
OfKind(k) == RuleIEs(k) \union {Unreadable(i) : i \in RuleIEs(k)}

(* The words of the runs.                                                  *)
Keywords == {"permit", "deny", "in", "to", "ip", "from", "any", "assigned", "frag"}
FlowWord == FlowWords(Keywords)

Inputs ==
  /\ kind \in KernelKinds \union P4Kinds => parts \in Seq(OfKind(kind)) /\ Once(parts)
  /\ kind \in P4Kinds => env \in P4Cfgs
  /\ kind = "config" => env \in Cfgs
  /\ kind = "datagram" => env \in Datagrams
  /\ kind = "message" => env \in Headers
  /\ kind = "packet" => env \in Leaves
  /\ kind \in {"message", "packet"} => parts \in Seq(Byte) /\ Len(parts) <= MaxBytes
  /\ kind = "flow" => parts \in Seq(FlowWord)
  /\ kind = "switch" => env \in Passages

(* What bounds the bytes of the runs: with two extensions or fewer, their  *)
(* length can be said.                                                     *)
SaidWith(n, l) == 4 + 4 * n + l < 65536
LEMMA MaxBytesNat == MaxBytes \in Nat
  BY BytesAssumption

(* The longest packet of the runs with two extensions.                     *)
LEMMA MaxBytesFit ==
  ASSUME NEW n \in Nat, n <= 2, NEW l \in Nat, l <= MaxBytes
  PROVE  SaidWith(n, l)
<1>1. MaxBytes \in Nat /\ MaxBytes <= 65491
  BY BytesAssumption
<1>2. 4 + 4 * n + l <= 12 + MaxBytes
  BY <1>1
<1> QED
  BY <1>1, <1>2 DEF SaidWith
(* Beside those of its payload and its extensions a message has 12 bytes.  *)
LEMMA HeaderSaid ==
  ASSUME NEW m, NEW n \in Nat, NEW l \in Nat, SaidWith(n, l), MessageLen(m) = 11 + 4 * n + 1 + l
  PROVE  LengthSaid(m)
<1>1. MessageLen(m) - 8 = 4 + 4 * n + l
  OBVIOUS
<1> QED
  BY <1>1 DEF LengthSaid, SaidWith

(* So has a queued packet, less the eight of the header.                   *)
LEMMA QueuedSaid ==
  ASSUME NEW q, NEW b, SaidWith(Len(q), Len(b))
  PROVE  QueuedFits(q, b)
  BY DEF QueuedFits, SaidWith

(* Lengths are numbers.                                                    *)
LEMMA LenNat == \A S : \A s \in Seq(S) : Len(s) \in Nat
  OBVIOUS

(* Another IE, of a type that the rule does not name yet.                  *)
LEMMA OnceMore ==
  ASSUME NEW S, NEW ies \in Seq(S), Once(ies), NEW i \in S,
         \A k \in DOMAIN ies : Type(ies[k]) # Type(i)
  PROVE  Append(ies, i) \in Seq(S) /\ Once(Append(ies, i))
<1> DEFINE new == Append(ies, i)
           n == Len(ies)
<1>1. /\ n \in Nat /\ DOMAIN ies = 1..n
      /\ new \in Seq(S) /\ DOMAIN new = (1..n) \union {n + 1}
      /\ \A k \in 1..n : new[k] = ies[k]
      /\ new[n + 1] = i
  OBVIOUS
<1> HIDE DEF new, n
<1>2. Once(new)
  BY <1>1 DEF Once
<1> QED
  BY <1>1, <1>2 DEF new

(* Numbers and ranges.                                                     *)
Number(a) == List(<< <<a>> >>)
Range2(a, b) == List(<< <<a, b>> >>)
Ranges(a, b, c) == List(<< <<a, b>>, <<c>> >>)
LEMMA RunNumbers ==
  ASSUME NEW a \in Nat \union {NaN}, NEW b \in Nat \union {NaN}, NEW c \in Nat \union {NaN}
  PROVE  Number(a) \in FlowWord /\ Range2(a, b) \in FlowWord /\ Ranges(a, b, c) \in FlowWord
<1>1. PICK p, q, s : p = <<a>> /\ q = <<a, b>> /\ s = <<c>>
  OBVIOUS
<1>2. p \in Seq(Nat \union {NaN}) /\ q \in Seq(Nat \union {NaN}) /\ s \in Seq(Nat \union {NaN})
  BY <1>1
<1>3. <<p>> \in PortLists /\ <<q>> \in PortLists /\ <<q, s>> \in PortLists
  <2>1. PICK S : S = Seq(Nat \union {NaN})
    OBVIOUS
  <2>2. p \in S /\ q \in S /\ s \in S
    BY <1>2, <2>1, Zenon
  <2>3. <<p>> \in Seq(S) /\ <<q>> \in Seq(S) /\ <<q, s>> \in Seq(S)
    BY <2>2
  <2> QED
    BY <2>1, <2>3, Zenon DEF PortLists
<1>4. \A ps \in PortLists : List(ps) \in FlowWord
  BY DEF List, FlowWord, FlowWords
<1>5. List(<<p>>) \in FlowWord /\ List(<<q>>) \in FlowWord /\ List(<<q, s>>) \in FlowWord
  BY <1>3, <1>4, Zenon
<1> QED
  BY <1>1, <1>5, Zenon DEF Number, Range2, Ranges

(* Addresses and networks.                                                *)
LEMMA RunNets ==
  ASSUME NEW v \in {4, 6}, NEW ip \in Nat, NEW len \in Nat \union {Host}
  PROVE  Net(v, ip, len) \in FlowWord
<1>1. PICK n : n = [v |-> v, ip |-> ip, len |-> len]
  OBVIOUS
<1>2. n \in Networks
  BY <1>1 DEF Networks
<1>3. <<"net", n>> \in FlowWord
  BY <1>2 DEF FlowWord, FlowWords
<1> QED
  BY <1>1, <1>3, Zenon DEF Net

(* Keywords.                                                               *)
LEMMA RunWord == \A x \in Keywords : Word(x) \in FlowWord
  BY DEF FlowWord, FlowWords

(* The words of the runs are words.                                        *)
LEMMA RunWords == LaterWords \subseteq FlowWord /\ \A k \in 1..5 : Words[k] \subseteq FlowWord
<1>1. /\ Number(17) \in FlowWord /\ Range2(17, 18) \in FlowWord /\ Number(256) \in FlowWord
      /\ Number(80) \in FlowWord /\ Ranges(80, 90, 7) \in FlowWord /\ Range2(80, NaN) \in FlowWord
      /\ Range2(80, 90) \in FlowWord
  <2>1. /\ \A a \in Nat \union {NaN} : Number(a) \in FlowWord
        /\ \A a, b \in Nat \union {NaN} : Range2(a, b) \in FlowWord
        /\ \A a, b, c \in Nat \union {NaN} : Ranges(a, b, c) \in FlowWord
    BY RunNumbers
  <2>2. /\ 17 \in Nat \union {NaN} /\ 18 \in Nat \union {NaN} /\ 256 \in Nat \union {NaN}
        /\ 80 \in Nat \union {NaN} /\ 90 \in Nat \union {NaN} /\ 7 \in Nat \union {NaN}
        /\ NaN \in Nat \union {NaN}
    OBVIOUS
  <2>3. Number(17) \in FlowWord /\ Number(256) \in FlowWord /\ Number(80) \in FlowWord
    BY <2>1, <2>2
  <2>4. /\ Range2(17, 18) \in FlowWord /\ Range2(80, NaN) \in FlowWord
        /\ Range2(80, 90) \in FlowWord
    <3>1. PICK N : N = Nat \union {NaN}
      OBVIOUS
    <3>2. 17 \in N /\ 18 \in N /\ 80 \in N /\ 90 \in N /\ NaN \in N
      BY <2>2, <3>1, Zenon
    <3>3. \A a, b \in N : Range2(a, b) \in FlowWord
      BY <2>1, <3>1, Zenon
    <3>4. Range2(17, 18) \in FlowWord
      BY <3>2, <3>3, Zenon
    <3>5. Range2(80, NaN) \in FlowWord
      BY <3>2, <3>3, Zenon
    <3>6. Range2(80, 90) \in FlowWord
      BY <3>2, <3>3, Zenon
    <3> QED
      BY <3>4, <3>5, <3>6
  <2>5. Ranges(80, 90, 7) \in FlowWord
    BY <2>1, <2>2
  <2> QED
    BY <2>3, <2>4, <2>5
<1>2. /\ Net(4, 3, Host) \in FlowWord /\ Net(4, 3, 1) \in FlowWord
      /\ Net(6, 5, 2) \in FlowWord /\ Net(4, 1, 3) \in FlowWord
  BY RunNets
<1>3. /\ Word("permit") \in FlowWord /\ Word("deny") \in FlowWord /\ Word("in") \in FlowWord
      /\ Word("to") \in FlowWord /\ Word("ip") \in FlowWord /\ Word("from") \in FlowWord
      /\ Word("any") \in FlowWord /\ Word("assigned") \in FlowWord /\ Word("frag") \in FlowWord
  BY RunWord DEF Keywords
<1>4. LaterWords = {Word("to"), Word("any"), Net(4, 3, 1), Word("frag"), Word("assigned"),
                    Number(80), Range2(80, 90), Ranges(80, 90, 7), Range2(80, NaN)}
  BY Zenon DEF LaterWords, Number, Ranges, Range2
<1>5. /\ Words[1] = {Word("permit"), Word("deny")} /\ Words[2] = {Word("in"), Word("to")}
      /\ Words[3] = {Word("ip"), Number(17), Range2(17, 18), Number(256)}
      /\ Words[4] = {Word("from"), Word("to")}
      /\ Words[5] = {Word("any"), Net(4, 3, Host), Net(4, 3, 1)}
                      \union {Net(6, 5, 2), Net(4, 1, 3), Word("assigned")}
  <2>1. PICK a, b, c, d, e :
          /\ a = {Word("permit"), Word("deny")} /\ b = {Word("in"), Word("to")}
          /\ c = {Word("ip"), Number(17), Range2(17, 18), Number(256)}
          /\ d = {Word("from"), Word("to")}
          /\ e = {Word("any"), Net(4, 3, Host), Net(4, 3, 1)}
                   \union {Net(6, 5, 2), Net(4, 1, 3), Word("assigned")}
    OBVIOUS
  <2>2. Words = <<a, b, c, d, e>>
    BY <2>1, Zenon DEF Words, Nets, Number, Range2
  <2>3. Words[1] = a /\ Words[2] = b /\ Words[3] = c /\ Words[4] = d /\ Words[5] = e
    BY <2>2
  <2> QED
    BY <2>1, <2>3, Zenon
<1>6. LaterWords \subseteq FlowWord
  BY <1>1, <1>2, <1>3, <1>4
<1>7. /\ Words[1] \subseteq FlowWord /\ Words[2] \subseteq FlowWord /\ Words[3] \subseteq FlowWord
      /\ Words[4] \subseteq FlowWord /\ Words[5] \subseteq FlowWord
  BY <1>1, <1>2, <1>3, <1>5
<1>8. \A k \in 1..5 : k = 1 \/ k = 2 \/ k = 3 \/ k = 4 \/ k = 5
  OBVIOUS
<1> QED
  BY <1>6, <1>7, <1>8, Zenon

(* A datagram with the same IEs.                                           *)
LEMMA OtherMessage ==
  ASSUME NEW d \in Datagrams, NEW t0 \in Types
  PROVE  /\ [d EXCEPT !.type = t0] \in Datagrams
         /\ d.type \in Types /\ d.seid \in {"live", "none", "huge"} /\ d.pending \in BOOLEAN
<1> DEFINE N == {"missing", "bad", "unknown", "good"}
           F == {"missing", "bad", "good"}
           S == {"live", "none", "huge"}
           R == {"plain", "URR"}
<1>1. Datagrams = {[type |-> t, nodeID |-> n, FSEID |-> f, seid |-> o, rules |-> r, pending |-> w] :
                     t \in Types, n \in N, f \in F, o \in S, r \in R, w \in BOOLEAN}
  BY DEF Datagrams
<1> SUFFICES /\ [d EXCEPT !.type = t0] \in Datagrams
             /\ d.type \in Types /\ d.seid \in S /\ d.pending \in BOOLEAN
  OBVIOUS
<1> HIDE DEF N, F, S, R
<1>2. PICK t \in Types, n \in N, f \in F, o \in S, r \in R, w \in BOOLEAN :
        d = [type |-> t, nodeID |-> n, FSEID |-> f, seid |-> o, rules |-> r, pending |-> w]
  BY <1>1
<1>3. [d EXCEPT !.type = t0]
        = [type |-> t0, nodeID |-> n, FSEID |-> f, seid |-> o, rules |-> r, pending |-> w]
  BY <1>2
<1> QED
  BY <1>1, <1>2, <1>3

(* Every step keeps the inputs of their kind.                              *)
LEMMA InputsInductive == Spec => []Inputs
<1>1. Init => Inputs
  <2> SUFFICES ASSUME Init
               PROVE  Inputs
    OBVIOUS
  <2>1. parts = <<>> /\ \A S : parts \in Seq(S)
    BY DEF Init
  <2>2. Once(parts) /\ Len(parts) <= MaxBytes
    BY <2>1, MaxBytesNat DEF Once
  <2> QED
    BY <2>1, <2>2 DEF Init, Inputs, KernelKinds, P4Kinds
<1>2. Inputs /\ [Next]_vars => Inputs'
  <2> SUFFICES ASSUME Inputs, [Next]_vars
               PROVE  Inputs'
    OBVIOUS
  <2>1. CASE AddIE
    <3>1. kind' = kind /\ env' = env /\ kind \in KernelKinds \union P4Kinds
      BY <2>1 DEF AddIE
    <3>2. PICK i \in IEChoices :
            /\ \A k \in DOMAIN parts : Type(parts[k]) # Type(i)
            /\ parts' = Append(parts, i) \/ parts' = Append(parts, Unreadable(i))
      BY <2>1 DEF AddIE
    <3>3. i \in OfKind(kind) /\ Unreadable(i) \in OfKind(kind)
      BY <3>2 DEF IEChoices, OfKind, RuleIEs
    <3>4. Type(Unreadable(i)) = Type(i)
      BY DEF Unreadable, Type
    <3>5. parts \in Seq(OfKind(kind)) /\ Once(parts)
      BY <3>1 DEF Inputs
    <3>6. parts' \in Seq(OfKind(kind)) /\ Once(parts')
      BY <3>2, <3>3, <3>4, <3>5, OnceMore
    <3> QED
      BY <3>1, <3>6 DEF Inputs, KernelKinds, P4Kinds
  <2>2. CASE AddWord
    <3>1. kind = "flow" /\ kind' = kind /\ env' = env
      BY <2>2 DEF AddWord
    <3>2. parts \in Seq(FlowWord)
      BY <3>1 DEF Inputs
    <3>3. PICK w : /\ w \in IF Len(parts) < 5 THEN Words[Len(parts) + 1] ELSE LaterWords
                   /\ parts' = Append(parts, w)
      BY <2>2 DEF AddWord
    <3>4. w \in FlowWord
      <4>1. Len(parts) < 5 => Len(parts) + 1 \in 1..5
        BY <3>2
      <4> QED
        BY <3>3, <4>1, RunWords
    <3>5. parts' \in Seq(FlowWord)
      BY <3>2, <3>3, <3>4
    <3> QED
      BY <3>1, <3>5 DEF Inputs, KernelKinds, P4Kinds
  <2>3. CASE AddByte
    <3>1. kind' = kind /\ env' = env /\ kind \in {"message", "packet"}
      BY <2>3 DEF AddByte
    <3>2. PICK b \in {0, 133} : parts' = Append(parts, b)
      BY <2>3 DEF AddByte
    <3>3. parts' \in Seq(Byte) /\ Len(parts') <= MaxBytes
      <4>1. parts \in Seq(Byte) /\ b \in Byte /\ Len(parts) < MaxBytes /\ MaxBytes \in Nat
        BY <2>3, <3>1, <3>2, MaxBytesNat DEF AddByte, Inputs, Byte
      <4> QED
        BY <3>2, <4>1
    <3> QED
      BY <3>1, <3>3 DEF Inputs, KernelKinds, P4Kinds
  <2>4. CASE Again
    <3>1. kind' = kind /\ env' = env /\ parts' = <<>>
      BY <2>4 DEF Again
    <3>2. Once(parts') /\ (\A S : parts' \in Seq(S)) /\ Len(parts') <= MaxBytes
      BY <3>1, MaxBytesNat DEF Once
    <3> QED
      BY <3>1, <3>2 DEF Inputs
  <2>5. CASE AnotherConfig
    BY <2>5 DEF AnotherConfig, Inputs, KernelKinds, P4Kinds
  <2>6. CASE NextDatagram
    <3>1. kind = "datagram" /\ kind' = kind
      BY <2>6 DEF NextDatagram
    <3>2. PICK t0 \in Types : env' = [env EXCEPT !.type = t0]
      BY <2>6 DEF NextDatagram
    <3>3. env \in Datagrams
      BY <3>1 DEF Inputs
    <3>4. env' \in Datagrams
      BY <3>2, <3>3, OtherMessage
    <3> QED
      BY <3>1, <3>4 DEF Inputs, KernelKinds, P4Kinds
  <2>7. CASE OtherWayIn
    <3>1. kind = "switch" /\ kind' = kind /\ parts' = parts
      BY <2>7 DEF OtherWayIn
    <3>2. PICK m \in {"N3Mac", "OtherMac"}, c \in BOOLEAN : env' = [env EXCEPT !.mac = m, !.cpu = c]
      BY <2>7 DEF OtherWayIn
    <3>3. env \in Passages
      BY <3>1 DEF Inputs
    <3>4. PICK pdrs \in SwitchPdrs, fars \in SwitchFars, hs \in SwitchPackets,
               m0 \in {"N3Mac", "OtherMac"}, c0 \in BOOLEAN :
            env = [t |-> Tables(SwitchInit, pdrs, fars), hs |-> hs, mac |-> m0, cpu |-> c0]
      BY <3>3 DEF Passages
    <3>5. PICK t : t = Tables(SwitchInit, pdrs, fars)
      OBVIOUS
    <3>6. env' = [t |-> t, hs |-> hs, mac |-> m, cpu |-> c]
      BY <3>2, <3>4, <3>5
    <3>7. env' = [t |-> Tables(SwitchInit, pdrs, fars), hs |-> hs, mac |-> m, cpu |-> c]
      BY <3>5, <3>6
    <3>8. env' \in Passages
      BY <3>7 DEF Passages
    <3> QED
      BY <3>1, <3>8 DEF Inputs, KernelKinds, P4Kinds
  <2>8. CASE UNCHANGED vars
    BY <2>8 DEF vars, Inputs
  <2> QED
    BY <2>1, <2>2, <2>3, <2>4, <2>5, <2>6, <2>7, <2>8 DEF Next
<1> QED
  BY <1>1, <1>2, PTL DEF Spec

(* pfcp.go:275, node.go:184: every datagram that may come is answered in   *)
(* kind, or is one of those that end the process.                          *)
THEOREM RequestsAnsweredAlways == Spec => []RequestsAnswered
<1>1. Inputs => RequestsAnswered
  <2> SUFFICES ASSUME Inputs, kind = "datagram"
               PROVE  AnswersInKind(env)
    BY DEF RequestsAnswered
  <2>1. env \in Datagrams /\ 1 \in Types
    BY DEF Inputs, Types
  <2>2. env.type \in Types /\ env.seid \in {"live", "none", "huge"} /\ env.pending \in BOOLEAN
    BY <2>1, OtherMessage
  <2>3. env.type \in Nat
    BY <2>2 DEF Types
  <2> QED
    BY <2>2, <2>3, AllAnsweredInKind
<1> QED
  BY <1>1, InputsInductive, PTL

-----------------------------------------------------------------------------
(* driver.go:122, p4gtp5g.go:34.  Configuration: every file, read or not,  *)
(* makes a driver or an error and no panic, whatever the system answers;   *)
(* it ends the process only if the P4 driver cannot dial the switch, and   *)
(* makes the driver it names when every call succeeds.                     *)
THEOREM EveryFileStarts ==
  ASSUME NEW S, NEW cfg, cfg.dnnList \in Seq(S), NEW sys \in Systems
  PROVE  ValidConfigStarts(<<cfg>>, sys) /\ ValidConfigStarts(<<>>, sys)
<1>1. ValidConfigStarts(<<>>, sys)
  BY DEF ReadConfig, ValidConfigStarts
<1> DEFINE d == NewDriver(cfg, sys)
           Well == sys.kernel /\ sys.route /\ sys.dial /\ sys.bind
           Named == cfg.forwarder = "p4gtp5g" \/ (cfg.forwarder = "gtp5g" /\ cfg.ifList # <<>>)
           Starts == /\ d # "panic"
                     /\ d = "fatal" => cfg.forwarder = "p4gtp5g" /\ ~sys.dial
                     /\ Well /\ Named => d = cfg.forwarder
<1>2. ASSUME Valid(cfg)
      PROVE  Starts
  <2>1. /\ cfg.dnnList # <<>> /\ "gnb" \in cfg.present /\ "upfc" \in cfg.present
        /\ "gtpu" \in cfg.present
        /\ \A k \in DOMAIN cfg.dnnList : cfg.dnnList[k] # BadPool
    BY <1>2 DEF Valid
  <2>2. CASE cfg.forwarder = "p4gtp5g"
    <3>1. d = TofinoDriver(cfg, sys)
      BY <2>1, <2>2 DEF NewDriver
    <3>2. d = "error" \/ d = OpenP4Gtp5g(sys)
      BY <2>1, <3>1 DEF TofinoDriver
    <3>3. /\ OpenP4Gtp5g(sys) \in {"fatal", "error", "p4gtp5g"}
          /\ OpenP4Gtp5g(sys) = "fatal" => ~sys.dial
          /\ Well => OpenP4Gtp5g(sys) = "p4gtp5g"
      BY DEF OpenP4Gtp5g
    <3>4. d = OpenP4Gtp5g(sys)
      <4>1. cfg.dnnList[1] # BadPool
        <5>1. 1 \in DOMAIN cfg.dnnList
          BY <2>1
        <5> QED
          BY <2>1, <5>1
      <4> QED
        BY <2>1, <3>1, <4>1 DEF TofinoDriver
    <3> HIDE DEF d, Well
    <3> QED
      BY <2>2, <3>3, <3>4
  <2>3. CASE cfg.forwarder = "gtp5g"
    <3>1. d = "error" \/ (d = AddDnnRoute(cfg, sys) /\ cfg.ifList # <<>>)
      BY <2>3 DEF NewDriver
    <3>2. AddDnnRoute(cfg, sys) \in {"error", "gtp5g"}
      BY DEF AddDnnRoute
    <3>3. Well /\ cfg.ifList # <<>> => d = "gtp5g"
      BY <2>1, <2>3 DEF NewDriver, OpenGtp5g, AddDnnRoute
    <3> HIDE DEF d, Well
    <3> QED
      BY <2>3, <3>1, <3>2, <3>3
  <2>4. CASE cfg.forwarder # "p4gtp5g" /\ cfg.forwarder # "gtp5g"
    <3>1. d = "error"
      BY <2>4 DEF NewDriver
    <3> QED
      BY <2>4, <3>1
  <2> QED
    BY <2>2, <2>3, <2>4
<1>3. ValidConfigStarts(<<cfg>>, sys)
  <2>1. CASE Valid(cfg)
    <3>1. ReadConfig(<<cfg>>) = <<cfg>>
      BY <2>1 DEF ReadConfig
    <3> QED
      BY <1>2, <2>1, <3>1 DEF ValidConfigStarts
  <2>2. CASE ~Valid(cfg)
    <3>1. ReadConfig(<<cfg>>) = <<>>
      BY <2>2 DEF ReadConfig
    <3> QED
      BY <3>1 DEF ValidConfigStarts
  <2> QED
    BY <2>1, <2>2
<1> QED
  BY <1>1, <1>3

(* factory.go:44, driver.go:122, p4gtp5g.go:34: so does every configuration*)
(* of the runs.                                                            *)
THEOREM ConfigStartsAlways == Spec => []ConfigStarts
<1>1. ASSUME NEW cfg \in Cfgs
      PROVE  \E S : cfg.dnnList \in Seq(S)
  <2>1. PICK d0, d1, d2, d3, d4 : /\ d0 = <<>> /\ d1 = <<Pool(16)>> /\ d2 = <<Pool(24)>>
                                  /\ d3 = <<Pool(32)>> /\ d4 = <<BadPool, Pool(24)>>
    OBVIOUS
  <2>2. cfg.dnnList \in {d0, d1, d2, d3, d4}
    BY <2>1 DEF Cfgs
  <2>3. PICK S : S = {Pool(16), Pool(24), Pool(32), BadPool}
    OBVIOUS
  <2>4. d0 \in Seq(S) /\ d1 \in Seq(S) /\ d2 \in Seq(S) /\ d3 \in Seq(S) /\ d4 \in Seq(S)
    BY <2>1, <2>3
  <2> QED
    BY <2>2, <2>4
<1>2. Inputs => ConfigStarts
  <2> SUFFICES ASSUME Inputs, kind = "config", NEW sys \in Systems
               PROVE  ValidConfigStarts(<<env>>, sys)
    BY DEF ConfigStarts
  <2>1. env \in Cfgs
    BY DEF Inputs
  <2> QED
    BY <1>1, <2>1, EveryFileStarts
<1> QED
  BY <1>2, InputsInductive, PTL

-----------------------------------------------------------------------------
(* The kernel's rules.  An IE that a rule may be given: readable as listed,*)
(* and an ID is a number.                                                  *)
LEMMA KernelIEsShape ==
  ASSUME NEW k \in KernelKinds, NEW i \in KernelIEs[k]
  PROVE  \E t, v : i = <<t, v, TRUE>> /\ (t = Creates[k].id => v \in Nat)
<1> DEFINE Good(id, j) == \E t, v : j = <<t, v, TRUE>> /\ (t = id => v \in Nat)
<1>1. ASSUME NEW types, NEW id, NEW v \in Nat, NEW j \in IEsOf(types, v)
      PROVE  Good(id, j)
  <2>1. PICK t \in types : j = <<t, v, TRUE>>
    BY DEF IEsOf, IE
  <2> QED
    BY <2>1
<1>7. ASSUME NEW id, NEW t, NEW v, t # id
      PROVE  Good(id, IE(t, v))
  BY <1>7 DEF IE
<1> SUFFICES Good(Creates[k].id, i)
  OBVIOUS
<1> HIDE DEF Good
<1>2. CASE k = "PDR"
  <2>1. KernelIEs[k] = IEsOf({"PDRID", "Precedence", "OuterHeaderRemoval", "FARID", "QERID", "URRID"}, 3)
                         \union {IE("PDI", p) : p \in KernelPdis}
    BY <1>2 DEF KernelIEs
  <2>2. Creates[k].id = "PDRID"
    BY <1>2 DEF Creates, CreatePDR
  <2>3. CASE i \in {IE("PDI", p) : p \in KernelPdis}
    BY <1>7, <2>2, <2>3
  <2> QED
    BY <1>1, <2>1, <2>3
<1>3. CASE k = "FAR"
  <2>1. KernelIEs[k] = IEsOf({"FARID", "ApplyAction", "BARID", "Other"}, 2)
            \union {IE(t, p) : t \in {"ForwardingParameters", "UpdateForwardingParameters"}, p \in Params}
    BY <1>3 DEF KernelIEs
  <2>2. Creates[k].id = "FARID"
    BY <1>3 DEF Creates, CreateFAR
  <2>3. CASE i \in {IE(t, p) : t \in {"ForwardingParameters", "UpdateForwardingParameters"}, p \in Params}
    BY <1>7, <2>2, <2>3
  <2> QED
    BY <1>1, <2>1, <2>3
<1>4. CASE k = "QER"
  <2>1. KernelIEs[k] = IEsOf({"QERID", "QERCorrelationID", "GateStatus", "QFI", "RQI", "PagingPolicyIndicator"}, 6)
            \union {IE("MBR", [ul |-> 300, dl |-> 7]), IE("GBR", [ul |-> 0, dl |-> 512])}
    BY <1>4 DEF KernelIEs
  <2>2. Creates[k].id = "QERID"
    BY <1>4 DEF Creates, CreateQER
  <2>3. CASE i \in {IE("MBR", [ul |-> 300, dl |-> 7]), IE("GBR", [ul |-> 0, dl |-> 512])}
    BY <1>7, <2>2, <2>3
  <2> QED
    BY <1>1, <2>1, <2>3
<1>5. CASE k = "URR"
  <2>1. KernelIEs[k] = IEsOf({"URRID", "Other"} \union DOMAIN UrrNames, 9)
    BY <1>5 DEF KernelIEs
  <2> QED
    BY <1>1, <2>1
<1>6. CASE k = "BAR"
  <2>1. KernelIEs[k] = IEsOf({"BARID", "Other", "SuggestedBufferingPacketsCount"}, 1)
                         \union IEsOf({"DownlinkDataNotificationDelay"}, 3)
    BY <1>6 DEF KernelIEs
  <2> QED
    BY <1>1, <2>1
<1> QED
  BY <1>2, <1>3, <1>4, <1>5, <1>6 DEF KernelKinds

(* The types and the values the IEs of the runs have.                      *)
RunTypes(k) == {Type(i) : i \in OfKind(k)} \union {"UpdateForwardingParameters"}
RunVals(k) == {Val(i) : i \in OfKind(k)}

(* A rule of the runs is one the theorems about the loops speak of.        *)
LEMMA KernelParts ==
  ASSUME Inputs, kind \in KernelKinds
  PROVE  /\ kind \in Kind /\ Once(parts)
         /\ parts \in IEsOver(RunTypes(kind), RunVals(kind))
         /\ \A j \in DOMAIN parts : Type(parts[j]) = Creates[kind].id => Val(parts[j]) \in Nat
<1>1. kind \in Kind /\ OfKind(kind) = KernelIEs[kind] \union {Unreadable(i) : i \in KernelIEs[kind]}
  BY DEF KernelKinds, P4Kinds, Kind, OfKind, RuleIEs
<1>2. parts \in Seq(OfKind(kind)) /\ Once(parts)
  BY DEF Inputs
<1>3. ASSUME NEW i \in OfKind(kind)
      PROVE  /\ i \in RunTypes(kind) \X RunVals(kind) \X BOOLEAN
             /\ Type(i) = Creates[kind].id => Val(i) \in Nat
  <2>1. PICK j \in KernelIEs[kind] : i = j \/ i = Unreadable(j)
    BY <1>1
  <2>2. PICK t, v : j = <<t, v, TRUE>> /\ (t = Creates[kind].id => v \in Nat)
    BY KernelIEsShape
  <2>3. PICK r \in BOOLEAN : i = <<t, v, r>>
    BY <2>1, <2>2 DEF Unreadable, Type, Val
  <2>4. Type(i) = t /\ Val(i) = v
    BY <2>3 DEF Type, Val
  <2>5. t \in RunTypes(kind) /\ v \in RunVals(kind)
    BY <2>4 DEF RunTypes, RunVals
  <2> QED
    BY <2>2, <2>3, <2>4, <2>5
<1>4. OfKind(kind) \subseteq RunTypes(kind) \X RunVals(kind) \X BOOLEAN
  BY <1>3
<1>5. parts \in IEsOver(RunTypes(kind), RunVals(kind))
  BY <1>2, <1>4 DEF IEsOver
<1>6. \A j \in DOMAIN parts : parts[j] \in OfKind(kind)
  BY <1>2
<1> QED
  BY <1>1, <1>2, <1>3, <1>5, <1>6

(* gtp5g.go:306, :807: neither the order of the IEs nor which of the two   *)
(* loops reads them tells in what the kernel gets.                         *)
THEOREM KernelRuleAlways == Spec => []KernelRuleOfIEs
<1>1. Inputs => KernelRuleOfIEs
  <2> SUFFICES ASSUME Inputs, kind \in KernelKinds
               PROVE  OrderIrrelevant(kind, parts) /\ UpdateLikeCreate(kind, parts)
    BY DEF KernelRuleOfIEs
  <2>1. "UpdateForwardingParameters" \in RunTypes(kind)
    BY DEF RunTypes
  <2> QED
    BY <2>1, KernelParts, OrdersIrrelevant, UpdatesLikeCreates
<1> QED
  BY <1>1, InputsInductive, PTL

(* node.go:116, gtp5g.go:630: a rule is recorded as it was made, and an    *)
(* update empties no queues but its own.                                   *)
THEOREM KernelOwnIDAlways == Spec => []KernelOwnID
<1>1. Inputs => KernelOwnID
  <2> SUFFICES ASSUME Inputs, kind \in KernelKinds
               PROVE  RecordedAsMade(kind, parts) /\ DrainsOwnFar(kind, parts)
    BY DEF KernelOwnID
  <2> QED
    BY KernelParts, RecordsAsMade, DrainsOwn
<1> QED
  BY <1>1, InputsInductive, PTL

-----------------------------------------------------------------------------
(* The switch.  The headers of one packet in the pipeline.                 *)
Hdr(o, g, op, ps, i, n, r) ==
  [outer |-> o, gtpu |-> g, opts |-> op, psc |-> ps, ip |-> i, inner |-> n, rest |-> r]

(* The parser fills them, and there is no outer header yet.                *)
LEMMA Parsed ==
  ASSUME NEW hs
  PROVE  LET h == Parse(hs)
         IN  h = Hdr(<<>>, h.gtpu, h.opts, h.psc, hs[1][2], h.inner, h.rest)
BY Zenon DEF Parse, Hdr

(* What the controls do to them.                                           *)
LEMMA Normalized ==
  ASSUME NEW g, NEW op, NEW ps, NEW i, NEW n, NEW r
  PROVE  Normalize(Hdr(<<>>, g, op, ps, i, n, r)) =
           IF n = <<>> THEN Hdr(<<>>, g, op, ps, i, n, r)
           ELSE Hdr(<<i>>, g, op, ps, n[1], <<>>, r)
<1>1. ASSUME NEW h, h = Hdr(<<>>, g, op, ps, i, n, r)
      PROVE  Normalize(h) = IF n = <<>> THEN h ELSE Hdr(<<i>>, g, op, ps, n[1], <<>>, r)
  <2>1. h.ip = i /\ h.inner = n
    BY <1>1 DEF Hdr
  <2>2. \A a, b, c : [h EXCEPT !.outer = a, !.ip = b, !.inner = c]
                      = [[[h EXCEPT !.outer = a] EXCEPT !.ip = b] EXCEPT !.inner = c]
    OBVIOUS
  <2>3. [h EXCEPT !.outer = <<i>>, !.ip = n[1], !.inner = <<>>] = Hdr(<<i>>, g, op, ps, n[1], <<>>, r)
    <3>1. [h EXCEPT !.outer = <<i>>] = Hdr(<<i>>, g, op, ps, i, n, r)
      BY <1>1 DEF Hdr
    <3>2. [Hdr(<<i>>, g, op, ps, i, n, r) EXCEPT !.ip = n[1]] = Hdr(<<i>>, g, op, ps, n[1], n, r)
      BY DEF Hdr
    <3>3. [Hdr(<<i>>, g, op, ps, n[1], n, r) EXCEPT !.inner = <<>>] = Hdr(<<i>>, g, op, ps, n[1], <<>>, r)
      BY DEF Hdr
    <3> QED
      BY <2>2, <3>1, <3>2, <3>3, Zenon
  <2> QED
    BY <2>1, <2>3 DEF Normalize
<1> QED
  BY <1>1

(* Four headers set at once.                                               *)
Set4(h, a, b, c, d) == [h EXCEPT !.outer = a, !.gtpu = b, !.opts = c, !.psc = d]
LEMMA HdrSetFour ==
  ASSUME NEW o, NEW g, NEW op, NEW ps, NEW i, NEW n, NEW r, NEW a, NEW b, NEW c, NEW d
  PROVE  Set4(Hdr(o, g, op, ps, i, n, r), a, b, c, d) = Hdr(a, b, c, d, i, n, r)
<1>1. \A h : [h EXCEPT !.outer = a, !.gtpu = b, !.opts = c, !.psc = d]
              = [[[[h EXCEPT !.outer = a] EXCEPT !.gtpu = b] EXCEPT !.opts = c] EXCEPT !.psc = d]
  OBVIOUS
<1>2. [Hdr(o, g, op, ps, i, n, r) EXCEPT !.outer = a] = Hdr(a, g, op, ps, i, n, r)
  BY DEF Hdr
<1>3. [Hdr(a, g, op, ps, i, n, r) EXCEPT !.gtpu = b] = Hdr(a, b, op, ps, i, n, r)
  BY DEF Hdr
<1>4. [Hdr(a, b, op, ps, i, n, r) EXCEPT !.opts = c] = Hdr(a, b, c, ps, i, n, r)
  BY DEF Hdr
<1>5. [Hdr(a, b, c, ps, i, n, r) EXCEPT !.psc = d] = Hdr(a, b, c, d, i, n, r)
  BY DEF Hdr
<1> QED
  BY <1>1, <1>2, <1>3, <1>4, <1>5, Zenon DEF Set4

(* A tunnel taken off.                                                     *)
LEMMA Decapsulated ==
  ASSUME NEW o, NEW g, NEW op, NEW ps, NEW i, NEW n, NEW r
  PROVE  GtpuDecap(Hdr(o, g, op, ps, i, n, r)) = Hdr(<<>>, <<>>, <<>>, <<>>, i, n, r)
<1>1. \A h : GtpuDecap(h) = Set4(h, <<>>, <<>>, <<>>, <<>>)
  BY DEF GtpuDecap, Set4
<1> QED
  BY <1>1, HdrSetFour

(* A tunnel put on: its IP and GTP-U headers, and the container.           *)
More(pdr) == IF pdr.push THEN 8 ELSE 0
TunnelIp(i, far, pdr) ==
  Ip(far.src, far.dst, DEFAULT_IPV4_TTL, (i.len + 36 + More(pdr)) % 65536, Udp(far.sport, GTP_GPDU))[2]
TunnelGtpu(i, far, pdr) == Gtpu("GPDU", pdr.push, far.teid, (i.len + More(pdr)) % 65536)[2]
PscOf(pdr) == Psc(pdr.qfi, FALSE)[2]
LEMMA Tunnelled ==
  ASSUME NEW o, NEW g, NEW op, NEW ps, NEW i, NEW n, NEW r, NEW far, NEW pdr
  PROVE  GtpuTunnel(Hdr(o, g, op, ps, i, n, r), far, pdr) =
           Hdr(<<TunnelIp(i, far, pdr)>>, <<TunnelGtpu(i, far, pdr)>>,
               IF pdr.push THEN <<"psc">> ELSE op, IF pdr.push THEN <<PscOf(pdr)>> ELSE ps, i, n, r)
<1> DEFINE h == Hdr(o, g, op, ps, i, n, r)
<1>1. h.ip = i /\ h.opts = op /\ h.psc = ps
  BY DEF Hdr
<1> HIDE DEF h
<1>2. GtpuTunnel(h, far, pdr) =
        Set4(h, <<TunnelIp(h.ip, far, pdr)>>, <<TunnelGtpu(h.ip, far, pdr)>>,
             IF pdr.push THEN <<"psc">> ELSE h.opts, IF pdr.push THEN <<PscOf(pdr)>> ELSE h.psc)
  BY DEF GtpuTunnel, TunnelIp, TunnelGtpu, PscOf, More, Set4
<1> QED
  BY <1>1, <1>2, HdrSetFour DEF h

(* Routing: through a tunnel the tunnel's TTL counts down, else the        *)
(* packet's.                                                               *)
Down(ip) == [ip EXCEPT !.ttl = (ip.ttl + 255) % 256]
PortOf(t, dst) ==
  LET out == Lookup(t.routes, dst)
  IN  IF out = {} THEN 0 ELSE (CHOOSE d \in out : TRUE).port
Sent(h, port) == [Nothing EXCEPT !.sent = <<Deparse(h)>>, !.port = port]
LEMMA RoutedOuter ==
  ASSUME NEW t, NEW o, NEW g, NEW op, NEW ps, NEW i, NEW n, NEW r
  PROVE  Routing(t, Hdr(<<o>>, g, op, ps, i, n, r)) =
           IF i.ttl = 0 THEN Nothing
           ELSE Sent(Hdr(<<Down(o)>>, g, op, ps, i, n, r), PortOf(t, o.dst))
<1>1. ASSUME NEW h, h = Hdr(<<o>>, g, op, ps, i, n, r)
      PROVE  Routing(t, h) = IF i.ttl = 0 THEN Nothing
                             ELSE Sent(Hdr(<<Down(o)>>, g, op, ps, i, n, r), PortOf(t, o.dst))
  <2>1. h.outer = <<o>> /\ h.outer # <<>> /\ h.outer[1] = o /\ h.ip = i
    BY <1>1 DEF Hdr
  <2>2. [h EXCEPT !.outer = <<Down(o)>>] = Hdr(<<Down(o)>>, g, op, ps, i, n, r)
    BY <1>1 DEF Hdr
  <2>3. Hdr(<<Down(o)>>, g, op, ps, i, n, r).ip = i
    BY DEF Hdr
  <2>4. Routing(t, h) = LET x == [h EXCEPT !.outer = <<Down(h.outer[1])>>]
                        IN  IF x.ip.ttl = 0 THEN Nothing ELSE Sent(x, PortOf(t, h.outer[1].dst))
    BY <2>1 DEF Routing, Sent, PortOf, Down
  <2> QED
    BY <2>1, <2>2, <2>3, <2>4
<1> QED
  BY <1>1

(* Without a tunnel: the packet's own TTL, and its own destination.        *)
LEMMA RoutedPlain ==
  ASSUME NEW t, NEW g, NEW op, NEW ps, NEW i, NEW n, NEW r
  PROVE  Routing(t, Hdr(<<>>, g, op, ps, i, n, r)) =
           IF Down(i).ttl = 0 THEN Nothing
           ELSE Sent(Hdr(<<>>, g, op, ps, Down(i), n, r), PortOf(t, i.dst))
<1>1. ASSUME NEW h, h = Hdr(<<>>, g, op, ps, i, n, r)
      PROVE  Routing(t, h) = IF Down(i).ttl = 0 THEN Nothing
                             ELSE Sent(Hdr(<<>>, g, op, ps, Down(i), n, r), PortOf(t, i.dst))
  <2>1. h.outer = <<>> /\ h.ip = i
    BY <1>1 DEF Hdr
  <2>2. [h EXCEPT !.ip = Down(i)] = Hdr(<<>>, g, op, ps, Down(i), n, r)
    BY <1>1 DEF Hdr
  <2>3. Hdr(<<>>, g, op, ps, Down(i), n, r).ip = Down(i)
    BY DEF Hdr
  <2>4. Routing(t, h) = LET x == [h EXCEPT !.ip = Down(h.ip)]
                        IN  IF x.ip.ttl = 0 THEN Nothing ELSE Sent(x, PortOf(t, h.ip.dst))
    BY <2>1 DEF Routing, Sent, PortOf, Down
  <2> QED
    BY <2>1, <2>2, <2>3, <2>4
<1> QED
  BY <1>1

(* What the controls make of a packet that came in a tunnel.               *)
LEMMA NormalizedInner ==
  ASSUME NEW g, NEW op, NEW ps, NEW i, NEW u, NEW r
  PROVE  Normalize(Hdr(<<>>, g, op, ps, i, <<u>>, r)) = Hdr(<<i>>, g, op, ps, u, <<>>, r)
<1>1. PICK n : n = <<u>>
  OBVIOUS
<1>2. n # <<>> /\ n[1] = u
  BY <1>1
<1>3. Normalize(Hdr(<<>>, g, op, ps, i, n, r)) =
        IF n = <<>> THEN Hdr(<<>>, g, op, ps, i, n, r) ELSE Hdr(<<i>>, g, op, ps, n[1], <<>>, r)
  BY Normalized
<1>4. Normalize(Hdr(<<>>, g, op, ps, i, n, r)) = Hdr(<<i>>, g, op, ps, u, <<>>, r)
  BY <1>2, <1>3, Zenon
<1> QED
  BY <1>1, <1>4, Zenon

(* A packet without a tunnel that has not grown too old.                   *)
LEMMA RoutedPlainAlive ==
  ASSUME NEW t, NEW g, NEW op, NEW ps, NEW i, NEW n, NEW r, Down(i).ttl # 0
  PROVE  Routing(t, Hdr(<<>>, g, op, ps, i, n, r)) = Sent(Hdr(<<>>, g, op, ps, Down(i), n, r), PortOf(t, i.dst))
<1>1. Routing(t, Hdr(<<>>, g, op, ps, i, n, r)) =
        IF Down(i).ttl = 0 THEN Nothing ELSE Sent(Hdr(<<>>, g, op, ps, Down(i), n, r), PortOf(t, i.dst))
  BY RoutedPlain, Zenon
<1> QED
  BY <1>1, Zenon

(* IP headers as they arrive, with addresses from A.                       *)
Uint16 == 0..65535
L4Headers == {"udp", "tcp", "other"} \X Uint16 \X Uint16
IpHeaders(A) == [src : A, dst : A, ttl : Byte, len : Uint16, l4 : L4Headers]

(* Every length is a number.                                               *)
LEMMA Uint16IsNat == Uint16 \subseteq Nat
BY DEF Uint16

(* Counting down a TTL of more than 1.                                     *)
LEMMA DownOne ==
  ASSUME NEW A, NEW i \in IpHeaders(A)
  PROVE  /\ Down(i).ttl = (i.ttl + 255) % 256
         /\ i.ttl > 1 => Down(i).ttl # 0
         /\ i.ttl > 0 => Down(i) = [i EXCEPT !.ttl = i.ttl - 1]
<1>1. i.ttl \in Byte
  BY DEF IpHeaders
<1>2. \A x : [i EXCEPT !.ttl = x].ttl = x
  BY DEF IpHeaders
<1>3. Down(i).ttl = (i.ttl + 255) % 256
  BY <1>2 DEF Down
<1>4. i.ttl > 0 => (i.ttl + 255) % 256 = i.ttl - 1
  BY <1>1 DEF Byte
<1>5. i.ttl > 1 => Down(i).ttl # 0
  BY <1>1, <1>3, <1>4 DEF Byte
<1>6. i.ttl > 0 => Down(i) = [i EXCEPT !.ttl = i.ttl - 1]
  BY <1>4 DEF Down
<1> QED
  BY <1>3, <1>5, <1>6

(* A packet in the ingress: its headers, and the UE's among them.          *)
LEMMA Arrived ==
  ASSUME NEW hs
  PROVE  \E o, n :
           /\ Normalize(Parse(hs)) = Hdr(o, Parse(hs).gtpu, Parse(hs).opts, Parse(hs).psc,
                                         UePacket(hs), n, Parse(hs).rest)
           /\ Parse(hs).inner = <<>> => o = <<>> /\ UePacket(hs) = hs[1][2]
           /\ Parse(hs).inner # <<>> => o = <<hs[1][2]>> /\ UePacket(hs) = Parse(hs).inner[1]
<1> DEFINE h == Parse(hs)
<1>1. h = Hdr(<<>>, h.gtpu, h.opts, h.psc, hs[1][2], h.inner, h.rest)
  BY Parsed, Zenon
<1> HIDE DEF h
<1>2. PICK o, i, n :
        /\ Normalize(h) = Hdr(o, h.gtpu, h.opts, h.psc, i, n, h.rest)
        /\ h.inner = <<>> => o = <<>> /\ i = hs[1][2]
        /\ h.inner # <<>> => o = <<hs[1][2]>> /\ i = h.inner[1]
  <2>1. CASE h.inner = <<>>
    <3>1. Normalize(h) = Hdr(<<>>, h.gtpu, h.opts, h.psc, hs[1][2], h.inner, h.rest)
      BY <1>1, <2>1 DEF Normalize
    <3> QED
      BY <2>1, <3>1
  <2>2. CASE h.inner # <<>>
    <3>1. Normalize(h) = Hdr(<<hs[1][2]>>, h.gtpu, h.opts, h.psc, h.inner[1], <<>>, h.rest)
      BY <1>1, <2>2, Normalized
    <3> QED
      BY <2>2, <3>1
  <2> QED
    BY <2>1, <2>2
<1>3. UePacket(hs) = Normalize(h).ip
  BY DEF UePacket, h
<1>4. UePacket(hs) = i
  BY <1>2, <1>3 DEF Hdr
<1> QED
  BY <1>2, <1>4 DEF h

(* What Routing leaves: nothing, or the packet; a live packet leaves.      *)
Outcome(x) == x = Nothing \/ \E h, p : x = Sent(h, p)
LEMMA RoutedOut ==
  ASSUME NEW A, NEW t, NEW o, NEW g, NEW op, NEW ps, NEW i \in IpHeaders(A), NEW n, NEW r,
         o = <<>> \/ \E x : o = <<x>>,
         NEW y, y = Routing(t, Hdr(o, g, op, ps, i, n, r))
  PROVE  Outcome(y) /\ (i.ttl > 1 => y # Nothing /\ y.sent # <<>>)
<1>1. \A h, p : Sent(h, p).sent = <<Deparse(h)>>
  BY DEF Sent, Nothing
<1>2. Nothing.sent = <<>>
  BY DEF Nothing
<1>3. i.ttl > 1 => Down(i).ttl # 0 /\ i.ttl # 0
  BY DownOne DEF IpHeaders
<1>4. CASE o = <<>>
  <2>1. y = IF Down(i).ttl = 0 THEN Nothing
            ELSE Sent(Hdr(<<>>, g, op, ps, Down(i), n, r), PortOf(t, i.dst))
    BY <1>4, RoutedPlain
  <2> QED
    BY <1>1, <1>2, <1>3, <2>1 DEF Outcome
<1>5. ASSUME NEW x, o = <<x>>
      PROVE  Outcome(y) /\ (i.ttl > 1 => y # Nothing /\ y.sent # <<>>)
  <2>1. y = IF i.ttl = 0 THEN Nothing
            ELSE Sent(Hdr(<<Down(x)>>, g, op, ps, i, n, r), PortOf(t, x.dst))
    BY <1>5, RoutedOuter
  <2> QED
    BY <1>1, <1>2, <1>3, <2>1 DEF Outcome
<1> QED
  BY <1>4, <1>5

(* The clone is marked beside the rest.                                    *)
LEMMA Cloned ==
  ASSUME NEW x, Outcome(x), NEW c
  PROVE  LET y == [x EXCEPT !.clone = c]
         IN  /\ y.clone = c /\ y.sent = x.sent /\ y.port = x.port
             /\ y.digest = <<>> /\ x.digest = <<>>
<1>1. CASE x = Nothing
  BY <1>1 DEF Nothing
<1>2. ASSUME NEW h, NEW p, x = Sent(h, p)
      PROVE  LET y == [x EXCEPT !.clone = c]
             IN  /\ y.clone = c /\ y.sent = x.sent /\ y.port = x.port
                 /\ y.digest = <<>> /\ x.digest = <<>>
  <2>1. x = [sent |-> <<Deparse(h)>>, port |-> p, digest |-> <<>>, clone |-> FALSE]
    BY <1>2 DEF Sent, Nothing
  <2> QED
    BY <2>1
<1> QED
  BY <1>1, <1>2 DEF Outcome

(* A switch as the driver fills it: one entry for a FAR, of one of the two *)
(* actions, with three flags.                                              *)
WellSet(t) ==
  /\ \A d, e \in t.fars : d.key = e.key => d = e
  /\ \A e \in t.fars :
       /\ e.action \in {"load_normal_far_attributes", "load_tunnel_far_attributes"}
       /\ e.data.drop \in BOOLEAN /\ e.data.buffer \in BOOLEAN /\ e.data.notify \in BOOLEAN

(* What is loaded of a FAR: one of the two actions leaves out its tunnel   *)
(* and its buffering.                                                      *)
LEMMA Loaded ==
  ASSUME NEW t, WellSet(t), NEW pdr, NEW e \in t.fars,
         e.key = [fseid |-> pdr.fseid, farId |-> pdr.farId]
  PROVE  LET far    == LoadFar(t, pdr)
             tunnel == e.action = "load_tunnel_far_attributes"
         IN  /\ far.drop = e.data.drop /\ far.notify = e.data.notify
             /\ far.buffer <=> tunnel /\ e.data.buffer
             /\ far.tunnel <=> tunnel
             /\ tunnel => /\ far.type = e.data.type /\ far.src = e.data.src
                          /\ far.dst = e.data.dst /\ far.teid = e.data.teid
<1> DEFINE hits == {x \in t.fars : x.key = [fseid |-> pdr.fseid, farId |-> pdr.farId]}
<1>1. hits = {e} /\ (CHOOSE x \in hits : TRUE) = e
  <2>1. hits = {e}
    BY DEF WellSet
  <2> QED
    BY <2>1
<1>2. CASE e.action = "load_normal_far_attributes"
  <2>1. LoadFar(t, pdr) = [NoFar EXCEPT !.drop = e.data.drop, !.notify = e.data.notify]
    BY <1>1, <1>2 DEF LoadFar
  <2>2. LoadFar(t, pdr) = [tunnel |-> FALSE, drop |-> e.data.drop, buffer |-> FALSE, notify |-> e.data.notify]
    BY <2>1 DEF NoFar
  <2> HIDE DEF hits
  <2> QED
    BY <1>2, <2>2
<1>3. CASE e.action = "load_tunnel_far_attributes"
  <2>1. LoadFar(t, pdr) = [tunnel |-> TRUE, drop |-> e.data.drop, buffer |-> e.data.buffer,
                           notify |-> e.data.notify, type |-> e.data.type, src |-> e.data.src,
                           dst |-> e.data.dst, teid |-> e.data.teid, sport |-> e.data.port]
    BY <1>1, <1>3 DEF LoadFar
  <2>2. e.data.buffer \in BOOLEAN
    BY DEF WellSet
  <2> HIDE DEF hits
  <2> QED
    BY <1>3, <2>1, <2>2
<1> QED
  BY <1>2, <1>3 DEF WellSet

(* main.p4:270.  Whatever the tables and the packet: a FAR is obeyed.      *)
THEOREM FarsObeyed ==
  ASSUME NEW t, WellSet(t), NEW mac, NEW hs, NEW A, UePacket(hs) \in IpHeaders(A)
  PROVE  FarObeyed(t, mac, hs)
<1> SUFFICES ASSUME NEW pdr \in Pdrs(t, hs), NEW e \in t.fars, NEW out \in Ingress(t, FALSE, mac, hs),
                    Pdrs(t, hs) = {pdr}, e.key = [fseid |-> pdr.fseid, farId |-> pdr.farId],
                    mac \in t.my_station
             PROVE  LET buffers == e.data.buffer /\ e.action = "load_tunnel_far_attributes"
                    IN  /\ out.digest = IF buffers THEN <<pdr.fseid>> ELSE <<>>
                        /\ out.clone = e.data.notify
                        /\ buffers \/ e.data.drop => out.sent = <<>>
                        /\ ~buffers /\ ~e.data.drop /\ UePacket(hs).ttl > 1 => out.sent # <<>>
  BY Zenon DEF FarObeyed
<1> DEFINE far == LoadFar(t, pdr)
           h == Normalize(Parse(hs))
           d == IF pdr.decap THEN GtpuDecap(h) ELSE h
           x == IF far.tunnel /\ far.type = GTPU THEN GtpuTunnel(d, far, pdr) ELSE d
<1>1. out = ExecuteFar(t, d, far, pdr)
  <2>1. Ingress(t, FALSE, mac, hs) =
          {ExecuteFar(t, IF p.decap THEN GtpuDecap(h) ELSE h, LoadFar(t, p), p) : p \in Pdrs(t, hs)}
    BY DEF Ingress
  <2> QED
    BY <2>1
<1>2. PICK o, g, op, ps, n, r :
        /\ d = Hdr(o, g, op, ps, UePacket(hs), n, r)
        /\ o = <<>> \/ \E y : o = <<y>>
  BY Arrived, Decapsulated
<1> HIDE DEF d, h
<1>3. \E o2, g2, op2, ps2 :
        /\ x = Hdr(o2, g2, op2, ps2, UePacket(hs), n, r)
        /\ o2 = <<>> \/ \E y : o2 = <<y>>
  <2>1. GtpuTunnel(d, far, pdr) =
          Hdr(<<TunnelIp(UePacket(hs), far, pdr)>>, <<TunnelGtpu(UePacket(hs), far, pdr)>>,
              IF pdr.push THEN <<"psc">> ELSE op, IF pdr.push THEN <<PscOf(pdr)>> ELSE ps,
              UePacket(hs), n, r)
    BY <1>2, Tunnelled
  <2>2. CASE far.tunnel /\ far.type = GTPU
    <3>1. x = GtpuTunnel(d, far, pdr)
      BY <2>2
    <3> QED
      BY <2>1, <3>1
  <2>3. CASE ~(far.tunnel /\ far.type = GTPU)
    <3>1. x = d
      BY <2>3
    <3> QED
      BY <1>2, <3>1
  <2> QED
    BY <2>2, <2>3
<1> HIDE DEF x
<1>4. Outcome(Routing(t, x)) /\ (UePacket(hs).ttl > 1 => Routing(t, x).sent # <<>>)
  BY <1>3, RoutedOut
<1> DEFINE tunnel == e.action = "load_tunnel_far_attributes"
<1>5. /\ far.drop = e.data.drop /\ far.notify = e.data.notify
      /\ far.buffer <=> tunnel /\ e.data.buffer
  BY Loaded
<1>6. e.data.drop \in BOOLEAN /\ e.data.buffer \in BOOLEAN
  BY DEF WellSet
<1>7. CASE far.buffer
  <2>1. out = [Nothing EXCEPT !.clone = far.notify, !.digest = <<pdr.fseid>>]
    BY <1>1, <1>7 DEF ExecuteFar
  <2> HIDE DEF far
  <2>2. out.clone = far.notify /\ out.digest = <<pdr.fseid>> /\ out.sent = <<>>
    BY <2>1 DEF Nothing
  <2> QED
    BY <1>5, <1>6, <1>7, <2>2
<1>8. CASE ~far.buffer /\ far.drop
  <2>1. out = [Nothing EXCEPT !.clone = far.notify]
    BY <1>1, <1>8 DEF ExecuteFar
  <2> HIDE DEF far
  <2>2. out.clone = far.notify /\ out.digest = <<>> /\ out.sent = <<>>
    BY <2>1 DEF Nothing
  <2> QED
    BY <1>5, <1>6, <1>8, <2>2
<1>9. CASE ~far.buffer /\ ~far.drop
  <2>1. out = [Routing(t, x) EXCEPT !.clone = far.notify]
    BY <1>1, <1>9 DEF ExecuteFar, x
  <2> HIDE DEF far
  <2>2. out.clone = far.notify /\ out.digest = <<>> /\ out.sent = Routing(t, x).sent
    BY <1>4, <2>1, Cloned
  <2> QED
    BY <1>4, <1>5, <1>6, <1>9, <2>2
<1> QED
  BY <1>5, <1>6, <1>7, <1>8, <1>9

-----------------------------------------------------------------------------
(* What follows a front is the rest.                                       *)
LEMMA AfterFront ==
  ASSUME NEW S, NEW front \in Seq(S), NEW rest \in Seq(S)
  PROVE  /\ Len(front \o rest) = Len(front) + Len(rest)
         /\ Len(front) \in Nat /\ Len(rest) \in Nat
         /\ \A k \in 1..Len(front) : (front \o rest)[k] = front[k]
         /\ rest # <<>> => (front \o rest)[Len(front) + 1] = rest[1]
         /\ SubSeq(front \o rest, Len(front) + 1, Len(front) + Len(rest)) = rest
<1>1. /\ front \o rest \in Seq(S) /\ Len(front \o rest) = Len(front) + Len(rest)
      /\ \A k \in 1..Len(front) + Len(rest) :
           (front \o rest)[k] = IF k <= Len(front) THEN front[k] ELSE rest[k - Len(front)]
  BY ConcatProperties
<1>2. Len(front) \in Nat /\ Len(rest) \in Nat
  OBVIOUS
<1>3. rest # <<>> => Len(rest) >= 1
  OBVIOUS
<1>4. SubSeq(front \o rest, Len(front) + 1, Len(front) + Len(rest)) = rest
  <2>1. CASE rest = <<>>
    <3>1. Len(front) + Len(rest) < Len(front) + 1 /\ Len(front) + 1 \in Int /\ Len(front) + Len(rest) \in Int
      BY <1>2, <2>1
    <3> QED
      BY <2>1, <3>1, SubSeqEmpty
  <2>2. CASE rest # <<>>
    <3>1. /\ Len(front) + 1 \in Len(front) + 1..Len(front) + Len(rest)
          /\ Len(front) + Len(rest) \in Len(front) + 1..Len(front) + Len(rest)
      BY <1>2, <1>3, <2>2
    <3>2. SubSeq(front \o rest, Len(front) + 1, Len(front) + Len(rest))
            = SubSeq(rest, (Len(front) + 1) - Len(front), (Len(front) + Len(rest)) - Len(front))
      BY <3>1, SubSeqOfConcat2
    <3>3. (Len(front) + 1) - Len(front) = 1 /\ (Len(front) + Len(rest)) - Len(front) = Len(rest)
      BY <1>2
    <3> QED
      BY <3>2, <3>3, SubSeqFull
  <2> QED
    BY <2>1, <2>2
<1> QED
  BY <1>1, <1>2, <1>3, <1>4

(* A packet, framed as it is on the wire: plain, one in UDP, or a G-PDU    *)
(* without options, with a container, with a container and more, or with   *)
(* other options.                                                          *)
WirePlain(i, rest) == << <<"ip", i>> >> \o rest
WireNested(i, u, rest) == << <<"ip", i>>, <<"ip", u>> >> \o rest
WireTunnel(i, g, u, rest) == << <<"ip", i>>, <<"gtpu", g>>, <<"ip", u>> >> \o rest
WireContainer(i, g, q, u, rest) ==
  << <<"ip", i>>, <<"gtpu", g>>, <<"opts", "psc">>, <<"psc", q>>, <<"ip", u>> >> \o rest
WireMore(i, g, q, rest) ==
  << <<"ip", i>>, <<"gtpu", g>>, <<"opts", "psc">>, <<"psc", q>> >> \o rest
WireOptions(i, g, x, rest) == << <<"ip", i>>, <<"gtpu", g>>, <<"opts", x>> >> \o rest
ToGtp(i) == UdpTo(i, GTP_GPDU)
ToIp(i) == UdpTo(i, IPV4_IN_UDP)
LEMMA PortsApart == ASSUME NEW i, ToGtp(i) PROVE ~ToIp(i)
BY DEF ToGtp, ToIp, UdpTo, GTP_GPDU, IPV4_IN_UDP

(* The parser, by what arrives: a packet in no tunnel, or with another GTP *)
(* message as its payload;                                                 *)
IsGpdu(x) == x[1] = "gtpu" /\ x[2].msg = "GPDU"
Opened(i, x) == (ToGtp(i) /\ IsGpdu(x)) \/ (ToIp(i) /\ x[1] = "ip")
LEMMA ParsedPlain ==
  ASSUME NEW S, NEW i, NEW rest \in Seq(S), rest # <<>> => ~Opened(i, rest[1])
  PROVE  Parse(WirePlain(i, rest)) = Hdr(<<>>, <<>>, <<>>, <<>>, i, <<>>, rest)
<1> DEFINE T == S \union {<<"ip", i>>}
           front == << <<"ip", i>> >>
           hs == front \o rest
<1>1. front \in Seq(T) /\ rest \in Seq(T) /\ Len(front) = 1 /\ front[1] = <<"ip", i>>
  BY SeqMonotonic
<1> HIDE DEF front
<1>2. /\ Len(hs) = 1 + Len(rest) /\ Len(rest) \in Nat /\ hs[1] = <<"ip", i>>
      /\ rest # <<>> => hs[2] = rest[1]
      /\ SubSeq(hs, 2, Len(hs)) = rest
  <2>1. front \in Seq(T) /\ Len(front) \in Nat /\ rest \in Seq(T)
    BY <1>1
  <2>2. /\ Len(hs) = Len(front) + Len(rest) /\ Len(rest) \in Nat
        /\ \A k \in 1..Len(front) : hs[k] = front[k]
        /\ rest # <<>> => hs[Len(front) + 1] = rest[1]
        /\ SubSeq(hs, Len(front) + 1, Len(front) + Len(rest)) = rest
    BY <2>1, AfterFront
  <2> HIDE DEF hs
  <2> QED
    BY <1>1, <2>2
<1>3. hs[1][2] = i
  BY <1>2
<1> HIDE DEF hs
<1>4. /\ ~(ToGtp(i) /\ Len(hs) > 1 /\ hs[2][1] = "gtpu" /\ hs[2][2].msg = "GPDU")
      /\ ~(ToIp(i) /\ Len(hs) > 1 /\ hs[2][1] = "ip")
  BY <1>2 DEF IsGpdu, Opened
<1>5. Parse(hs) = [outer |-> <<>>, gtpu |-> <<>>, opts |-> <<>>, psc |-> <<>>, ip |-> i,
                   inner |-> <<>>, rest |-> SubSeq(hs, 1 + 1, Len(hs))]
  BY <1>3, <1>4 DEF Parse, ToGtp, ToIp
<1>6. SubSeq(hs, 1 + 1, Len(hs)) = rest
  <2>1. 1 + 1 = 2
    OBVIOUS
  <2> QED
    BY <1>2, <2>1
<1>7. Parse(hs) = Hdr(<<>>, <<>>, <<>>, <<>>, i, <<>>, rest)
  BY <1>5, <1>6, Zenon DEF Hdr
<1> QED
  BY <1>7, Zenon DEF hs, front, WirePlain

(* one that comes in UDP;                                                  *)
LEMMA ParsedNested ==
  ASSUME NEW S, NEW i, NEW u, NEW rest \in Seq(S), ToIp(i)
  PROVE  Parse(WireNested(i, u, rest)) = Hdr(<<>>, <<>>, <<>>, <<>>, i, <<u>>, rest)
<1> DEFINE T == S \union {<<"ip", i>>, <<"ip", u>>}
           front == << <<"ip", i>>, <<"ip", u>> >>
           hs == front \o rest
<1>1. front \in Seq(T) /\ rest \in Seq(T) /\ Len(front) = 2 /\ front[1] = <<"ip", i>> /\ front[2] = <<"ip", u>>
  BY SeqMonotonic
<1> HIDE DEF front
<1>2. /\ Len(hs) = 2 + Len(rest) /\ Len(rest) \in Nat /\ hs[1] = <<"ip", i>> /\ hs[2] = <<"ip", u>>
      /\ SubSeq(hs, 3, Len(hs)) = rest
  <2>1. front \in Seq(T) /\ Len(front) \in Nat /\ rest \in Seq(T)
    BY <1>1
  <2>2. /\ Len(hs) = Len(front) + Len(rest) /\ Len(rest) \in Nat
        /\ \A k \in 1..Len(front) : hs[k] = front[k]
        /\ rest # <<>> => hs[Len(front) + 1] = rest[1]
        /\ SubSeq(hs, Len(front) + 1, Len(front) + Len(rest)) = rest
    BY <2>1, AfterFront
  <2> HIDE DEF hs
  <2> QED
    BY <1>1, <2>2
<1>3. hs[1][2] = i /\ hs[2][1] = "ip" /\ hs[2][2] = u /\ ~ToGtp(i)
  BY <1>2, PortsApart
<1> HIDE DEF hs
<1>4. Len(hs) > 1 /\ hs[2][1] = "ip"
  BY <1>2, <1>3
<1>5. Parse(hs) = [outer |-> <<>>, gtpu |-> <<>>, opts |-> <<>>, psc |-> <<>>, ip |-> i,
                   inner |-> <<u>>, rest |-> SubSeq(hs, 2 + 1, Len(hs))]
  BY <1>3, <1>4 DEF Parse, ToGtp, ToIp
<1>6. SubSeq(hs, 2 + 1, Len(hs)) = rest
  <2>1. 2 + 1 = 3
    OBVIOUS
  <2> QED
    BY <1>2, <2>1
<1>7. Parse(hs) = Hdr(<<>>, <<>>, <<>>, <<>>, i, <<u>>, rest)
  BY <1>5, <1>6, Zenon DEF Hdr
<1> QED
  BY <1>7, Zenon DEF hs, front, WireNested

(* one in a tunnel;                                                        *)
LEMMA ParsedTunnel ==
  ASSUME NEW S, NEW i, NEW g, NEW u, NEW rest \in Seq(S), ToGtp(i), g.msg = "GPDU", ~g.flagged
  PROVE  Parse(WireTunnel(i, g, u, rest))
           = Hdr(<<>>, <<g>>, <<>>, <<>>, i, <<u>>, rest)
<1> DEFINE T == S \union {<<"ip", i>>, <<"gtpu", g>>, <<"ip", u>>}
           front == << <<"ip", i>>, <<"gtpu", g>>, <<"ip", u>> >>
           hs == front \o rest
<1>1. /\ front \in Seq(T) /\ rest \in Seq(T) /\ Len(front) = 3 /\ front[1] = <<"ip", i>>
      /\ front[2] = <<"gtpu", g>> /\ front[3] = <<"ip", u>>
  BY SeqMonotonic
<1> HIDE DEF front
<1>2. /\ Len(hs) = 3 + Len(rest) /\ Len(rest) \in Nat /\ hs[1] = <<"ip", i>>
      /\ hs[2] = <<"gtpu", g>> /\ hs[3] = <<"ip", u>>
      /\ SubSeq(hs, 4, Len(hs)) = rest
  <2>1. front \in Seq(T) /\ Len(front) \in Nat /\ rest \in Seq(T)
    BY <1>1
  <2>2. /\ Len(hs) = Len(front) + Len(rest) /\ Len(rest) \in Nat
        /\ \A k \in 1..Len(front) : hs[k] = front[k]
        /\ rest # <<>> => hs[Len(front) + 1] = rest[1]
        /\ SubSeq(hs, Len(front) + 1, Len(front) + Len(rest)) = rest
    BY <2>1, AfterFront
  <2> HIDE DEF hs
  <2> QED
    BY <1>1, <2>2
<1>3. /\ hs[1][2] = i /\ hs[2][1] = "gtpu" /\ hs[2][2] = g /\ hs[3][2] = u
  BY <1>2
<1> HIDE DEF hs
<1>4. Len(hs) > 1 /\ hs[2][1] = "gtpu" /\ hs[2][2].msg = "GPDU" /\ ~hs[2][2].flagged
  BY <1>2, <1>3
<1>5. Parse(hs) = [outer |-> <<>>, gtpu |-> <<g>>, opts |-> <<>>, psc |-> <<>>, ip |-> i,
                   inner |-> <<u>>, rest |-> SubSeq(hs, 3 + 1, Len(hs))]
  BY <1>3, <1>4, PortsApart DEF Parse, ToGtp, ToIp
<1>6. SubSeq(hs, 3 + 1, Len(hs)) = rest
  <2>1. 3 + 1 = 4
    OBVIOUS
  <2> QED
    BY <1>2, <2>1
<1>7. Parse(hs) = Hdr(<<>>, <<g>>, <<>>, <<>>, i, <<u>>, rest)
  BY <1>5, <1>6, Zenon DEF Hdr
<1> QED
  BY <1>7, Zenon DEF hs, front, WireTunnel

(* one in a tunnel with a PDU session container;                           *)
LEMMA ParsedContainer ==
  ASSUME NEW S, NEW i, NEW g, NEW q, NEW u, NEW rest \in Seq(S),
         ToGtp(i), g.msg = "GPDU", g.flagged, ~q.more
  PROVE  Parse(WireContainer(i, g, q, u, rest))
           = Hdr(<<>>, <<g>>, <<"psc">>, <<q>>, i, <<u>>, rest)
<1> DEFINE T == S \union {<<"ip", i>>, <<"gtpu", g>>, <<"opts", "psc">>, <<"psc", q>>, <<"ip", u>>}
           front == << <<"ip", i>>, <<"gtpu", g>>, <<"opts", "psc">>, <<"psc", q>>, <<"ip", u>> >>
           hs == front \o rest
<1>1. /\ front \in Seq(T) /\ rest \in Seq(T) /\ Len(front) = 5 /\ front[1] = <<"ip", i>>
      /\ front[2] = <<"gtpu", g>> /\ front[3] = <<"opts", "psc">>
      /\ front[4] = <<"psc", q>> /\ front[5] = <<"ip", u>>
  BY SeqMonotonic
<1> HIDE DEF front
<1>2. /\ Len(hs) = 5 + Len(rest) /\ Len(rest) \in Nat /\ hs[1] = <<"ip", i>>
      /\ hs[2] = <<"gtpu", g>> /\ hs[3] = <<"opts", "psc">> /\ hs[4] = <<"psc", q>>
      /\ hs[5] = <<"ip", u>>
      /\ SubSeq(hs, 6, Len(hs)) = rest
  <2>1. front \in Seq(T) /\ Len(front) \in Nat /\ rest \in Seq(T)
    BY <1>1
  <2>2. /\ Len(hs) = Len(front) + Len(rest) /\ Len(rest) \in Nat
        /\ \A k \in 1..Len(front) : hs[k] = front[k]
        /\ rest # <<>> => hs[Len(front) + 1] = rest[1]
        /\ SubSeq(hs, Len(front) + 1, Len(front) + Len(rest)) = rest
    BY <2>1, AfterFront
  <2> HIDE DEF hs
  <2> QED
    BY <1>1, <2>2
<1>3. /\ hs[1][2] = i /\ hs[2][1] = "gtpu" /\ hs[2][2] = g /\ hs[4][2] = q /\ hs[5][2] = u
      /\ hs[3][2] = "psc"
  BY <1>2
<1> HIDE DEF hs
<1>4. Len(hs) > 1 /\ hs[2][1] = "gtpu" /\ hs[2][2].msg = "GPDU" /\ hs[2][2].flagged
  BY <1>2, <1>3
<1>5. Parse(hs) = [outer |-> <<>>, gtpu |-> <<g>>, opts |-> <<"psc">>, psc |-> <<q>>, ip |-> i,
                   inner |-> <<u>>, rest |-> SubSeq(hs, 5 + 1, Len(hs))]
  BY <1>2, <1>3, <1>4, PortsApart DEF Parse, ToGtp, ToIp
<1>6. SubSeq(hs, 5 + 1, Len(hs)) = rest
  <2>1. 5 + 1 = 6
    OBVIOUS
  <2> QED
    BY <1>2, <2>1
<1>7. Parse(hs) = Hdr(<<>>, <<g>>, <<"psc">>, <<q>>, i, <<u>>, rest)
  BY <1>5, <1>6, Zenon DEF Hdr
<1> QED
  BY <1>7, Zenon DEF hs, front, WireContainer

(* one with another extension behind its container;                        *)
LEMMA ParsedMore ==
  ASSUME NEW S, NEW i, NEW g, NEW q, NEW rest \in Seq(S),
         ToGtp(i), g.msg = "GPDU", g.flagged, q.more
  PROVE  ~Reached(WireMore(i, g, q, rest))
<1> DEFINE T == S \union {<<"ip", i>>, <<"gtpu", g>>, <<"opts", "psc">>, <<"psc", q>>}
           front == << <<"ip", i>>, <<"gtpu", g>>, <<"opts", "psc">>, <<"psc", q>> >>
           hs == front \o rest
<1>1. /\ front \in Seq(T) /\ rest \in Seq(T) /\ Len(front) = 4 /\ front[1] = <<"ip", i>>
      /\ front[2] = <<"gtpu", g>> /\ front[3] = <<"opts", "psc">> /\ front[4] = <<"psc", q>>
  BY SeqMonotonic
<1> HIDE DEF front
<1>2. /\ Len(hs) = 4 + Len(rest) /\ Len(rest) \in Nat /\ hs[1] = <<"ip", i>>
      /\ hs[2] = <<"gtpu", g>> /\ hs[3] = <<"opts", "psc">> /\ hs[4] = <<"psc", q>>
  <2>1. front \in Seq(T) /\ Len(front) \in Nat /\ rest \in Seq(T)
    BY <1>1
  <2>2. /\ Len(hs) = Len(front) + Len(rest) /\ Len(rest) \in Nat
        /\ \A k \in 1..Len(front) : hs[k] = front[k]
        /\ rest # <<>> => hs[Len(front) + 1] = rest[1]
        /\ SubSeq(hs, Len(front) + 1, Len(front) + Len(rest)) = rest
    BY <2>1, AfterFront
  <2> HIDE DEF hs
  <2> QED
    BY <1>1, <2>2
<1>3. /\ hs[1][2] = i /\ hs[2][1] = "gtpu" /\ hs[2][2] = g /\ hs[3] = <<"opts", "psc">>
      /\ hs[4][2].more
  BY <1>2
<1> HIDE DEF hs
<1>4. Len(hs) > 1 /\ hs[2][1] = "gtpu" /\ hs[2][2].msg = "GPDU" /\ hs[2][2].flagged
  BY <1>2, <1>3
<1>5. Parse(hs).gtpu = <<g>> /\ Parse(hs).inner = <<>>
  BY <1>3, <1>4, PortsApart DEF Parse, ToGtp, ToIp
<1>6. ~Reached(hs)
  BY <1>5 DEF Reached
<1> QED
  BY <1>6, Zenon DEF hs, front, WireMore

(* and one whose other options the parser does not get past.               *)
LEMMA ParsedOptions ==
  ASSUME NEW S, NEW i, NEW g, NEW x, NEW rest \in Seq(S),
         ToGtp(i), g.msg = "GPDU", g.flagged, x # "psc"
  PROVE  ~Reached(WireOptions(i, g, x, rest))
<1> DEFINE T == S \union {<<"ip", i>>, <<"gtpu", g>>, <<"opts", x>>}
           front == << <<"ip", i>>, <<"gtpu", g>>, <<"opts", x>> >>
           hs == front \o rest
<1>1. /\ front \in Seq(T) /\ rest \in Seq(T) /\ Len(front) = 3 /\ front[1] = <<"ip", i>>
      /\ front[2] = <<"gtpu", g>> /\ front[3] = <<"opts", x>>
  BY SeqMonotonic
<1> HIDE DEF front
<1>2. /\ Len(hs) = 3 + Len(rest) /\ Len(rest) \in Nat /\ hs[1] = <<"ip", i>>
      /\ hs[2] = <<"gtpu", g>> /\ hs[3] = <<"opts", x>>
  <2>1. front \in Seq(T) /\ Len(front) \in Nat /\ rest \in Seq(T)
    BY <1>1
  <2>2. /\ Len(hs) = Len(front) + Len(rest) /\ Len(rest) \in Nat
        /\ \A k \in 1..Len(front) : hs[k] = front[k]
        /\ rest # <<>> => hs[Len(front) + 1] = rest[1]
        /\ SubSeq(hs, Len(front) + 1, Len(front) + Len(rest)) = rest
    BY <2>1, AfterFront
  <2> HIDE DEF hs
  <2> QED
    BY <1>1, <2>2
<1>3. /\ hs[1][2] = i /\ hs[2][1] = "gtpu" /\ hs[2][2] = g /\ hs[3] # <<"opts", "psc">>
  BY <1>2
<1> HIDE DEF hs
<1>4. Len(hs) > 1 /\ hs[2][1] = "gtpu" /\ hs[2][2].msg = "GPDU" /\ hs[2][2].flagged
  BY <1>2, <1>3
<1>5. Parse(hs).gtpu = <<g>> /\ Parse(hs).inner = <<>>
  BY <1>3, <1>4, PortsApart DEF Parse, ToGtp, ToIp
<1>6. ~Reached(hs)
  BY <1>5 DEF Reached
<1> QED
  BY <1>6, Zenon DEF hs, front, WireOptions

(* What two sequences make, joined.                                        *)
LEMMA Pieces ==
  ASSUME NEW U, NEW v \in Seq(U), NEW w \in Seq(U), NEW x \in Seq(U), Len(x) = Len(v) + Len(w),
         \A k \in 1..Len(v) : x[k] = v[k], \A k \in 1..Len(w) : x[k + Len(v)] = w[k]
  PROVE  v \o w = x
<1>1. /\ v \o w \in Seq(U) /\ Len(v \o w) = Len(v) + Len(w)
      /\ \A k \in 1..Len(v) + Len(w) : (v \o w)[k] = IF k <= Len(v) THEN v[k] ELSE w[k - Len(v)]
  BY ConcatProperties
<1>2. Len(v) \in Nat /\ Len(w) \in Nat
  OBVIOUS
<1>3. ASSUME NEW k \in 1..Len(x)
      PROVE  (v \o w)[k] = x[k]
  <2>1. CASE k <= Len(v)
    BY <1>1, <1>2, <2>1
  <2>2. CASE ~(k <= Len(v))
    <3>1. k - Len(v) \in 1..Len(w) /\ (k - Len(v)) + Len(v) = k
      BY <1>2, <1>3, <2>2
    <3>2. x[(k - Len(v)) + Len(v)] = w[k - Len(v)]
      BY <3>1
    <3> QED
      BY <1>1, <1>2, <2>2, <3>1, <3>2
  <2> QED
    BY <2>1, <2>2
<1> QED
  BY <1>1, <1>3, SeqEqual

(* One header before others, and after others.                             *)
BeforeOne(a, c) == <<a>> \o <<c>> = <<a, c>>
BeforeTwo(a, c, d) == <<a>> \o <<c, d>> = <<a, c, d>>
BeforeThree(a, c, d, e) == <<a>> \o <<c, d, e>> = <<a, c, d, e>>
BeforeFour(a, c, d, e, f) == <<a>> \o <<c, d, e, f>> = <<a, c, d, e, f>>
AfterTwo(a, c, d) == <<a, c>> \o <<d>> = <<a, c, d>>
AfterFour(a, c, d, e, f) == <<a, c, d, e>> \o <<f>> = <<a, c, d, e, f>>
LEMMA Joined ==
  ASSUME NEW a, NEW c, NEW d, NEW e, NEW f
  PROVE  /\ BeforeTwo(a, c, d) /\ BeforeThree(a, c, d, e) /\ BeforeFour(a, c, d, e, f)
         /\ AfterTwo(a, c, d) /\ AfterFour(a, c, d, e, f) /\ BeforeOne(a, c)
<1> DEFINE U == {a, c, d, e, f}
<1>1. BeforeTwo(a, c, d)
  <2>1. PICK v, w, x : v = <<a>> /\ w = <<c, d>> /\ x = <<a, c, d>>
    OBVIOUS
  <2>2. /\ v \in Seq(U) /\ w \in Seq(U) /\ x \in Seq(U)
        /\ Len(v) = 1 /\ Len(w) = 2 /\ Len(x) = Len(v) + Len(w)
    BY <2>1
  <2>3. ASSUME NEW k \in 1..1
        PROVE  x[k] = v[k]
    <3>1. x[1] = v[1]
      BY <2>1
    <3> QED
      BY <3>1
  <2>4. ASSUME NEW k \in 1..2
        PROVE  x[k + 1] = w[k]
    <3>1. x[2] = w[1] /\ x[3] = w[2]
      BY <2>1
    <3> QED
      BY <3>1
  <2>5. \A k \in 1..Len(v) : x[k] = v[k]
    BY <2>2, <2>3
  <2>6. \A k \in 1..Len(w) : x[k + Len(v)] = w[k]
    BY <2>2, <2>4
  <2>7. v \o w = x
    BY <2>2, <2>5, <2>6, Pieces
  <2> QED
    BY <2>1, <2>7 DEF BeforeTwo
<1>2. BeforeThree(a, c, d, e)
  <2>1. PICK v, w, x : v = <<a>> /\ w = <<c, d, e>> /\ x = <<a, c, d, e>>
    OBVIOUS
  <2>2. /\ v \in Seq(U) /\ w \in Seq(U) /\ x \in Seq(U)
        /\ Len(v) = 1 /\ Len(w) = 3 /\ Len(x) = Len(v) + Len(w)
    BY <2>1
  <2>3. ASSUME NEW k \in 1..1
        PROVE  x[k] = v[k]
    <3>1. x[1] = v[1]
      BY <2>1
    <3> QED
      BY <3>1
  <2>4. ASSUME NEW k \in 1..3
        PROVE  x[k + 1] = w[k]
    <3>1. x[2] = w[1] /\ x[3] = w[2] /\ x[4] = w[3]
      BY <2>1
    <3> QED
      BY <3>1
  <2>5. \A k \in 1..Len(v) : x[k] = v[k]
    BY <2>2, <2>3
  <2>6. \A k \in 1..Len(w) : x[k + Len(v)] = w[k]
    BY <2>2, <2>4
  <2>7. v \o w = x
    BY <2>2, <2>5, <2>6, Pieces
  <2> QED
    BY <2>1, <2>7 DEF BeforeThree
<1>3. BeforeFour(a, c, d, e, f)
  <2>1. PICK v, w, x : v = <<a>> /\ w = <<c, d, e, f>> /\ x = <<a, c, d, e, f>>
    OBVIOUS
  <2>2. /\ v \in Seq(U) /\ w \in Seq(U) /\ x \in Seq(U)
        /\ Len(v) = 1 /\ Len(w) = 4 /\ Len(x) = Len(v) + Len(w)
    BY <2>1
  <2>3. ASSUME NEW k \in 1..1
        PROVE  x[k] = v[k]
    <3>1. x[1] = v[1]
      BY <2>1
    <3> QED
      BY <3>1
  <2>4. ASSUME NEW k \in 1..4
        PROVE  x[k + 1] = w[k]
    <3>1. x[2] = w[1] /\ x[3] = w[2] /\ x[4] = w[3] /\ x[5] = w[4]
      BY <2>1
    <3> QED
      BY <3>1
  <2>5. \A k \in 1..Len(v) : x[k] = v[k]
    BY <2>2, <2>3
  <2>6. \A k \in 1..Len(w) : x[k + Len(v)] = w[k]
    BY <2>2, <2>4
  <2>7. v \o w = x
    BY <2>2, <2>5, <2>6, Pieces
  <2> QED
    BY <2>1, <2>7 DEF BeforeFour
<1>4. AfterTwo(a, c, d)
  <2>1. PICK v, w, x : v = <<a, c>> /\ w = <<d>> /\ x = <<a, c, d>>
    OBVIOUS
  <2>2. /\ v \in Seq(U) /\ w \in Seq(U) /\ x \in Seq(U)
        /\ Len(v) = 2 /\ Len(w) = 1 /\ Len(x) = Len(v) + Len(w)
    BY <2>1
  <2>3. ASSUME NEW k \in 1..2
        PROVE  x[k] = v[k]
    <3>1. x[1] = v[1] /\ x[2] = v[2]
      BY <2>1
    <3> QED
      BY <3>1
  <2>4. ASSUME NEW k \in 1..1
        PROVE  x[k + 2] = w[k]
    <3>1. x[3] = w[1]
      BY <2>1
    <3> QED
      BY <3>1
  <2>5. \A k \in 1..Len(v) : x[k] = v[k]
    BY <2>2, <2>3
  <2>6. \A k \in 1..Len(w) : x[k + Len(v)] = w[k]
    BY <2>2, <2>4
  <2>7. v \o w = x
    BY <2>2, <2>5, <2>6, Pieces
  <2> QED
    BY <2>1, <2>7 DEF AfterTwo
<1>5. AfterFour(a, c, d, e, f)
  <2>1. PICK v, w, x : v = <<a, c, d, e>> /\ w = <<f>> /\ x = <<a, c, d, e, f>>
    OBVIOUS
  <2>2. /\ v \in Seq(U) /\ w \in Seq(U) /\ x \in Seq(U)
        /\ Len(v) = 4 /\ Len(w) = 1 /\ Len(x) = Len(v) + Len(w)
    BY <2>1
  <2>3. ASSUME NEW k \in 1..4
        PROVE  x[k] = v[k]
    <3>1. x[1] = v[1] /\ x[2] = v[2] /\ x[3] = v[3] /\ x[4] = v[4]
      BY <2>1
    <3> QED
      BY <3>1
  <2>4. ASSUME NEW k \in 1..1
        PROVE  x[k + 4] = w[k]
    <3>1. x[5] = w[1]
      BY <2>1
    <3> QED
      BY <3>1
  <2>5. \A k \in 1..Len(v) : x[k] = v[k]
    BY <2>2, <2>3
  <2>6. \A k \in 1..Len(w) : x[k + Len(v)] = w[k]
    BY <2>2, <2>4
  <2>7. v \o w = x
    BY <2>2, <2>5, <2>6, Pieces
  <2> QED
    BY <2>1, <2>7 DEF AfterFour
<1>6. BeforeOne(a, c)
  <2>1. PICK v, w, x : v = <<a>> /\ w = <<c>> /\ x = <<a, c>>
    OBVIOUS
  <2>2. /\ v \in Seq(U) /\ w \in Seq(U) /\ x \in Seq(U)
        /\ Len(v) = 1 /\ Len(w) = 1 /\ Len(x) = Len(v) + Len(w)
    BY <2>1
  <2>3. ASSUME NEW k \in 1..1
        PROVE  x[k] = v[k]
    <3>1. x[1] = v[1]
      BY <2>1
    <3> QED
      BY <3>1
  <2>4. ASSUME NEW k \in 1..1
        PROVE  x[k + 1] = w[k]
    <3>1. x[2] = w[1]
      BY <2>1
    <3> QED
      BY <3>1
  <2>5. \A k \in 1..Len(v) : x[k] = v[k]
    BY <2>2, <2>3
  <2>6. \A k \in 1..Len(w) : x[k + Len(v)] = w[k]
    BY <2>2, <2>4
  <2>7. v \o w = x
    BY <2>2, <2>5, <2>6, Pieces
  <2> QED
    BY <2>1, <2>7 DEF BeforeOne
<1> QED
  BY <1>1, <1>2, <1>3, <1>4, <1>5, <1>6

(* The deparser: without a tunnel,                                         *)
LEMMA DeparsedPlain ==
  ASSUME NEW i, NEW n, NEW S, NEW rest \in Seq(S)
  PROVE  Deparse(Hdr(<<>>, <<>>, <<>>, <<>>, i, n, rest)) = WirePlain(i, rest)
BY DEF Deparse, Hdr, WirePlain

(* in UDP,                                                                 *)
LEMMA DeparsedNested ==
  ASSUME NEW o, NEW i, NEW n, NEW S, NEW rest \in Seq(S)
  PROVE  Deparse(Hdr(<<o>>, <<>>, <<>>, <<>>, i, n, rest)) = WireNested(o, i, rest)
<1>1. PICK a, b : a = <<"ip", o>> /\ b = <<"ip", i>>
  OBVIOUS
<1>2. <<a>> \o <<>> = <<a>>
  OBVIOUS
<1>4. <<a>> \o <<b>> = <<a, b>>
  BY Joined DEF BeforeOne
<1>3. Deparse(Hdr(<<o>>, <<>>, <<>>, <<>>, i, n, rest))
        = <<a>> \o <<>> \o <<>> \o <<>> \o <<b>> \o rest
  BY <1>1 DEF Deparse, Hdr
<1> QED
  BY <1>1, <1>2, <1>3, <1>4, Zenon DEF WireNested

(* in one,                                                                 *)
LEMMA DeparsedTunnel ==
  ASSUME NEW o, NEW g, NEW i, NEW n, NEW S, NEW rest \in Seq(S)
  PROVE  Deparse(Hdr(<<o>>, <<g>>, <<>>, <<>>, i, n, rest))
           = WireTunnel(o, g, i, rest)
BY DEF Deparse, Hdr, WireTunnel

(* and in one with a container.                                            *)
LEMMA DeparsedContainer ==
  ASSUME NEW o, NEW g, NEW q, NEW i, NEW n, NEW S, NEW rest \in Seq(S)
  PROVE  Deparse(Hdr(<<o>>, <<g>>, <<"psc">>, <<q>>, i, n, rest))
           = WireContainer(o, g, q, i, rest)
BY DEF Deparse, Hdr, WireContainer

(* A packet, framed in one of these ways.                                  *)
Framed(S, I, hs) ==
  \E i \in I, rest \in Seq(S) :
    \/ /\ rest # <<>> => ~Opened(i, rest[1])
       /\ hs = WirePlain(i, rest)
    \/ \E u \in I : ToIp(i) /\ hs = WireNested(i, u, rest)
    \/ \E g : \E u \in I :
         /\ ToGtp(i) /\ g.msg = "GPDU" /\ ~g.flagged
         /\ hs = WireTunnel(i, g, u, rest)
    \/ \E g, q : \E u \in I :
         /\ ToGtp(i) /\ g.msg = "GPDU" /\ g.flagged /\ ~q.more
         /\ hs = WireContainer(i, g, q, u, rest)
    \/ \E g, q :
         /\ ToGtp(i) /\ g.msg = "GPDU" /\ g.flagged /\ q.more
         /\ hs = WireMore(i, g, q, rest)
    \/ \E g, x :
         /\ ToGtp(i) /\ g.msg = "GPDU" /\ g.flagged /\ x # "psc"
         /\ hs = WireOptions(i, g, x, rest)

(* Another outermost header before the same rest.                          *)
LEMMA Outermost ==
  ASSUME NEW S, NEW rest \in Seq(S), NEW T, NEW front \in Seq(T), NEW a, NEW b,
         NEW hs, hs = (<<a>> \o front) \o rest
  PROVE  hs[1] = a /\ (<<b>> \o front) \o rest = <<b>> \o Tail(hs)
<1> DEFINE U == S \union T \union {a, b}
<1>1. rest \in Seq(U) /\ front \in Seq(U) /\ <<a>> \in Seq(U) /\ <<b>> \in Seq(U)
  BY SeqMonotonic
<1>2. front \o rest \in Seq(U)
  BY <1>1
<1>3. hs = <<a>> \o (front \o rest) /\ (<<b>> \o front) \o rest = <<b>> \o (front \o rest)
  BY <1>1, ConcatAssociative
<1> DEFINE s == front \o rest
<1> HIDE DEF s, U
<1>4. s \in Seq(U) /\ <<a>> \in Seq(U)
  BY <1>1, <1>2 DEF s
<1>5. (<<a>> \o s)[1] = a /\ Tail(<<a>> \o s) = s
  BY <1>4
<1> QED
  BY <1>3, <1>5 DEF s

(* The outermost header is the first, and changes alone.                   *)
Headed(i, hs) == hs[1] = <<"ip", i>>
Reheaded(j, hs) == << <<"ip", j>> >> \o Tail(hs)
LEMMA WireFirst ==
  ASSUME NEW S, NEW rest \in Seq(S), NEW i, NEW j, NEW g, NEW x, NEW u
  PROVE  /\ Headed(i, WirePlain(i, rest))
         /\ Headed(i, WireNested(i, u, rest)) /\ Headed(i, WireMore(i, g, x, rest))
         /\ Headed(i, WireTunnel(i, g, u, rest))
         /\ Headed(i, WireContainer(i, g, x, u, rest))
         /\ Headed(i, WireOptions(i, g, x, rest))
         /\ WirePlain(j, rest) = Reheaded(j, WirePlain(i, rest))
         /\ WireNested(j, u, rest) = Reheaded(j, WireNested(i, u, rest))
         /\ WireTunnel(j, g, u, rest) = Reheaded(j, WireTunnel(i, g, u, rest))
         /\ WireContainer(j, g, x, u, rest) = Reheaded(j, WireContainer(i, g, x, u, rest))
<1>1. PICK a, b, c, d, e, f, o :
        /\ a = <<"ip", i>> /\ b = <<"ip", j>> /\ c = <<"gtpu", g>> /\ d = <<"ip", u>>
        /\ e = <<"opts", "psc">> /\ f = <<"psc", x>> /\ o = <<"opts", x>>
  OBVIOUS
<1>2. /\ BeforeTwo(a, c, d) /\ BeforeTwo(b, c, d) /\ BeforeTwo(a, c, o)
      /\ BeforeFour(a, c, e, f, d) /\ BeforeFour(b, c, e, f, d)
      /\ BeforeOne(a, d) /\ BeforeOne(b, d) /\ BeforeThree(a, c, e, f)
  BY Joined
<1>3. /\ WirePlain(i, rest) = <<a>> \o rest /\ WirePlain(j, rest) = <<b>> \o rest
      /\ WireNested(i, u, rest) = (<<a>> \o <<d>>) \o rest
      /\ WireNested(j, u, rest) = (<<b>> \o <<d>>) \o rest
      /\ WireMore(i, g, x, rest) = (<<a>> \o <<c, e, f>>) \o rest
      /\ WireTunnel(i, g, u, rest) = (<<a>> \o <<c, d>>) \o rest
      /\ WireTunnel(j, g, u, rest) = (<<b>> \o <<c, d>>) \o rest
      /\ WireContainer(i, g, x, u, rest) = (<<a>> \o <<c, e, f, d>>) \o rest
      /\ WireContainer(j, g, x, u, rest) = (<<b>> \o <<c, e, f, d>>) \o rest
      /\ WireOptions(i, g, x, rest) = (<<a>> \o <<c, o>>) \o rest
  <2>1. <<a>> \o <<c, d>> = <<a, c, d>> /\ <<b>> \o <<c, d>> = <<b, c, d>> /\ <<a>> \o <<c, o>> = <<a, c, o>>
    BY <1>2, Zenon DEF BeforeTwo
  <2>2. <<a>> \o <<c, e, f, d>> = <<a, c, e, f, d>> /\ <<b>> \o <<c, e, f, d>> = <<b, c, e, f, d>>
    BY <1>2, Zenon DEF BeforeFour
  <2>3. <<a>> \o <<d>> = <<a, d>> /\ <<b>> \o <<d>> = <<b, d>>
    BY <1>2, Zenon DEF BeforeOne
  <2>4. <<a>> \o <<c, e, f>> = <<a, c, e, f>>
    BY <1>2, Zenon DEF BeforeThree
  <2> QED
    BY <1>1, <2>1, <2>2, <2>3, <2>4, Zenon
       DEF WirePlain, WireNested, WireTunnel, WireContainer, WireMore, WireOptions
<1>4. ASSUME NEW T, NEW v \in Seq(T), NEW hs, hs = (<<a>> \o v) \o rest
      PROVE  hs[1] = a /\ (<<b>> \o v) \o rest = <<b>> \o Tail(hs)
  BY <1>4, Outermost
<1>5. <<c, d>> \in Seq({c, d}) /\ <<c, e, f, d>> \in Seq({c, d, e, f}) /\ <<c, o>> \in Seq({c, o})
      /\ <<d>> \in Seq({d}) /\ <<c, e, f>> \in Seq({c, e, f})
  <2>1. <<c, d>> \in Seq({c, d})
    OBVIOUS
  <2>2. <<c, e, f, d>> \in Seq({c, d, e, f})
    OBVIOUS
  <2>3. <<c, o>> \in Seq({c, o})
    OBVIOUS
  <2>4. <<d>> \in Seq({d})
    OBVIOUS
  <2>5. <<c, e, f>> \in Seq({c, e, f})
    OBVIOUS
  <2> QED
    BY <2>1, <2>2, <2>3, <2>4, <2>5
<1>6. WirePlain(i, rest)[1] = a /\ WirePlain(j, rest) = <<b>> \o Tail(WirePlain(i, rest))
  <2>1. <<>> \in Seq({a}) /\ <<a>> \o <<>> = <<a>> /\ <<b>> \o <<>> = <<b>>
    OBVIOUS
  <2>2. PICK hs : hs = WirePlain(i, rest)
    OBVIOUS
  <2>3. hs = (<<a>> \o <<>>) \o rest
    BY <1>3, <2>1, <2>2, Zenon
  <2>4. hs[1] = a /\ (<<b>> \o <<>>) \o rest = <<b>> \o Tail(hs)
    BY <1>4, <2>1, <2>3
  <2> QED
    BY <1>3, <2>1, <2>2, <2>4, Zenon
<1>7. WireTunnel(i, g, u, rest)[1] = a /\ WireTunnel(j, g, u, rest) = <<b>> \o Tail(WireTunnel(i, g, u, rest))
  <2>1. PICK hs : hs = WireTunnel(i, g, u, rest)
    OBVIOUS
  <2>2. PICK v : v = <<c, d>>
    OBVIOUS
  <2>3. hs = (<<a>> \o v) \o rest /\ v \in Seq({c, d})
    BY <1>3, <1>5, <2>1, <2>2, Zenon
  <2>4. hs[1] = a /\ (<<b>> \o v) \o rest = <<b>> \o Tail(hs)
    BY <1>4, <2>3
  <2> QED
    BY <1>3, <2>1, <2>2, <2>4, Zenon
<1>8. /\ WireContainer(i, g, x, u, rest)[1] = a
      /\ WireContainer(j, g, x, u, rest) = <<b>> \o Tail(WireContainer(i, g, x, u, rest))
  <2>1. PICK hs : hs = WireContainer(i, g, x, u, rest)
    OBVIOUS
  <2>2. PICK v : v = <<c, e, f, d>>
    OBVIOUS
  <2>3. hs = (<<a>> \o v) \o rest /\ v \in Seq({c, d, e, f})
    BY <1>3, <1>5, <2>1, <2>2, Zenon
  <2>4. hs[1] = a /\ (<<b>> \o v) \o rest = <<b>> \o Tail(hs)
    BY <1>4, <2>3
  <2> QED
    BY <1>3, <2>1, <2>2, <2>4, Zenon
<1>9. WireOptions(i, g, x, rest)[1] = a
  <2>1. PICK hs, v : hs = WireOptions(i, g, x, rest) /\ v = <<c, o>>
    OBVIOUS
  <2>2. hs = (<<a>> \o v) \o rest /\ v \in Seq({c, o})
    BY <1>3, <1>5, <2>1, Zenon
  <2>3. hs[1] = a
    BY <1>4, <2>2
  <2> QED
    BY <2>1, <2>3
<1>10. WireNested(i, u, rest)[1] = a /\ WireNested(j, u, rest) = <<b>> \o Tail(WireNested(i, u, rest))
  <2>1. PICK hs : hs = WireNested(i, u, rest)
    OBVIOUS
  <2>2. PICK v : v = <<d>>
    OBVIOUS
  <2>3. hs = (<<a>> \o v) \o rest /\ v \in Seq({d})
    BY <1>3, <1>5, <2>1, <2>2, Zenon
  <2>4. hs[1] = a /\ (<<b>> \o v) \o rest = <<b>> \o Tail(hs)
    BY <1>4, <2>3
  <2> QED
    BY <1>3, <2>1, <2>2, <2>4, Zenon
<1>11. WireMore(i, g, x, rest)[1] = a
  <2>1. PICK hs, v : hs = WireMore(i, g, x, rest) /\ v = <<c, e, f>>
    OBVIOUS
  <2>2. hs = (<<a>> \o v) \o rest /\ v \in Seq({c, e, f})
    BY <1>3, <1>5, <2>1, Zenon
  <2>3. hs[1] = a
    BY <1>4, <2>2
  <2> QED
    BY <2>1, <2>3
<1> QED
  BY <1>1, <1>6, <1>7, <1>8, <1>9, <1>10, <1>11, Zenon DEF Headed, Reheaded

(* What the parser makes of a framed packet whose headers it gets to see.  *)
Plain(S, I, hs) ==
  \E i \in I, rest \in Seq(S) :
    /\ hs = WirePlain(i, rest) /\ hs[1] = <<"ip", i>>
    /\ Parse(hs) = Hdr(<<>>, <<>>, <<>>, <<>>, i, <<>>, rest)
Nested(S, I, hs) ==
  \E i, u \in I, rest \in Seq(S) :
    /\ hs = WireNested(i, u, rest) /\ hs[1] = <<"ip", i>>
    /\ Parse(hs) = Hdr(<<>>, <<>>, <<>>, <<>>, i, <<u>>, rest)
InTunnel(S, I, hs) ==
  \E g : \E i, u \in I, rest \in Seq(S) :
    /\ hs = WireTunnel(i, g, u, rest) /\ hs[1] = <<"ip", i>>
    /\ Parse(hs) = Hdr(<<>>, <<g>>, <<>>, <<>>, i, <<u>>, rest)
WithContainer(S, I, hs) ==
  \E g, q : \E i, u \in I, rest \in Seq(S) :
    /\ hs = WireContainer(i, g, q, u, rest)
    /\ hs[1] = <<"ip", i>>
    /\ Parse(hs) = Hdr(<<>>, <<g>>, <<"psc">>, <<q>>, i, <<u>>, rest)
LEMMA Framings ==
  ASSUME NEW S, NEW I, NEW hs, Framed(S, I, hs), Reached(hs)
  PROVE  Plain(S, I, hs) \/ Nested(S, I, hs) \/ InTunnel(S, I, hs) \/ WithContainer(S, I, hs)
<1>1. PICK i \in I, rest \in Seq(S) :
        \/ /\ rest # <<>> => ~Opened(i, rest[1])
           /\ hs = WirePlain(i, rest)
        \/ \E u \in I : ToIp(i) /\ hs = WireNested(i, u, rest)
        \/ \E g : \E u \in I :
             /\ ToGtp(i) /\ g.msg = "GPDU" /\ ~g.flagged
             /\ hs = WireTunnel(i, g, u, rest)
        \/ \E g, q : \E u \in I :
             /\ ToGtp(i) /\ g.msg = "GPDU" /\ g.flagged /\ ~q.more
             /\ hs = WireContainer(i, g, q, u, rest)
        \/ \E g, q :
             /\ ToGtp(i) /\ g.msg = "GPDU" /\ g.flagged /\ q.more
             /\ hs = WireMore(i, g, q, rest)
        \/ \E g, x :
             /\ ToGtp(i) /\ g.msg = "GPDU" /\ g.flagged /\ x # "psc"
             /\ hs = WireOptions(i, g, x, rest)
  BY Zenon DEF Framed
<1>2. CASE (rest # <<>> => ~Opened(i, rest[1])) /\ hs = WirePlain(i, rest)
  <2>1. Parse(WirePlain(i, rest)) = Hdr(<<>>, <<>>, <<>>, <<>>, i, <<>>, rest)
    BY <1>2, ParsedPlain
  <2>2. hs[1] = <<"ip", i>>
    <3>1. Headed(i, hs)
      BY <1>2, WireFirst
    <3> QED
      BY <3>1 DEF Headed
  <2> QED
    BY <1>2, <2>1, <2>2, Zenon DEF Plain
<1>3. ASSUME NEW g, NEW u \in I, ToGtp(i), g.msg = "GPDU", ~g.flagged,
             hs = WireTunnel(i, g, u, rest)
      PROVE  InTunnel(S, I, hs)
  <2>1. Parse(WireTunnel(i, g, u, rest))
          = Hdr(<<>>, <<g>>, <<>>, <<>>, i, <<u>>, rest)
    BY <1>3, ParsedTunnel
  <2>2. hs[1] = <<"ip", i>>
    <3>1. Headed(i, hs)
      BY <1>3, WireFirst
    <3> QED
      BY <3>1 DEF Headed
  <2> QED
    BY <1>3, <2>1, <2>2, Zenon DEF InTunnel
<1>4. ASSUME NEW g, NEW q, NEW u \in I, ToGtp(i), g.msg = "GPDU", g.flagged, ~q.more,
             hs = WireContainer(i, g, q, u, rest)
      PROVE  WithContainer(S, I, hs)
  <2>1. Parse(WireContainer(i, g, q, u, rest))
          = Hdr(<<>>, <<g>>, <<"psc">>, <<q>>, i, <<u>>, rest)
    BY <1>4, ParsedContainer
  <2>2. hs[1] = <<"ip", i>>
    <3>1. Headed(i, hs)
      BY <1>4, WireFirst
    <3> QED
      BY <3>1 DEF Headed
  <2> QED
    BY <1>4, <2>1, <2>2, Zenon DEF WithContainer
<1>5. ASSUME NEW g, NEW x, ToGtp(i), g.msg = "GPDU", g.flagged, x # "psc",
             hs = WireOptions(i, g, x, rest)
      PROVE  FALSE
  <2>1. ~Reached(WireOptions(i, g, x, rest))
    BY <1>5, ParsedOptions
  <2> QED
    BY <1>5, <2>1, Zenon
<1>6. ASSUME NEW g, NEW q, ToGtp(i), g.msg = "GPDU", g.flagged, q.more,
             hs = WireMore(i, g, q, rest)
      PROVE  FALSE
  <2>1. ~Reached(WireMore(i, g, q, rest))
    BY <1>6, ParsedMore
  <2> QED
    BY <1>6, <2>1, Zenon
<1>7. ASSUME NEW u \in I, ToIp(i), hs = WireNested(i, u, rest)
      PROVE  Nested(S, I, hs)
  <2>1. Parse(WireNested(i, u, rest)) = Hdr(<<>>, <<>>, <<>>, <<>>, i, <<u>>, rest)
    BY <1>7, ParsedNested
  <2>2. hs[1] = <<"ip", i>>
    <3>1. Headed(i, hs)
      BY <1>7, WireFirst
    <3> QED
      BY <3>1 DEF Headed
  <2> QED
    BY <1>7, <2>1, <2>2, Zenon DEF Nested
<1> QED
  BY <1>1, <1>2, <1>3, <1>4, <1>5, <1>6, <1>7, Zenon

(* The packet that the switch sees has the headers it was framed with.     *)
LEMMA UeFramed ==
  ASSUME NEW S, NEW I, NEW hs, Framed(S, I, hs)
  PROVE  UePacket(hs) \in I
<1>1. CASE Reached(hs)
  <2>1. ASSUME NEW i \in I, NEW g, NEW op, NEW ps, NEW r, hs[1] = <<"ip", i>>,
               Parse(hs) = Hdr(<<>>, g, op, ps, i, <<>>, r)
        PROVE  UePacket(hs) \in I
    <3>1. Parse(hs).inner = <<>> /\ hs[1][2] = i
      BY <2>1 DEF Hdr
    <3> QED
      BY <3>1, Arrived
  <2>2. ASSUME NEW i, NEW u \in I, NEW g, NEW op, NEW ps, NEW r,
               Parse(hs) = Hdr(<<>>, g, op, ps, i, <<u>>, r)
        PROVE  UePacket(hs) \in I
    <3>1. Parse(hs).inner = <<u>> /\ <<u>> # <<>> /\ <<u>>[1] = u
      BY <2>2 DEF Hdr
    <3> QED
      BY <3>1, Arrived
  <2>3. Plain(S, I, hs) \/ Nested(S, I, hs) \/ InTunnel(S, I, hs) \/ WithContainer(S, I, hs)
    BY <1>1, Framings
  <2> QED
    BY <2>1, <2>2, <2>3, Zenon DEF Plain, Nested, InTunnel, WithContainer
<1>2. CASE ~Reached(hs)
  <2>1. Parse(hs).inner = <<>>
    BY <1>2 DEF Reached
  <2>2. \E i \in I : hs[1] = <<"ip", i>>
    <3>1. PICK i \in I, rest \in Seq(S) :
            \/ hs = WirePlain(i, rest)
            \/ \E u : hs = WireNested(i, u, rest)
            \/ \E g, q : hs = WireMore(i, g, q, rest)
            \/ \E g, u : hs = WireTunnel(i, g, u, rest)
            \/ \E g, q, u : hs = WireContainer(i, g, q, u, rest)
            \/ \E g, x : hs = WireOptions(i, g, x, rest)
      BY Zenon DEF Framed
    <3>2. ASSUME NEW g, NEW q, NEW u, NEW x,
                 \/ hs = WirePlain(i, rest)
                 \/ hs = WireNested(i, u, rest)
                 \/ hs = WireMore(i, g, q, rest)
                 \/ hs = WireTunnel(i, g, u, rest)
                 \/ hs = WireContainer(i, g, q, u, rest)
                 \/ hs = WireOptions(i, g, x, rest)
          PROVE  Headed(i, hs)
      BY <3>2, WireFirst
    <3>3. Headed(i, hs)
      BY <3>1, <3>2, Zenon
    <3> QED
      BY <3>3 DEF Headed
  <2> QED
    BY <2>1, <2>2, Arrived
<1> QED
  BY <1>1, <1>2

(* What leaves, when a FAR forwards: the packet, out of its tunnel if the  *)
(* PDR says so, in a tunnel if the FAR has one, through the routes.        *)
Bare(pdr, hs) ==
  IF pdr.decap THEN GtpuDecap(Normalize(Parse(hs))) ELSE Normalize(Parse(hs))
Dressed(pdr, far, hs) ==
  IF far.tunnel /\ far.type = GTPU THEN GtpuTunnel(Bare(pdr, hs), far, pdr) ELSE Bare(pdr, hs)
LEMMA WhenForwarded ==
  ASSUME NEW t, NEW mac, NEW hs, NEW f \in Forwarded(t, mac, hs),
         Outcome(Routing(t, Dressed(f.pdr, f.far, hs)))
  PROVE  /\ f.out.sent = Routing(t, Dressed(f.pdr, f.far, hs)).sent
         /\ f.out.port = Routing(t, Dressed(f.pdr, f.far, hs)).port
<1>1. PICK pdr \in Pdrs(t, hs), out \in Ingress(t, FALSE, mac, hs) :
        /\ f = [pdr |-> pdr, far |-> LoadFar(t, pdr), out |-> out]
        /\ ~f.far.drop /\ ~f.far.buffer /\ mac \in t.my_station /\ Pdrs(t, hs) = {f.pdr}
  <2> DEFINE P == Pdrs(t, hs)
             I == Ingress(t, FALSE, mac, hs)
             all == {[pdr |-> p, far |-> LoadFar(t, p), out |-> o] : p \in P, o \in I}
             Goes(x) == ~x.far.drop /\ ~x.far.buffer /\ mac \in t.my_station /\ P = {x.pdr}
  <2>1. Forwarded(t, mac, hs) = {x \in all : Goes(x)}
    BY DEF Forwarded
  <2>2. f \in all /\ Goes(f)
    <3> HIDE DEF all, Goes
    <3> QED
      BY <2>1
  <2>3. \E p \in P, o \in I : f = [pdr |-> p, far |-> LoadFar(t, p), out |-> o]
    <3> HIDE DEF Goes, P, I
    <3> QED
      BY <2>2
  <2>4. ~f.far.drop /\ ~f.far.buffer /\ mac \in t.my_station /\ Pdrs(t, hs) = {f.pdr}
    BY <2>2
  <2>5. PICK p \in P, o \in I : f = [pdr |-> p, far |-> LoadFar(t, p), out |-> o]
    BY <2>3
  <2> QED
    BY <2>4, <2>5, Zenon
<1>2. f.pdr = pdr /\ f.far = LoadFar(t, pdr) /\ f.out = out
  BY <1>1
<1>3. out = ExecuteFar(t, Bare(pdr, hs), LoadFar(t, pdr), pdr)
  <2>1. Ingress(t, FALSE, mac, hs) = {ExecuteFar(t, Bare(p, hs), LoadFar(t, p), p) : p \in Pdrs(t, hs)}
    BY <1>1 DEF Ingress, Bare
  <2> QED
    BY <1>1, <1>2, <2>1
<1>4. out = [Routing(t, Dressed(pdr, LoadFar(t, pdr), hs)) EXCEPT !.clone = LoadFar(t, pdr).notify]
  BY <1>1, <1>2, <1>3 DEF ExecuteFar, Dressed
<1>5. Outcome(Routing(t, Dressed(pdr, LoadFar(t, pdr), hs)))
  BY <1>2
<1>6. /\ out.sent = Routing(t, Dressed(pdr, LoadFar(t, pdr), hs)).sent
      /\ out.port = Routing(t, Dressed(pdr, LoadFar(t, pdr), hs)).port
  <2> DEFINE r == Routing(t, Dressed(pdr, LoadFar(t, pdr), hs))
  <2> HIDE DEF r
  <2>1. Outcome(r)
    BY <1>5 DEF r
  <2>2. out.sent = r.sent /\ out.port = r.port
    BY <1>4, <2>1, Cloned DEF r
  <2> QED
    BY <2>2 DEF r
<1> QED
  BY <1>2, <1>6

(* A packet that with the headers of a tunnel has a length of 16 bits.     *)
Fits(i) == i.len <= 65491

(* The headers of the tunnel that a FAR puts on.                           *)
LEMMA TunnelHeaders ==
  ASSUME NEW A, NEW i \in IpHeaders(A), Fits(i), NEW far, NEW pdr
  PROVE  LET more == More(pdr)
             out  == Down(TunnelIp(i, far, pdr))
             gtpu == TunnelGtpu(i, far, pdr)
         IN  /\ ToGtp(out) /\ out.src = far.src /\ out.dst = far.dst /\ out.len = 36 + more + i.len
             /\ gtpu.msg = "GPDU" /\ gtpu.teid = far.teid /\ gtpu.len = more + i.len
             /\ gtpu.flagged <=> pdr.push
<1>1. More(pdr) \in {0, 8} /\ i.len \in Nat
  <2>1. i.len \in Uint16
    BY DEF IpHeaders
  <2> QED
    BY <2>1, Uint16IsNat DEF More
<1>2. (i.len + 36 + More(pdr)) % 65536 = 36 + More(pdr) + i.len /\ (i.len + More(pdr)) % 65536 = More(pdr) + i.len
  BY <1>1 DEF Fits
<1>3. \A l, l4 :
        LET o == [src |-> far.src, dst |-> far.dst, ttl |-> DEFAULT_IPV4_TTL, len |-> l, l4 |-> l4]
        IN  Down(o).src = far.src /\ Down(o).dst = far.dst /\ Down(o).len = l /\ Down(o).l4 = l4
  BY DEF Down
<1>4. TunnelIp(i, far, pdr) =
        [src |-> far.src, dst |-> far.dst, ttl |-> DEFAULT_IPV4_TTL, len |-> 36 + More(pdr) + i.len,
         l4 |-> Udp(far.sport, GTP_GPDU)]
  BY <1>2 DEF TunnelIp, Ip
<1>6. \A o : o.l4 = Udp(far.sport, GTP_GPDU) => ToGtp(o)
  BY DEF ToGtp, UdpTo, Udp
<1>5. TunnelGtpu(i, far, pdr) = [msg |-> "GPDU", flagged |-> pdr.push, teid |-> far.teid, len |-> More(pdr) + i.len]
  BY <1>2 DEF TunnelGtpu, Gtpu
<1> QED
  BY <1>3, <1>4, <1>5, <1>6

(* The options of a tunnel: a container, if the PDR has a QFI.             *)
ContainerOf(pdr, op, ps) ==
  /\ op = IF pdr.push THEN <<"psc">> ELSE <<>>
  /\ ps = IF pdr.push THEN <<PscOf(pdr)>> ELSE <<>>
LEMMA NoMore == ASSUME NEW pdr PROVE ~PscOf(pdr).more
BY DEF PscOf, Psc

(* What the other end reads.                                               *)
LEMMA TunnelRead ==
  ASSUME NEW S, NEW rest \in Seq(S), NEW i, NEW n, NEW T, NEW G, NEW pdr,
         NEW op, NEW ps, ContainerOf(pdr, op, ps), ToGtp(T), G.msg = "GPDU", G.flagged <=> pdr.push
  PROVE  Parse(Deparse(Hdr(<<T>>, <<G>>, op, ps, i, n, rest)))
           = Hdr(<<>>, <<G>>, op, ps, T, <<i>>, rest)
<1>1. CASE pdr.push
  <2>1. Deparse(Hdr(<<T>>, <<G>>, <<"psc">>, <<PscOf(pdr)>>, i, n, rest))
          = WireContainer(T, G, PscOf(pdr), i, rest)
    BY DeparsedContainer
  <2>2. Parse(WireContainer(T, G, PscOf(pdr), i, rest))
          = Hdr(<<>>, <<G>>, <<"psc">>, <<PscOf(pdr)>>, T, <<i>>, rest)
    BY <1>1, ParsedContainer, NoMore
  <2>3. op = <<"psc">> /\ ps = <<PscOf(pdr)>>
    BY <1>1 DEF ContainerOf
  <2> QED
    BY <2>1, <2>2, <2>3, Zenon
<1>2. CASE ~pdr.push
  <2>1. Deparse(Hdr(<<T>>, <<G>>, <<>>, <<>>, i, n, rest))
          = WireTunnel(T, G, i, rest)
    BY DeparsedTunnel
  <2>2. Parse(WireTunnel(T, G, i, rest))
          = Hdr(<<>>, <<G>>, <<>>, <<>>, T, <<i>>, rest)
    BY <1>2, ParsedTunnel
  <2>3. op = <<>> /\ ps = <<>>
    BY <1>2 DEF ContainerOf
  <2> QED
    BY <2>1, <2>2, <2>3, Zenon
<1> QED
  BY <1>1, <1>2

(* Its lengths: of what follows.                                           *)
LEMMA TunnelLengths ==
  ASSUME NEW T, NEW rest, NEW pdr, NEW op, NEW ps, ContainerOf(pdr, op, ps),
         NEW p,
         NEW none, NEW gs, NEW is, p = Hdr(none, gs, op, ps, T, is, rest)
  PROVE  /\ p.inner = is /\ p.rest = rest /\ p.gtpu = gs /\ p.ip = T
         /\ p.psc = ps /\ Extra(p) = More(pdr)
<1>1. p.inner = is /\ p.rest = rest /\ p.gtpu = gs /\ p.ip = T /\ p.opts = op /\ p.psc = ps
  BY DEF Hdr
<1>2. Extra(p) = More(pdr)
  <2>1. CASE pdr.push
    <3>1. Len(p.opts) = 1 /\ Len(p.psc) = 1 /\ More(pdr) = 8
      BY <1>1, <2>1 DEF More, ContainerOf
    <3>2. 4 * (1 + 1) = 8
      OBVIOUS
    <3> QED
      BY <3>1, <3>2, Zenon DEF Extra
  <2>2. CASE ~pdr.push
    <3>1. Len(p.opts) = 0 /\ Len(p.psc) = 0 /\ More(pdr) = 0
      BY <1>1, <2>2 DEF More, ContainerOf
    <3>2. 4 * (0 + 0) = 0
      OBVIOUS
    <3> QED
      BY <3>1, <3>2, Zenon DEF Extra
  <2> QED
    BY <2>1, <2>2
<1> QED
  BY <1>1, <1>2

(* A packet put into a tunnel and routed.                                  *)
LEMMA TunnelSent ==
  ASSUME NEW S, NEW A, NEW t, NEW i \in IpHeaders(A), i.ttl > 0, Fits(i), NEW far, NEW pdr,
         NEW o, NEW n, NEW rest \in Seq(S), NEW h, h = Hdr(o, <<>>, <<>>, <<>>, i, n, rest),
         NEW y, y = Routing(t, GtpuTunnel(h, far, pdr))
  PROVE  /\ Outcome(y) /\ y.sent # <<>>
         /\ ReadWhole(Parse(y.sent[1]), far, pdr, i, rest)
<1>1. PICK op, ps : /\ op = IF pdr.push THEN <<"psc">> ELSE <<>>
                    /\ ps = IF pdr.push THEN <<PscOf(pdr)>> ELSE <<>>
  OBVIOUS
<1>2. PICK G, out, T : G = TunnelGtpu(i, far, pdr) /\ out = TunnelIp(i, far, pdr) /\ T = Down(out)
  OBVIOUS
<1>3. /\ T.src = far.src /\ T.dst = far.dst /\ T.len = 36 + More(pdr) + i.len
      /\ G.msg = "GPDU" /\ G.teid = far.teid /\ G.len = More(pdr) + i.len
      /\ (G.flagged <=> pdr.push) /\ ToGtp(T)
  BY <1>2, TunnelHeaders
<1>4. i.ttl # 0
  OBVIOUS
<1>5. ContainerOf(pdr, op, ps)
  BY <1>1 DEF ContainerOf
<1>6. GtpuTunnel(h, far, pdr) = Hdr(<<out>>, <<G>>, op, ps, i, n, rest)
  BY <1>1, <1>2, Tunnelled
<1>7. PICK x : x = Hdr(<<T>>, <<G>>, op, ps, i, n, rest)
  OBVIOUS
<1>8. PICK p : p = Parse(Deparse(x))
  OBVIOUS
<1>9. p = Hdr(<<>>, <<G>>, op, ps, T, <<i>>, rest)
  BY <1>3, <1>5, <1>7, <1>8, TunnelRead
<1>10. /\ p.inner = <<i>> /\ p.rest = rest /\ p.gtpu[1] = G /\ p.ip = T
       /\ p.psc = ps /\ Extra(p) = More(pdr)
  <2>1. PICK none, gs, is : none = <<>> /\ gs = <<G>> /\ is = <<i>>
    OBVIOUS
  <2>2. p = Hdr(none, gs, op, ps, T, is, rest)
    BY <1>9, <2>1, Zenon
  <2>3. /\ p.inner = is /\ p.rest = rest /\ p.gtpu = gs /\ p.ip = T
        /\ p.psc = ps /\ Extra(p) = More(pdr)
    BY <1>5, <2>2, TunnelLengths
  <2>4. gs[1] = G
    BY <2>1
  <2> QED
    BY <2>1, <2>3, <2>4, Zenon
<1>11. y = Sent(x, PortOf(t, out.dst))
  BY <1>2, <1>4, <1>6, <1>7, RoutedOuter
<1>12. y.sent = <<Deparse(x)>>
  BY <1>11 DEF Sent, Nothing
<1>13. Outcome(y)
  BY <1>11, Zenon DEF Outcome
<1>14. y.sent # <<>> /\ Parse(y.sent[1]) = p
  BY <1>8, <1>12
<1>15. ReadWhole(p, far, pdr, i, rest)
  BY <1>1, <1>3, <1>10 DEF ReadWhole, PscOf
<1> QED
  BY <1>13, <1>14, <1>15

(* What follows the headers, when the parser gets to see them.             *)
LEMMA RestFramed ==
  ASSUME NEW S, NEW I, NEW hs, Framed(S, I, hs), Reached(hs)
  PROVE  /\ Parse(hs).rest \in Seq(S)
         /\ Parse(hs).gtpu = <<>> => Parse(hs).opts = <<>> /\ Parse(hs).psc = <<>>
<1>1. Plain(S, I, hs) \/ Nested(S, I, hs) \/ InTunnel(S, I, hs) \/ WithContainer(S, I, hs)
  BY Framings
<1>2. CASE Plain(S, I, hs)
  <2>1. PICK i : \E r \in Seq(S) : Parse(hs) = Hdr(<<>>, <<>>, <<>>, <<>>, i, <<>>, r)
    BY <1>2 DEF Plain
  <2> QED
    BY <2>1 DEF Hdr
<1>5. CASE Nested(S, I, hs)
  <2>1. PICK i, u : \E r \in Seq(S) : Parse(hs) = Hdr(<<>>, <<>>, <<>>, <<>>, i, <<u>>, r)
    BY <1>5 DEF Nested
  <2> QED
    BY <2>1 DEF Hdr
<1>3. CASE InTunnel(S, I, hs)
  <2>1. PICK g, i, u : \E r \in Seq(S) : Parse(hs) = Hdr(<<>>, <<g>>, <<>>, <<>>, i, <<u>>, r)
    BY <1>3 DEF InTunnel
  <2> QED
    BY <2>1 DEF Hdr
<1>4. CASE WithContainer(S, I, hs)
  <2>1. PICK g, q, i, u : \E r \in Seq(S) : Parse(hs) = Hdr(<<>>, <<g>>, <<"psc">>, <<q>>, i, <<u>>, r)
    BY <1>4 DEF WithContainer
  <2> QED
    BY <2>1 DEF Hdr
<1> QED
  BY <1>1, <1>2, <1>3, <1>4, <1>5

(* main.p4:196, :206.  Whatever the tables: what a FAR puts into a tunnel  *)
(* is read at the other end as the same packet, when the tunnel leaves it  *)
(* a length of 16 bits.                                                    *)
THEOREM TunnelsWhole ==
  ASSUME NEW t, NEW mac, NEW S, NEW A, NEW I \in SUBSET IpHeaders(A), NEW hs,
         Framed(S, I, hs), Fits(UePacket(hs))
  PROVE  TunnelledWhole(t, mac, hs)
<1>1. ASSUME NEW f \in Forwarded(t, mac, hs),
             f.far.tunnel, f.far.type = GTPU, UePacket(hs).ttl > 0,
             Reached(hs), f.pdr.decap \/ Parse(hs).gtpu = <<>>
      PROVE  /\ f.out.sent # <<>>
             /\ ReadWhole(Parse(f.out.sent[1]), f.far, f.pdr, UePacket(hs), Parse(hs).rest)
  <2>1. UePacket(hs) \in IpHeaders(A)
    BY UeFramed
  <2>2. /\ Parse(hs).rest \in Seq(S)
        /\ Parse(hs).gtpu = <<>> => Parse(hs).opts = <<>> /\ Parse(hs).psc = <<>>
    BY <1>1, RestFramed
  <2>3. PICK o, n : Bare(f.pdr, hs) = Hdr(o, <<>>, <<>>, <<>>, UePacket(hs), n, Parse(hs).rest)
    <3>1. PICK o, n : Normalize(Parse(hs)) = Hdr(o, Parse(hs).gtpu, Parse(hs).opts, Parse(hs).psc,
                                                UePacket(hs), n, Parse(hs).rest)
      BY Arrived
    <3>2. CASE f.pdr.decap
      BY <3>1, <3>2, Decapsulated DEF Bare
    <3>3. CASE ~f.pdr.decap
      BY <1>1, <2>2, <3>1, <3>3 DEF Bare
    <3> QED
      BY <3>2, <3>3
  <2>4. Dressed(f.pdr, f.far, hs) = GtpuTunnel(Bare(f.pdr, hs), f.far, f.pdr)
    BY <1>1 DEF Dressed
  <2>5. PICK y : y = Routing(t, Dressed(f.pdr, f.far, hs))
    OBVIOUS
  <2>6. /\ Outcome(y) /\ y.sent # <<>>
        /\ ReadWhole(Parse(y.sent[1]), f.far, f.pdr, UePacket(hs), Parse(hs).rest)
    BY <1>1, <2>1, <2>2, <2>3, <2>4, <2>5, TunnelSent
  <2>7. f.out.sent = y.sent
    BY <2>5, <2>6, WhenForwarded
  <2> QED
    BY <2>6, <2>7
<1> QED
  BY <1>1 DEF TunnelledWhole

(* main.p4:334, :124.  Whatever the tables: a packet out of its tunnel     *)
(* leaves as it was inside, one TTL less, by the one port that the routes  *)
(* have for its destination.                                               *)
THEOREM DecapsulatesWhole ==
  ASSUME NEW t, NEW mac, NEW S, NEW A, NEW I \in SUBSET IpHeaders(A), NEW hs, Framed(S, I, hs),
         \A d, e \in Lookup(t.routes, UePacket(hs).dst) : d.port = e.port
  PROVE  DecapsulatedWhole(t, mac, hs)
<1>1. ASSUME NEW f \in Forwarded(t, mac, hs), f.pdr.decap, Reached(hs),
             ~(f.far.tunnel /\ f.far.type = GTPU), UePacket(hs).ttl > 1
      PROVE  /\ f.out.sent = << << <<"ip", [UePacket(hs) EXCEPT !.ttl = UePacket(hs).ttl - 1]>> >>
                                  \o Parse(hs).rest >>
             /\ \A r \in Lookup(t.routes, UePacket(hs).dst) : f.out.port = r.port
  <2>1. PICK i, rest : i = UePacket(hs) /\ rest = Parse(hs).rest
    OBVIOUS
  <2>2. i \in IpHeaders(A) /\ rest \in Seq(S)
    BY <1>1, <2>1, UeFramed, RestFramed
  <2>3. PICK n : Bare(f.pdr, hs) = Hdr(<<>>, <<>>, <<>>, <<>>, i, n, rest)
    BY <1>1, <2>1, Arrived, Decapsulated DEF Bare
  <2>4. Dressed(f.pdr, f.far, hs) = Bare(f.pdr, hs)
    BY <1>1 DEF Dressed
  <2>5. Down(i).ttl # 0 /\ Down(i) = [i EXCEPT !.ttl = i.ttl - 1]
    <3>1. i.ttl \in Byte
      BY <2>2 DEF IpHeaders
    <3>2. i.ttl > 1 /\ i.ttl > 0
      BY <1>1, <2>1, <3>1 DEF Byte
    <3> QED
      BY <2>2, <3>2, DownOne
  <2>6. PICK x : x = Hdr(<<>>, <<>>, <<>>, <<>>, Down(i), n, rest)
    OBVIOUS
  <2>7. Routing(t, Dressed(f.pdr, f.far, hs)) = Sent(x, PortOf(t, i.dst))
    <3>0. Down(i).ttl # 0
      BY <2>5
    <3>1. Routing(t, Hdr(<<>>, <<>>, <<>>, <<>>, i, n, rest))
            = Sent(Hdr(<<>>, <<>>, <<>>, <<>>, Down(i), n, rest), PortOf(t, i.dst))
      BY <3>0, RoutedPlainAlive
    <3> QED
      BY <2>3, <2>4, <2>6, <3>1, Zenon
  <2>8. Outcome(Routing(t, Dressed(f.pdr, f.far, hs)))
    BY <2>7, Zenon DEF Outcome
  <2>9. f.out.sent = <<Deparse(x)>> /\ f.out.port = PortOf(t, i.dst)
    <3>1. /\ Sent(x, PortOf(t, i.dst)).sent = <<Deparse(x)>>
          /\ Sent(x, PortOf(t, i.dst)).port = PortOf(t, i.dst)
      BY DEF Sent, Nothing
    <3>2. /\ f.out.sent = Routing(t, Dressed(f.pdr, f.far, hs)).sent
          /\ f.out.port = Routing(t, Dressed(f.pdr, f.far, hs)).port
      BY <2>8, WhenForwarded
    <3> QED
      BY <2>7, <3>1, <3>2
  <2>10. Deparse(x) = WirePlain(Down(i), rest)
    BY <2>2, <2>6, DeparsedPlain
  <2>11. ASSUME NEW r \in Lookup(t.routes, i.dst)
         PROVE  PortOf(t, i.dst) = r.port
    <3>1. PICK out : out = Lookup(t.routes, i.dst)
      OBVIOUS
    <3>2. out # {} /\ (CHOOSE d \in out : TRUE) \in out
      BY <2>11, <3>1
    <3>3. (CHOOSE d \in out : TRUE).port = r.port
      BY <2>1, <2>11, <3>1, <3>2
    <3> QED
      BY <3>1, <3>2, <3>3 DEF PortOf
  <2> QED
    BY <2>1, <2>5, <2>9, <2>10, <2>11 DEF WirePlain
<1> QED
  BY <1>1 DEF DecapsulatedWhole

(* A packet that is only routed: the outermost TTL counts down.            *)
Older(x, hs) ==
  Outcome(x) /\ x.sent = << << <<"ip", [hs[1][2] EXCEPT !.ttl = hs[1][2].ttl - 1]>> >> \o Tail(hs) >>
LEMMA RoutedWhole ==
  ASSUME NEW t, NEW S, NEW A, NEW I \in SUBSET IpHeaders(A), NEW hs, Framed(S, I, hs), Reached(hs),
         hs[1][2].ttl > 1, UePacket(hs).ttl > 0
  PROVE  Older(Routing(t, Normalize(Parse(hs))), hs)
<1>1. Plain(S, I, hs) \/ Nested(S, I, hs) \/ InTunnel(S, I, hs) \/ WithContainer(S, I, hs)
  BY Framings
<1>2. ASSUME NEW i \in I, hs[1] = <<"ip", i>>
      PROVE  /\ Down(i).ttl # 0 /\ hs[1][2] = i
             /\ <<"ip", Down(i)>> = <<"ip", [hs[1][2] EXCEPT !.ttl = hs[1][2].ttl - 1]>>
  <2>1. hs[1][2] = i
    BY <1>2
  <2>2. i.ttl \in Byte
    BY DEF IpHeaders
  <2>3. i.ttl > 1 /\ i.ttl > 0
    BY <2>1, <2>2 DEF Byte
  <2>4. Down(i).ttl # 0 /\ Down(i) = [i EXCEPT !.ttl = i.ttl - 1]
    BY <2>3, DownOne
  <2> QED
    BY <2>1, <2>4
<1>3. UePacket(hs) = Normalize(Parse(hs)).ip
  BY DEF UePacket
<1>4. ASSUME NEW x, NEW port, NEW y, y = Sent(x, port),
             Deparse(x) = << <<"ip", [hs[1][2] EXCEPT !.ttl = hs[1][2].ttl - 1]>> >> \o Tail(hs)
      PROVE  Older(y, hs)
  <2>1. Sent(x, port).sent = <<Deparse(x)>>
    BY DEF Sent, Nothing
  <2>2. Outcome(y)
    BY <1>4, Zenon DEF Outcome
  <2> QED
    BY <1>4, <2>1, <2>2, Zenon DEF Older
<1>5. CASE Plain(S, I, hs)
  <2>1. PICK i \in I, rest \in Seq(S) :
          /\ hs = WirePlain(i, rest) /\ hs[1] = <<"ip", i>>
          /\ Parse(hs) = Hdr(<<>>, <<>>, <<>>, <<>>, i, <<>>, rest)
    BY <1>5, Zenon DEF Plain
  <2>2. Normalize(Parse(hs)) = Parse(hs)
    BY <2>1, Normalized
  <2>3. Down(i).ttl # 0 /\ <<"ip", Down(i)>> = <<"ip", [hs[1][2] EXCEPT !.ttl = hs[1][2].ttl - 1]>>
    BY <1>2, <2>1
  <2>4. PICK x : x = Hdr(<<>>, <<>>, <<>>, <<>>, Down(i), <<>>, rest)
    OBVIOUS
  <2>5. Routing(t, Normalize(Parse(hs))) = Sent(x, PortOf(t, i.dst))
    <3>0. Down(i).ttl # 0
      BY <2>3
    <3>1. Routing(t, Hdr(<<>>, <<>>, <<>>, <<>>, i, <<>>, rest))
            = Sent(Hdr(<<>>, <<>>, <<>>, <<>>, Down(i), <<>>, rest), PortOf(t, i.dst))
      BY <3>0, RoutedPlainAlive
    <3> QED
      BY <2>1, <2>2, <2>4, <3>1, Zenon
  <2>6. Deparse(x) = WirePlain(Down(i), rest)
    BY <2>4, DeparsedPlain
  <2>7. WirePlain(Down(i), rest) = Reheaded(Down(i), hs)
    BY <2>1, WireFirst
  <2> QED
    BY <1>4, <2>3, <2>5, <2>6, <2>7 DEF Reheaded
<1>6. CASE InTunnel(S, I, hs)
  <2>1. PICK g : \E i, u \in I, rest \in Seq(S) :
          /\ hs = WireTunnel(i, g, u, rest) /\ hs[1] = <<"ip", i>>
          /\ Parse(hs) = Hdr(<<>>, <<g>>, <<>>, <<>>, i, <<u>>, rest)
    BY <1>6, Zenon DEF InTunnel
  <2>2. PICK i \in I, u \in I, rest \in Seq(S) :
          /\ hs = WireTunnel(i, g, u, rest) /\ hs[1] = <<"ip", i>>
          /\ Parse(hs) = Hdr(<<>>, <<g>>, <<>>, <<>>, i, <<u>>, rest)
    BY <2>1, Zenon
  <2>3. Normalize(Parse(hs)) = Hdr(<<i>>, <<g>>, <<>>, <<>>, u, <<>>, rest)
    BY <2>2, NormalizedInner, Zenon
  <2>4. Down(i).ttl # 0 /\ <<"ip", Down(i)>> = <<"ip", [hs[1][2] EXCEPT !.ttl = hs[1][2].ttl - 1]>>
    BY <1>2, <2>2
  <2>5. UePacket(hs) = u
    <3>4. PICK n : n = Normalize(Parse(hs))
      OBVIOUS
    <3>5. n = Hdr(<<i>>, <<g>>, <<>>, <<>>, u, <<>>, rest)
      BY <2>3, <3>4, Zenon
    <3>6. n.ip = u
      BY <3>5 DEF Hdr
    <3> QED
      BY <1>3, <3>4, <3>6, Zenon
  <2>6. u.ttl # 0
    BY <2>5
  <2>7. PICK x : x = Hdr(<<Down(i)>>, <<g>>, <<>>, <<>>, u, <<>>, rest)
    OBVIOUS
  <2>8. Routing(t, Normalize(Parse(hs))) = Sent(x, PortOf(t, i.dst))
    BY <2>3, <2>6, <2>7, RoutedOuter
  <2>9. Deparse(x) = WireTunnel(Down(i), g, u, rest)
    BY <2>7, DeparsedTunnel
  <2>10. WireTunnel(Down(i), g, u, rest) = Reheaded(Down(i), hs)
    <3>1. WireTunnel(Down(i), g, u, rest) = Reheaded(Down(i), WireTunnel(i, g, u, rest))
      BY WireFirst
    <3> QED
      BY <2>2, <3>1, Zenon
  <2> QED
    BY <1>4, <2>4, <2>8, <2>9, <2>10 DEF Reheaded
<1>8. CASE Nested(S, I, hs)
  <2>2. PICK i \in I, u \in I, rest \in Seq(S) :
          /\ hs = WireNested(i, u, rest) /\ hs[1] = <<"ip", i>>
          /\ Parse(hs) = Hdr(<<>>, <<>>, <<>>, <<>>, i, <<u>>, rest)
    BY <1>8, Zenon DEF Nested
  <2>3. Normalize(Parse(hs)) = Hdr(<<i>>, <<>>, <<>>, <<>>, u, <<>>, rest)
    BY <2>2, NormalizedInner, Zenon
  <2>4. Down(i).ttl # 0 /\ <<"ip", Down(i)>> = <<"ip", [hs[1][2] EXCEPT !.ttl = hs[1][2].ttl - 1]>>
    BY <1>2, <2>2
  <2>5. UePacket(hs) = u
    <3>4. PICK n : n = Normalize(Parse(hs))
      OBVIOUS
    <3>5. n = Hdr(<<i>>, <<>>, <<>>, <<>>, u, <<>>, rest)
      BY <2>3, <3>4, Zenon
    <3>6. n.ip = u
      BY <3>5 DEF Hdr
    <3> QED
      BY <1>3, <3>4, <3>6, Zenon
  <2>6. u.ttl # 0
    BY <2>5
  <2>7. PICK x : x = Hdr(<<Down(i)>>, <<>>, <<>>, <<>>, u, <<>>, rest)
    OBVIOUS
  <2>8. Routing(t, Normalize(Parse(hs))) = Sent(x, PortOf(t, i.dst))
    BY <2>3, <2>6, <2>7, RoutedOuter
  <2>9. Deparse(x) = WireNested(Down(i), u, rest)
    BY <2>7, DeparsedNested
  <2>10. WireNested(Down(i), u, rest) = Reheaded(Down(i), hs)
    <3>1. WireNested(Down(i), u, rest) = Reheaded(Down(i), WireNested(i, u, rest))
      BY WireFirst
    <3> QED
      BY <2>2, <3>1, Zenon
  <2> QED
    BY <1>4, <2>4, <2>8, <2>9, <2>10 DEF Reheaded
<1>7. CASE WithContainer(S, I, hs)
  <2>1. PICK g, q : \E i, u \in I, rest \in Seq(S) :
          /\ hs = WireContainer(i, g, q, u, rest)
          /\ hs[1] = <<"ip", i>>
          /\ Parse(hs) = Hdr(<<>>, <<g>>, <<"psc">>, <<q>>, i, <<u>>, rest)
    BY <1>7, Zenon DEF WithContainer
  <2>2. PICK i \in I, u \in I, rest \in Seq(S) :
          /\ hs = WireContainer(i, g, q, u, rest)
          /\ hs[1] = <<"ip", i>>
          /\ Parse(hs) = Hdr(<<>>, <<g>>, <<"psc">>, <<q>>, i, <<u>>, rest)
    BY <2>1, Zenon
  <2>3. Normalize(Parse(hs)) = Hdr(<<i>>, <<g>>, <<"psc">>, <<q>>, u, <<>>, rest)
    BY <2>2, NormalizedInner, Zenon
  <2>4. Down(i).ttl # 0 /\ <<"ip", Down(i)>> = <<"ip", [hs[1][2] EXCEPT !.ttl = hs[1][2].ttl - 1]>>
    BY <1>2, <2>2
  <2>5. UePacket(hs) = u
    <3>4. PICK n : n = Normalize(Parse(hs))
      OBVIOUS
    <3>5. n = Hdr(<<i>>, <<g>>, <<"psc">>, <<q>>, u, <<>>, rest)
      BY <2>3, <3>4, Zenon
    <3>6. n.ip = u
      BY <3>5 DEF Hdr
    <3> QED
      BY <1>3, <3>4, <3>6, Zenon
  <2>6. u.ttl # 0
    BY <2>5
  <2>7. PICK x : x = Hdr(<<Down(i)>>, <<g>>, <<"psc">>, <<q>>, u, <<>>, rest)
    OBVIOUS
  <2>8. Routing(t, Normalize(Parse(hs))) = Sent(x, PortOf(t, i.dst))
    BY <2>3, <2>6, <2>7, RoutedOuter
  <2>9. Deparse(x) =
          WireContainer(Down(i), g, q, u, rest)
    BY <2>7, DeparsedContainer
  <2>10. WireContainer(Down(i), g, q, u, rest) = Reheaded(Down(i), hs)
    BY <2>2, WireFirst
  <2> QED
    BY <1>4, <2>4, <2>8, <2>9, <2>10 DEF Reheaded
<1> QED
  BY <1>1, <1>5, <1>6, <1>7, <1>8

(* main.p4:455.  Whatever the tables, as long as no FAR is that of session *)
(* 0: a packet of no PDR, or of the control plane, is only routed.         *)
THEOREM OthersWhole ==
  ASSUME NEW t, \A e \in t.fars : e.key # [fseid |-> 0, farId |-> 0],
         NEW cpu \in BOOLEAN, NEW mac, NEW S, NEW A, NEW I \in SUBSET IpHeaders(A), NEW hs, Framed(S, I, hs)
  PROVE  Unprocessed(t, cpu, mac, hs)
<1>1. ASSUME IF cpu THEN Parse(hs).gtpu = <<>> /\ Parse(hs).inner = <<>>
             ELSE mac \in t.my_station /\ Pdrs(t, hs) = {Unmatched},
             Reached(hs), hs[1][2].ttl > 1, UePacket(hs).ttl > 0, NEW o \in Ingress(t, cpu, mac, hs)
      PROVE  o.sent = << << <<"ip", [hs[1][2] EXCEPT !.ttl = hs[1][2].ttl - 1]>> >> \o Tail(hs) >>
  <2>1. /\ Older(Routing(t, Normalize(Parse(hs))), hs)
        /\ Parse(hs).inner = <<>> => Normalize(Parse(hs)) = Parse(hs)
    BY <1>1, RoutedWhole DEF Normalize
  <2>2. CASE cpu
    <3>1. Ingress(t, cpu, mac, hs) = {Routing(t, Parse(hs))}
      BY <2>2 DEF Ingress
    <3> QED
      BY <1>1, <2>1, <2>2, <3>1 DEF Older
  <2>3. CASE ~cpu
    <3>1. mac \in t.my_station /\ Pdrs(t, hs) = {Unmatched}
      BY <1>1, <2>3
    <3>2. Ingress(t, cpu, mac, hs) = {ExecuteFar(t, Bare(p, hs), LoadFar(t, p), p) : p \in Pdrs(t, hs)}
      BY <2>3, <3>1 DEF Ingress, Bare
    <3>3. o = ExecuteFar(t, Bare(Unmatched, hs), LoadFar(t, Unmatched), Unmatched)
      BY <1>1, <3>1, <3>2
    <3>4. ~Unmatched.decap /\ Unmatched.fseid = 0 /\ Unmatched.farId = 0
      BY DEF Unmatched
    <3>5. Bare(Unmatched, hs) = Normalize(Parse(hs))
      BY <3>4 DEF Bare
    <3>6. LoadFar(t, Unmatched) = NoFar
      <4>1. {e \in t.fars : e.key = [fseid |-> Unmatched.fseid, farId |-> Unmatched.farId]} = {}
        BY <3>4
      <4> QED
        BY <4>1 DEF LoadFar
    <3>7. ~NoFar.buffer /\ ~NoFar.drop /\ ~NoFar.tunnel
      BY DEF NoFar
    <3>8. o = [Routing(t, Normalize(Parse(hs))) EXCEPT !.clone = NoFar.notify]
      BY <3>3, <3>5, <3>6, <3>7 DEF ExecuteFar
    <3>9. PICK r : r = Routing(t, Normalize(Parse(hs)))
      OBVIOUS
    <3>10. o.sent = r.sent
      BY <2>1, <3>8, <3>9, Cloned DEF Older
    <3> QED
      BY <2>1, <3>9, <3>10 DEF Older
  <2> QED
    BY <2>2, <2>3
<1> QED
  BY <1>1 DEF Unprocessed

-----------------------------------------------------------------------------
(* The routes that the driver fills: whatever the configured addresses,    *)
(* one port for a destination.                                             *)
Addresses == Nat \X Nat \X Nat
LEMMA OnePort ==
  ASSUME NEW init, init.N3IPAddr \in Addresses \union {None}, init.gNBAddr \in Addresses \union {None},
         NEW dst \in Addresses, NEW d \in Lookup(Routes(init), dst), NEW e \in Lookup(Routes(init), dst)
  PROVE  d.port = e.port
<1> DEFINE a1 == Entry(init.N3IPAddr, 32, [src |-> "N6Mac", dst |-> "DNNMac", port |-> 64])
           a2 == Entry(init.gNBAddr, 32, [src |-> "N3Mac", dst |-> "gNBMac", port |-> 65])
           a3 == Entry(init.UEIPNet, 24, [src |-> "N3Mac", dst |-> "gNBMac", port |-> 65])
           es == <<a1, a2, a3>>
           R == Routes(init)
<1>1. /\ a1.ip = init.N3IPAddr /\ a1.len = 32 /\ a1.data.port = 64
      /\ a2.ip = init.gNBAddr /\ a2.len = 32 /\ a2.data.port = 65
      /\ a3.len = 24 /\ a3.data.port = 65
  BY DEF Entry
<1>2. R = Fill(es)
  BY DEF Routes
<1> HIDE DEF a1, a2, a3, R
<1>3. /\ R \subseteq {a1, a2, a3}
      /\ a2 \in R => a1.ip # a2.ip \/ a2 = a1 \/ a2 = a3
  <2>1. DOMAIN es = 1..3 /\ es[1] = a1 /\ es[2] = a2 /\ es[3] = a3
    OBVIOUS
  <2> HIDE DEF es
  <2>2. \A x \in R : \E k \in 1..3 :
          /\ x = es[k]
          /\ \A i \in 1..(k - 1) : <<es[i].ip, es[i].len>> # <<es[k].ip, es[k].len>>
    BY <1>2, <2>1 DEF Fill
  <2>3. ASSUME a2 \in R, a2 # a1, a2 # a3
        PROVE  a1.ip # a2.ip
    <3>1. PICK k \in 1..3 :
            /\ a2 = es[k]
            /\ \A i \in 1..(k - 1) : <<es[i].ip, es[i].len>> # <<es[k].ip, es[k].len>>
      BY <2>2, <2>3
    <3>2. k = 2
      BY <2>1, <2>3, <3>1
    <3>3. <<a1.ip, a1.len>> # <<a2.ip, a2.len>>
      BY <2>1, <3>1, <3>2
    <3> QED
      BY <1>1, <3>3
  <2> QED
    BY <2>1, <2>2, <2>3
<1>4. \A x \in Hits(R, dst) : x \in R /\ (x.len = 32 => x.ip = dst)
  <2>1. ASSUME NEW x \in R, Within(dst, x.ip, x.len), x.len = 32, x.ip \in Addresses \union {None}
        PROVE  x.ip = dst
    <3>1. x.ip # None /\ Network(dst, 32) = Network(x.ip, 32) /\ dst # None
      BY <2>1 DEF Within
    <3>2. \A y \in Addresses : Network(y, 32) = y
      BY DEF Network, Addresses, None
    <3> QED
      BY <2>1, <3>1, <3>2
  <2>2. \A x \in Hits(R, dst) : x \in R /\ Within(dst, x.ip, x.len)
    BY DEF Hits
  <2>3. \A x \in R : x.len = 32 => x.ip \in Addresses \union {None}
    BY <1>1, <1>3
  <2> QED
    BY <2>1, <2>2, <2>3
<1>5. PICK x \in Hits(R, dst), y \in Hits(R, dst) :
        /\ d = x.data /\ \A z \in Hits(R, dst) : z.len <= x.len
        /\ e = y.data /\ \A z \in Hits(R, dst) : z.len <= y.len
  BY DEF Lookup, R
<1>6. x \in {a1, a2, a3} /\ y \in {a1, a2, a3} /\ x.len = y.len
  <2>1. x.len \in Int /\ y.len \in Int /\ x.len <= y.len /\ y.len <= x.len
    BY <1>1, <1>3, <1>4, <1>5
  <2> QED
    BY <1>3, <1>4, <2>1
<1>7. CASE x.len = 32
  <2>1. x.ip = dst /\ y.ip = dst /\ x \in R /\ y \in R
    BY <1>4, <1>6, <1>7
  <2> QED
    <3>1. x \in {a1, a2} /\ y \in {a1, a2}
      <4>1. a3.len # 32
        BY <1>1
      <4>2. x # a3 /\ y # a3
        BY <1>6, <1>7, <4>1, Zenon
      <4> QED
        BY <1>6, <4>2, Zenon
    <3>2. x # y => a2 \in R /\ a1.ip = a2.ip /\ a2 # a1
      BY <2>1, <3>1
    <3>3. a2 # a3
      BY <1>1
    <3>4. x = y
      BY <1>3, <3>2, <3>3
    <3> QED
      BY <1>5, <3>4
<1>8. CASE x.len # 32
  <2>1. x = a3 /\ y = a3
    BY <1>1, <1>6, <1>8
  <2> QED
    BY <1>5, <2>1
<1> QED
  BY <1>7, <1>8

(* The packets of the switch's runs are framed, and fit into a tunnel.     *)
RunHeaders == {i \in IpHeaders(Addresses) : Fits(i)}
RunEnds == {N3, N6, GNB, UE, <<9, 9, 9>>}
RunTtls == 0..2
RunLengths == {36, 100, 136}
RunL4s == Carried \union {Udp(90, 80), Udp(7, GTP_GPDU), Udp(7, IPV4_IN_UDP), Tcp(80, 90)}
OfRun(h) == \E i \in RunHeaders : h = <<"ip", i>>
LEMMA RunHeader ==
  ASSUME NEW src \in RunEnds, NEW dst \in RunEnds, NEW ttl \in RunTtls, NEW len \in RunLengths,
         NEW l4 \in RunL4s
  PROVE  OfRun(Ip(src, dst, ttl, len, l4))
<1>1. src \in Addresses /\ dst \in Addresses
  BY DEF Addresses, RunEnds, N3, N6, GNB, UE
<1>2. ttl \in Byte
  BY DEF Byte, RunTtls
<1>3. len \in Uint16
  BY DEF Uint16, RunLengths
<1>4. PICK i : i = [src |-> src, dst |-> dst, ttl |-> ttl, len |-> len, l4 |-> l4]
  OBVIOUS
<1>5. l4 \in L4Headers
  <2>1. \A k \in {0, 7, 53, 80, 90, GTP_GPDU, IPV4_IN_UDP} : k \in Uint16
    BY DEF Uint16, GTP_GPDU, IPV4_IN_UDP
  <2>2. \A k, m \in Uint16 : Udp(k, m) \in L4Headers /\ Tcp(k, m) \in L4Headers
    BY DEF Udp, Tcp, L4Headers
  <2>3. Portless \in L4Headers
    BY <2>1 DEF Portless, L4Headers
  <2> QED
    BY <2>1, <2>2, <2>3 DEF RunL4s, Carried
<1>6. i \in IpHeaders(Addresses)
  BY <1>1, <1>2, <1>3, <1>4, <1>5 DEF IpHeaders
<1>7. Fits(i)
  <2>1. i.len = len
    BY <1>4
  <2>2. len <= 65491
    BY DEF RunLengths
  <2> QED
    BY <2>1, <2>2 DEF Fits
<1>8. i \in RunHeaders
  BY <1>6, <1>7, Zenon DEF RunHeaders
<1> QED
  BY <1>4, <1>8, Zenon DEF OfRun, Ip

(* Where they come from and go to, how long they are, and what they carry. *)
LEMMA RunValues ==
  /\ N3 \in RunEnds /\ N6 \in RunEnds /\ GNB \in RunEnds /\ UE \in RunEnds /\ <<9, 9, 9>> \in RunEnds
  /\ 1 \in RunTtls /\ 2 \in RunTtls /\ RunTtls = 0..2
  /\ 36 \in RunLengths /\ 100 \in RunLengths /\ 136 \in RunLengths
  /\ Carried \subseteq RunL4s /\ Udp(90, 80) \in RunL4s /\ Udp(7, GTP_GPDU) \in RunL4s
  /\ Udp(7, IPV4_IN_UDP) \in RunL4s /\ Tcp(80, 90) \in RunL4s
BY DEF RunEnds, RunTtls, RunLengths, RunL4s

(* The port they go to.                                                    *)
LEMMA RunPort ==
  ASSUME NEW src, NEW dst, NEW ttl, NEW len, NEW port, NEW i,
         Ip(src, dst, ttl, len, Udp(7, port)) = <<"ip", i>>
  PROVE  UdpTo(i, port)
<1>1. PICK l4 : l4 = Udp(7, port)
  OBVIOUS
<1>2. i = [src |-> src, dst |-> dst, ttl |-> ttl, len |-> len, l4 |-> l4]
  BY <1>1 DEF Ip
<1>3. i.l4 = l4
  BY <1>2
<1>4. l4[1] = "udp" /\ l4[3] = port
  BY <1>1 DEF Udp
<1> QED
  BY <1>3, <1>4 DEF UdpTo

(* What they carry behind their headers.                                   *)
RunEnd == Gtpu("EndMarker", FALSE, 5, 0)
RunPayload == {RunEnd} \union {<<"ip", u>> : u \in RunHeaders}
LEMMA RunPackets ==
  ASSUME NEW hs \in SwitchPackets
  PROVE  Framed(RunPayload, RunHeaders, hs)
<1>1. <<>> \in Seq(RunPayload)
  OBVIOUS
<1>2. ASSUME NEW h, OfRun(h), hs = <<h>>
      PROVE  Framed(RunPayload, RunHeaders, hs)
  <2>1. PICK i \in RunHeaders : h = <<"ip", i>>
    BY <1>2, Zenon DEF OfRun
  <2>2. <<h>> = <<h>> \o <<>>
    OBVIOUS
  <2>3. hs = WirePlain(i, <<>>)
    BY <1>2, <2>1, <2>2, Zenon DEF WirePlain
  <2> QED
    BY <1>1, <2>3, Zenon DEF Framed
<1>3. CASE hs = << Ip(N3, GNB, 2, 36, Udp(7, GTP_GPDU)), RunEnd >>
  <2>1. OfRun(Ip(N3, GNB, 2, 36, Udp(7, GTP_GPDU)))
    BY RunHeader, RunValues
  <2>2. PICK i \in RunHeaders : Ip(N3, GNB, 2, 36, Udp(7, GTP_GPDU)) = <<"ip", i>>
    BY <2>1, Zenon DEF OfRun
  <2>3. PICK a, z : a = <<"ip", i>> /\ z = RunEnd
    OBVIOUS
  <2>4. z \in RunPayload
    BY <2>3 DEF RunPayload
  <2>5. PICK rest : rest = <<z>>
    OBVIOUS
  <2>6. rest \in Seq(RunPayload) /\ rest[1] = z
    BY <2>4, <2>5
  <2>7. BeforeOne(a, z)
    BY Joined
  <2>8. hs = WirePlain(i, rest)
    BY <1>3, <2>2, <2>3, <2>5, <2>7, Zenon DEF WirePlain, BeforeOne
  <2>9. ~Opened(i, rest[1])
    <3>1. z[2].msg = "EndMarker" /\ z[1] = "gtpu"
      BY <2>3 DEF RunEnd, Gtpu
    <3> QED
      BY <2>6, <3>1 DEF IsGpdu, Opened
  <2> QED
    BY <2>6, <2>8, <2>9, Zenon DEF Framed
<1>4. ASSUME NEW dst \in {UE, N6}, NEW ttl \in 0..2,
             hs = << Ip(N3, dst, 2, 136, Udp(7, IPV4_IN_UDP)), Ip(N3, UE, ttl, 100, Udp(90, 80)) >>
      PROVE  Framed(RunPayload, RunHeaders, hs)
  <2>1. dst \in RunEnds /\ ttl \in RunTtls
    BY RunValues
  <2>2. OfRun(Ip(N3, dst, 2, 136, Udp(7, IPV4_IN_UDP))) /\ OfRun(Ip(N3, UE, ttl, 100, Udp(90, 80)))
    BY <2>1, RunHeader, RunValues
  <2>3. PICK i \in RunHeaders, u \in RunHeaders :
          /\ Ip(N3, dst, 2, 136, Udp(7, IPV4_IN_UDP)) = <<"ip", i>>
          /\ Ip(N3, UE, ttl, 100, Udp(90, 80)) = <<"ip", u>>
    BY <2>2, Zenon DEF OfRun
  <2>4. ToIp(i)
    BY <2>3, RunPort DEF ToIp
  <2>5. PICK a, z : a = <<"ip", i>> /\ z = <<"ip", u>>
    OBVIOUS
  <2>6. <<a, z>> = <<a, z>> \o <<>>
    OBVIOUS
  <2>7. hs = WireNested(i, u, <<>>)
    BY <1>4, <2>3, <2>5, <2>6, Zenon DEF WireNested
  <2> QED
    BY <1>1, <2>4, <2>7, Zenon DEF Framed
<1>5. ASSUME NEW outer \in 1..2, NEW ttl \in 0..2, NEW gtp \in Gpdus,
             hs = << Outer(outer, GTP_GPDU) >> \o gtp \o << Inner(ttl) >>
      PROVE  Framed(RunPayload, RunHeaders, hs)
  <2>1. outer \in RunTtls /\ ttl \in RunTtls
    BY RunValues
  <2>2. OfRun(Outer(outer, GTP_GPDU)) /\ OfRun(Inner(ttl))
    BY <2>1, RunHeader, RunValues DEF Outer, Inner
  <2>3. PICK i \in RunHeaders, u \in RunHeaders :
          Outer(outer, GTP_GPDU) = <<"ip", i>> /\ Inner(ttl) = <<"ip", u>>
    BY <2>2, Zenon DEF OfRun
  <2>4. ToGtp(i)
    BY <2>3, RunPort DEF ToGtp, Outer
  <2>5. PICK a, z, o, p : a = <<"ip", i>> /\ z = <<"ip", u>>
                          /\ o = <<"opts", "none">> /\ p = <<"opts", "psc">>
    OBVIOUS
  <2>6. hs = (<<a>> \o gtp) \o <<z>>
    BY <1>5, <2>3, <2>5, Zenon
  <2>7. PICK rest : rest = <<z>>
    OBVIOUS
  <2>8. rest \in Seq(RunPayload)
    <3>1. z \in RunPayload
      BY <2>5 DEF RunPayload
    <3> QED
      BY <2>7, <3>1
  <2>9. ASSUME NEW e, gtp = << Gtpu("GPDU", FALSE, e, 100) >>
        PROVE  Framed(RunPayload, RunHeaders, hs)
    <3>1. PICK g : g = [msg |-> "GPDU", flagged |-> FALSE, teid |-> e, len |-> 100]
      OBVIOUS
    <3>2. g.msg = "GPDU" /\ ~g.flagged
      BY <3>1
    <3>3. PICK c : c = <<"gtpu", g>>
      OBVIOUS
    <3>4. gtp = << c >>
      BY <2>9, <3>1, <3>3, Zenon DEF Gtpu
    <3>5. <<a, c, z>> \o <<>> = <<a, c, z>>
      OBVIOUS
    <3>6. BeforeOne(a, c) /\ AfterTwo(a, c, z)
      BY Joined
    <3>7. hs = WireTunnel(i, g, u, <<>>)
      BY <2>5, <2>6, <3>3, <3>4, <3>5, <3>6, Zenon DEF WireTunnel, BeforeOne, AfterTwo
    <3> QED
      BY <1>1, <2>4, <3>2, <3>7, Zenon DEF Framed
  <2>10. ASSUME NEW g, g.msg = "GPDU", g.flagged, gtp = << <<"gtpu", g>>, <<"opts", "none">> >>
        PROVE  Framed(RunPayload, RunHeaders, hs)
    <3>1. PICK c : c = <<"gtpu", g>>
      OBVIOUS
    <3>2. BeforeTwo(a, c, o)
      BY Joined
    <3>3. hs = WireOptions(i, g, "none", rest)
      BY <2>5, <2>6, <2>7, <2>10, <3>1, <3>2, Zenon DEF WireOptions, BeforeTwo
    <3>4. "none" # "psc"
      OBVIOUS
    <3> QED
      BY <2>4, <2>8, <2>10, <3>3, <3>4, Zenon DEF Framed
  <2>11. ASSUME NEW g, NEW q, g.msg = "GPDU", g.flagged,
                gtp = << <<"gtpu", g>>, <<"opts", "psc">>, <<"psc", q>> >>
        PROVE  Framed(RunPayload, RunHeaders, hs)
    <3>1. PICK c, f : c = <<"gtpu", g>> /\ f = <<"psc", q>>
      OBVIOUS
    <3>2. BeforeThree(a, c, p, f) /\ AfterFour(a, c, p, f, z)
      BY Joined
    <3>3. <<a, c, p, f, z>> \o <<>> = <<a, c, p, f, z>>
      OBVIOUS
    <3>4. CASE ~q.more
      <4>1. hs = WireContainer(i, g, q, u, <<>>)
        BY <2>5, <2>6, <2>11, <3>1, <3>2, <3>3, Zenon DEF WireContainer, BeforeThree, AfterFour
      <4> QED
        BY <1>1, <2>4, <2>11, <3>4, <4>1, Zenon DEF Framed
    <3>5. CASE q.more
      <4>1. hs = WireMore(i, g, q, rest)
        BY <2>5, <2>6, <2>7, <2>11, <3>1, <3>2, Zenon DEF WireMore, BeforeThree
      <4> QED
        BY <2>4, <2>8, <2>11, <3>5, <4>1, Zenon DEF Framed
    <3> QED
      BY <3>4, <3>5
  <2>12. CASE gtp = << Gtpu("GPDU", TRUE, 5, 104), <<"opts", "none">> >>
    <3>1. PICK g : g = [msg |-> "GPDU", flagged |-> TRUE, teid |-> 5, len |-> 104]
      OBVIOUS
    <3>2. g.msg = "GPDU" /\ g.flagged
      BY <3>1
    <3>3. gtp = << <<"gtpu", g>>, <<"opts", "none">> >>
      BY <2>12, <3>1, Zenon DEF Gtpu
    <3> QED
      BY <2>10, <3>2, <3>3
  <2>13. ASSUME NEW len, NEW m, gtp = << Gtpu("GPDU", TRUE, 5, len), <<"opts", "psc">>, Psc(9, m) >>
         PROVE  Framed(RunPayload, RunHeaders, hs)
    <3>1. PICK g, q : g = [msg |-> "GPDU", flagged |-> TRUE, teid |-> 5, len |-> len]
                      /\ q = [qfi |-> 9, more |-> m]
      OBVIOUS
    <3>2. g.msg = "GPDU" /\ g.flagged
      BY <3>1
    <3>3. gtp = << <<"gtpu", g>>, <<"opts", "psc">>, <<"psc", q>> >>
      BY <2>13, <3>1, Zenon DEF Gtpu, Psc
    <3> QED
      BY <2>11, <3>2, <3>3
  <2> QED
    <3>1. \/ gtp = << Gtpu("GPDU", FALSE, 5, 100) >> \/ gtp = << Gtpu("GPDU", FALSE, 6, 100) >>
          \/ gtp = << Gtpu("GPDU", TRUE, 5, 104), <<"opts", "none">> >>
          \/ gtp = << Gtpu("GPDU", TRUE, 5, 108), <<"opts", "psc">>, Psc(9, FALSE) >>
          \/ gtp = << Gtpu("GPDU", TRUE, 5, 112), <<"opts", "psc">>, Psc(9, TRUE) >>
      BY Zenon DEF Gpdus
    <3> QED
      BY <2>9, <2>12, <2>13, <3>1, Zenon
<1> DEFINE D == {UE, N6, GNB, <<9, 9, 9>>}
           E == {UE, N6}
           Untunnelled == {<< Ip(N3, dst, ttl, 100, Udp(90, 80)) >> : dst \in D, ttl \in 0..2}
           Others == {<< Ip(N3, UE, 2, 100, l4) >> : l4 \in Carried}
           Tunnels == {TunnelOf(outer, gtp, ttl) : outer \in 1..2, ttl \in 0..2, gtp \in Gpdus}
           InUdp == {<< Ip(N3, dst, 2, 136, Udp(7, IPV4_IN_UDP)), Ip(N3, UE, ttl, 100, Udp(90, 80)) >> :
                       dst \in E, ttl \in 0..2}
           Marker == << Ip(N3, GNB, 2, 36, Udp(7, GTP_GPDU)), RunEnd >>
<1>6. hs \in Untunnelled \/ hs \in Others \/ hs \in Tunnels \/ hs \in InUdp \/ hs = Marker
  <2>1. SwitchPackets = Untunnelled \union Others \union Tunnels \union InUdp \union {Marker}
    BY DEF SwitchPackets, RunEnd
  <2> HIDE DEF Untunnelled, Others, Tunnels, InUdp, Marker
  <2> QED
    BY <2>1
<1>7. CASE hs \in Untunnelled
  <2>1. \A dst \in D : dst \in RunEnds
    BY RunValues
  <2> HIDE DEF D
  <2>2. PICK dst \in D, ttl \in 0..2 : hs = << Ip(N3, dst, ttl, 100, Udp(90, 80)) >>
    BY <1>7
  <2>3. OfRun(Ip(N3, dst, ttl, 100, Udp(90, 80)))
    BY <2>1, RunHeader, RunValues
  <2> QED
    BY <1>2, <2>2, <2>3, Zenon
<1>8. CASE hs \in Others
  <2>1. PICK l4 \in Carried : hs = << Ip(N3, UE, 2, 100, l4) >>
    BY <1>8
  <2>2. OfRun(Ip(N3, UE, 2, 100, l4))
    <3>1. l4 \in RunL4s
      BY RunValues
    <3> QED
      BY <3>1, RunHeader, RunValues
  <2> QED
    BY <1>2, <2>1, <2>2, Zenon
<1>9. CASE hs \in Tunnels
  <2>1. PICK outer \in 1..2, ttl \in 0..2, gtp \in Gpdus : hs = TunnelOf(outer, gtp, ttl)
    BY <1>9
  <2> QED
    BY <1>5, <2>1, Zenon DEF TunnelOf
<1>10. CASE hs \in InUdp
  <2> HIDE DEF E
  <2>1. PICK dst \in E, ttl \in 0..2 :
          hs = << Ip(N3, dst, 2, 136, Udp(7, IPV4_IN_UDP)), Ip(N3, UE, ttl, 100, Udp(90, 80)) >>
    BY <1>10
  <2> QED
    BY <1>4, <2>1, Zenon DEF E
<1>11. CASE hs = Marker
  BY <1>3, <1>11, Zenon
<1> HIDE DEF Untunnelled, Others, Tunnels, InUdp, Marker
<1> QED
  BY <1>6, <1>7, <1>8, <1>9, <1>10, <1>11

(* The tables of the switch's runs.                                        *)
LEMMA RunTables ==
  ASSUME Inputs, kind = "switch"
  PROVE  /\ WellSet(env.t) /\ \A e \in env.t.fars : e.key # [fseid |-> 0, farId |-> 0]
         /\ env.hs \in SwitchPackets /\ env.cpu \in BOOLEAN
         /\ env.t.routes = Routes(SwitchInit)
<1>1. PICK pdrs \in SwitchPdrs, fars \in SwitchFars, hs \in SwitchPackets,
           m \in {"N3Mac", "OtherMac"}, c \in BOOLEAN :
        env = [t |-> Tables(SwitchInit, pdrs, fars), hs |-> hs, mac |-> m, cpu |-> c]
  BY DEF Inputs, Passages
<1>2. PICK t : t = Tables(SwitchInit, pdrs, fars)
  OBVIOUS
<1>3. t.fars = fars /\ t.routes = Routes(SwitchInit)
  BY <1>2 DEF Tables, SetupTables
<1>4. env.t = t /\ env.hs \in SwitchPackets /\ env.cpu \in BOOLEAN
  <2>1. env = [t |-> t, hs |-> hs, mac |-> m, cpu |-> c]
    BY <1>1, <1>2
  <2> QED
    BY <2>1
<1> DEFINE F == {1, 2, 4, 5, 8, 13}
           Y == {0, GTPU}
           D == {4, 9}
           C == {"load_normal_far_attributes", "load_tunnel_far_attributes"}
<1>5. SwitchFars = {{[key |-> [fseid |-> 21, farId |-> id], action |-> a,
                      data |-> Tunnel(SwitchInit, flags, type, 8)]} :
                      id \in D, a \in C, flags \in F, type \in Y}
  BY DEF SwitchFars
<1> HIDE DEF F, Y, D, C
<1>6. PICK id \in D, a \in C, flags \in F, type \in Y :
        fars = {[key |-> [fseid |-> 21, farId |-> id], action |-> a,
                 data |-> Tunnel(SwitchInit, flags, type, 8)]}
  BY <1>1, <1>5
<1>7. PICK data : data = Tunnel(SwitchInit, flags, type, 8)
  OBVIOUS
<1>8. data.drop \in BOOLEAN /\ data.buffer \in BOOLEAN /\ data.notify \in BOOLEAN
  <2>1. \A b : IsBitSet(flags, b) \in BOOLEAN
    BY DEF IsBitSet
  <2>2. data.drop = IsBitSet(flags, 1) /\ data.buffer = IsBitSet(flags, 4) /\ data.notify = IsBitSet(flags, 8)
    BY <1>7 DEF Tunnel
  <2> QED
    BY <2>1, <2>2
<1>9. PICK key : key = [fseid |-> 21, farId |-> id]
  OBVIOUS
<1>10. key # [fseid |-> 0, farId |-> 0]
  BY <1>9
<1>11. \A e \in fars : e = [key |-> key, action |-> a, data |-> data]
  BY <1>6, <1>7, <1>9
<1>12. \A e \in fars : e.key = key /\ e.action = a /\ e.data = data
  BY <1>11
<1>13. WellSet(t)
  BY <1>3, <1>8, <1>11, <1>12 DEF WellSet, C
<1> QED
  BY <1>3, <1>4, <1>10, <1>12, <1>13

(* main.p4:270: every packet of the runs is treated as its FAR says.       *)
THEOREM SwitchObeysFarAlways == Spec => []SwitchObeysFar
<1>1. Inputs => SwitchObeysFar
  <2> SUFFICES ASSUME Inputs, kind = "switch"
               PROVE  FarObeyed(env.t, env.mac, env.hs)
    BY DEF SwitchObeysFar
  <2>1. WellSet(env.t) /\ env.hs \in SwitchPackets
    BY RunTables
  <2>2. UePacket(env.hs) \in RunHeaders
    BY <2>1, RunPackets, UeFramed
  <2>3. UePacket(env.hs) \in IpHeaders(Addresses)
    BY <2>2 DEF RunHeaders
  <2> QED
    BY <2>1, <2>3, FarsObeyed
<1> QED
  BY <1>1, InputsInductive, PTL

(* The configured addresses of the switch's runs.                          *)
LEMMA RunAddresses ==
  SwitchInit.N3IPAddr \in Addresses \union {None} /\ SwitchInit.gNBAddr \in Addresses \union {None}
<1> DEFINE cfg == [present |-> Sections, forwarder |-> "p4gtp5g", gnb |-> GNB,
                   ifList |-> <<If("N3", N3), If("N6", N6)>>, dnnList |-> <<Pool(24)>>]
<1>1. SwitchInit.N3IPAddr = IfAddr(cfg, "N3") /\ SwitchInit.gNBAddr = GNB
  BY DEF SwitchInit, InitParameters
<1>2. GNB \in Addresses /\ N3 \in Addresses /\ N6 \in Addresses
  BY DEF Addresses, GNB, N3, N6
<1>3. IfAddr(cfg, "N3") \in {N3, N6, None}
  <2>1. PICK l : l = <<If("N3", N3), If("N6", N6)>>
    OBVIOUS
  <2>2. DOMAIN l = 1..2 /\ l[1] = If("N3", N3) /\ l[2] = If("N6", N6)
    BY <2>1
  <2>3. l[1].addr = N3 /\ l[2].addr = N6 /\ l[1].type = "N3" /\ l[2].type = "N6"
    BY <2>2 DEF If
  <2>4. cfg.ifList = l
    BY <2>1
  <2> HIDE DEF cfg
  <2>5. PICK ifs : ifs = {k \in DOMAIN l : l[k].type = "N3"}
    OBVIOUS
  <2>6. ifs = {1}
    BY <2>2, <2>3, <2>5
  <2>7. Max(ifs) = 1
    BY <2>6 DEF Max
  <2>8. IfAddr(cfg, "N3") = IF ifs = {} THEN None ELSE l[Max(ifs)].addr
    BY <2>4, <2>5 DEF IfAddr
  <2> QED
    BY <2>3, <2>6, <2>7, <2>8
<1> QED
  BY <1>1, <1>2, <1>3

(* main.p4:196, :334, :455: every packet of the runs that is forwarded     *)
(* arrives whole.                                                          *)
THEOREM SwitchForwardsWholeAlways == Spec => []SwitchForwardsWhole
<1>1. Inputs => SwitchForwardsWhole
  <2> SUFFICES ASSUME Inputs, kind = "switch"
               PROVE  /\ TunnelledWhole(env.t, env.mac, env.hs)
                      /\ DecapsulatedWhole(env.t, env.mac, env.hs)
                      /\ Unprocessed(env.t, env.cpu, env.mac, env.hs)
    BY DEF SwitchForwardsWhole
  <2>1. /\ \A e \in env.t.fars : e.key # [fseid |-> 0, farId |-> 0]
        /\ env.hs \in SwitchPackets /\ env.cpu \in BOOLEAN
        /\ env.t.routes = Routes(SwitchInit)
    BY RunTables
  <2>2. Framed(RunPayload, RunHeaders, env.hs)
    BY <2>1, RunPackets
  <2>3. UePacket(env.hs) \in RunHeaders
    BY <2>2, UeFramed
  <2>4. RunHeaders \in SUBSET IpHeaders(Addresses) /\ Fits(UePacket(env.hs))
    BY <2>3 DEF RunHeaders
  <2>5. UePacket(env.hs).dst \in Addresses
    BY <2>3, <2>4 DEF IpHeaders
  <2>6. \A d, e \in Lookup(env.t.routes, UePacket(env.hs).dst) : d.port = e.port
    <3>1. \A d, e \in Lookup(Routes(SwitchInit), UePacket(env.hs).dst) : d.port = e.port
      BY <2>5, RunAddresses, OnePort
    <3> QED
      BY <2>1, <3>1
  <2>7. TunnelledWhole(env.t, env.mac, env.hs)
    BY <2>2, <2>4, TunnelsWhole
  <2>8. DecapsulatedWhole(env.t, env.mac, env.hs)
    BY <2>2, <2>4, <2>6, DecapsulatesWhole
  <2>9. Unprocessed(env.t, env.cpu, env.mac, env.hs)
    BY <2>1, <2>2, <2>4, OthersWhole
  <2> QED
    BY <2>7, <2>8, <2>9
<1> QED
  BY <1>1, InputsInductive, PTL

-----------------------------------------------------------------------------
(* The messages of the runs: the fields of a header, with the bytes so far.*)
MessageOf(h, b) ==
  [Payload |-> b, Flags |-> h.Flags, Type |-> h.Type, TEID |-> h.TEID,
   SequenceNumber |-> h.SequenceNumber, NPDUNumber |-> h.NPDUNumber, Exts |-> h.Exts]
HeaderOK(h) ==
  /\ h.Flags \in Byte /\ h.Type \in Byte /\ h.NPDUNumber \in Byte
  /\ h.TEID \in {b \in Seq(Byte) : Len(b) = 4}
  /\ h.SequenceNumber \in {b \in Seq(Byte) : Len(b) = 2}
  /\ h.Exts \in Seq([PDUType : 0..15, QoSFlowID : Byte]) /\ Len(h.Exts) <= 2

(* Every header of the runs is one.                                        *)
LEMMA HeadersOK == \A h \in Headers : HeaderOK(h)
<1> DEFINE T == <<0, 1, 2, 3>>
           Q == <<9, 8>>
           X == {<<>>, << [PDUType |-> 0, QoSFlowID |-> 9] >>,
                 << [PDUType |-> 1, QoSFlowID |-> 15], [PDUType |-> 0, QoSFlowID |-> 20] >>,
                 << [PDUType |-> 1, QoSFlowID |-> 1], [PDUType |-> 0, QoSFlowID |-> 2] >>}
           F == 0..7
<1>1. Headers = {[Flags |-> 48 + f, Type |-> MsgTypeTPDU, TEID |-> T, SequenceNumber |-> Q,
                  NPDUNumber |-> 7, Exts |-> x] : f \in F, x \in X}
  BY DEF Headers
<1>2. /\ T \in {b \in Seq(Byte) : Len(b) = 4} /\ Q \in {b \in Seq(Byte) : Len(b) = 2}
      /\ \A f \in F : 48 + f \in Byte
      /\ MsgTypeTPDU \in Byte /\ 7 \in Byte
  BY DEF Byte, MsgTypeTPDU
<1>3. \A x \in X : x \in Seq([PDUType : 0..15, QoSFlowID : Byte]) /\ Len(x) <= 2
  <2>1. \A p \in 0..1, q \in 0..20 : [PDUType |-> p, QoSFlowID |-> q] \in [PDUType : 0..15, QoSFlowID : Byte]
    BY DEF Byte
  <2>2. PICK a, b, c, d, e :
          /\ a = [PDUType |-> 0, QoSFlowID |-> 9] /\ b = [PDUType |-> 1, QoSFlowID |-> 15]
          /\ c = [PDUType |-> 0, QoSFlowID |-> 20] /\ d = [PDUType |-> 1, QoSFlowID |-> 1]
          /\ e = [PDUType |-> 0, QoSFlowID |-> 2]
    OBVIOUS
  <2>3. PICK E : E = [PDUType : 0..15, QoSFlowID : Byte]
    OBVIOUS
  <2>4. a \in E /\ b \in E /\ c \in E /\ d \in E /\ e \in E
    BY <2>1, <2>2, <2>3
  <2>5. X = {<<>>, <<a>>, <<b, c>>, <<d, e>>}
    BY <2>2, Zenon
  <2>6. /\ <<>> \in Seq(E) /\ <<a>> \in Seq(E) /\ <<b, c>> \in Seq(E) /\ <<d, e>> \in Seq(E)
        /\ Len(<<>>) <= 2 /\ Len(<<a>>) <= 2 /\ Len(<<b, c>>) <= 2 /\ Len(<<d, e>>) <= 2
    BY <2>4
  <2> QED
    BY <2>3, <2>5, <2>6, Zenon
<1> HIDE DEF T, Q, X, F
<1>4. ASSUME NEW h \in Headers
      PROVE  HeaderOK(h)
  <2>1. PICK f \in F, x \in X :
          h = [Flags |-> 48 + f, Type |-> MsgTypeTPDU, TEID |-> T, SequenceNumber |-> Q,
               NPDUNumber |-> 7, Exts |-> x]
    BY <1>1
  <2>2. /\ h.Flags = 48 + f /\ h.Type = MsgTypeTPDU /\ h.TEID = T /\ h.SequenceNumber = Q
        /\ h.NPDUNumber = 7 /\ h.Exts = x
    BY <2>1
  <2> QED
    BY <1>2, <1>3, <2>2, Zenon DEF HeaderOK
<1> QED
  BY <1>4

(* With the bytes of the runs it makes a message whose length can be said. *)
LEMMA MessageFits ==
  ASSUME NEW h, HeaderOK(h), NEW b \in Seq(Byte), Len(b) <= MaxBytes
  PROVE  MessageOf(h, b) \in Message /\ LengthSaid(MessageOf(h, b))
<1> DEFINE m == MessageOf(h, b)
<1>1. m \in Message
  BY DEF HeaderOK, MessageOf, Message
<1>2. m.Exts = h.Exts /\ m.Payload = b
  BY DEF MessageOf
<1> HIDE DEF m
<1>3. Align(FieldsEnd(m)) \in {11}
  BY DEF FieldsEnd, Align
<1>4. Len(m.Exts) \in Nat /\ Len(m.Exts) <= 2 /\ Len(m.Payload) \in Nat /\ Len(m.Payload) <= MaxBytes
  BY <1>2 DEF HeaderOK
<1>5. MessageLen(m) = 11 + 4 * Len(m.Exts) + 1 + Len(m.Payload)
  BY <1>3 DEF MessageLen, ExtLen
<1>6. LengthSaid(m)
  <2>1. PICK n, l : n = Len(m.Exts) /\ l = Len(m.Payload)
    OBVIOUS
  <2>2. n \in Nat /\ n <= 2 /\ l \in Nat /\ l <= MaxBytes
    BY <1>4, <2>1, Zenon
  <2>3. SaidWith(n, l)
    BY <2>2, MaxBytesFit
  <2>4. MessageLen(m) = 11 + 4 * n + 1 + l
    BY <1>5, <2>1, Zenon
  <2> QED
    BY <2>2, <2>3, <2>4, HeaderSaid, Zenon
<1> QED
  BY <1>1, <1>6 DEF m

(* The FAR and the QER of a queued packet.                                 *)
LEMMA LeavesOK ==
  \A l \in Leaves : /\ l.far.Creation = <<>> \/ l.far.Creation[1].TEID \in TunnelID
                    /\ l.qer \in Seq([QFI : Byte]) /\ Len(l.qer) <= 1
<1> DEFINE P == << [TEID |-> <<0, 0, 1, 0>>, PeerAddr |-> GNB, Port |-> 2152] >>
           C == {<<>>, P}
           Q == {<<>>, << [QFI |-> 9] >>, << [QFI |-> 25] >>}
<1>1. Leaves = {[far |-> [Creation |-> c], qer |-> q] : c \in C, q \in Q}
  BY DEF Leaves
<1>2. P[1].TEID \in TunnelID
  <2>1. <<0, 0, 1, 0>> \in TunnelID
    BY DEF TunnelID, Byte
  <2>2. P[1].TEID = <<0, 0, 1, 0>>
    OBVIOUS
  <2> QED
    BY <2>1, <2>2, Zenon
<1>3. \A q \in Q : q \in Seq([QFI : Byte]) /\ Len(q) <= 1
  <2>1. PICK a, b, E : a = [QFI |-> 9] /\ b = [QFI |-> 25] /\ E = [QFI : Byte]
    OBVIOUS
  <2>2. a \in E /\ b \in E
    BY <2>1 DEF Byte
  <2>3. Q = {<<>>, <<a>>, <<b>>}
    BY <2>1, Zenon
  <2>4. /\ <<>> \in Seq(E) /\ <<a>> \in Seq(E) /\ <<b>> \in Seq(E)
        /\ Len(<<>>) <= 1 /\ Len(<<a>>) <= 1 /\ Len(<<b>>) <= 1
    BY <2>2
  <2> QED
    BY <2>1, <2>3, <2>4, Zenon
<1>4. \A c \in C : c = <<>> \/ c = P
  OBVIOUS
<1> HIDE DEF P, C, Q
<1>5. ASSUME NEW l \in Leaves
      PROVE  /\ l.far.Creation = <<>> \/ l.far.Creation[1].TEID \in TunnelID
             /\ l.qer \in Seq([QFI : Byte]) /\ Len(l.qer) <= 1
  <2>1. PICK c \in C, q \in Q : l = [far |-> [Creation |-> c], qer |-> q]
    BY <1>1
  <2>2. l.far.Creation = c /\ l.qer = q
    BY <2>1
  <2> QED
    BY <1>2, <1>3, <1>4, <2>2, Zenon
<1> QED
  BY <1>5

(* msg.go:52, gtp5g.go:1237: a receiver reads what was encoded, and a      *)
(* packet that leaves a queue arrives whole.                               *)
THEOREM MessagesReadAlways == Spec => []MessagesRead
<1>1. ASSUME Inputs, kind = "message"
      PROVE  ReceiverReads(MessageOf(env, parts))
  <2>1. HeaderOK(env) /\ parts \in Seq(Byte) /\ Len(parts) <= MaxBytes
    BY <1>1, HeadersOK DEF Inputs
  <2> QED
    BY <2>1, MessageFits, EncodedIsRead
<1>2. ASSUME Inputs, kind = "packet"
      PROVE  PacketArrives(env.far, env.qer, parts)
  <2>1. env \in Leaves /\ parts \in Seq(Byte) /\ Len(parts) <= MaxBytes
    BY <1>2 DEF Inputs
  <2>2. /\ env.far.Creation = <<>> \/ env.far.Creation[1].TEID \in TunnelID
        /\ env.qer \in Seq([QFI : Byte]) /\ Len(env.qer) <= 1
    BY <2>1, LeavesOK
  <2>3. QueuedFits(env.qer, parts)
    <3>1. PICK n, l : n = Len(env.qer) /\ l = Len(parts)
      OBVIOUS
    <3>2. n \in Nat /\ n <= 1 /\ l \in Nat /\ l <= MaxBytes
      BY <2>1, <2>2, <3>1, LenNat, Zenon
    <3>3. SaidWith(n, l)
      BY <3>2, MaxBytesFit
    <3> QED
      BY <3>1, <3>3, QueuedSaid, Zenon
  <2> QED
    BY <2>1, <2>2, <2>3, QueuedArrives
<1>3. Inputs => MessagesRead
  BY <1>1, <1>2, Zenon DEF MessagesRead, MessageOf
<1> QED
  BY <1>3, InputsInductive, PTL

(* flowdesc.go:38, gtp5g.go:165: of the grammar the parser refuses 'deny'  *)
(* and 'assigned' and nothing else; a second range of ports stops the      *)
(* driver, a single number for a range makes it write too far.             *)
THEOREM FlowDescAcceptedAlways == Spec => []FlowDescAccepted
<1>1. Inputs => FlowDescAccepted
  <2> SUFFICES ASSUME Inputs, kind = "flow"
               PROVE  FlowParsed(parts) /\ OneRangeIsSafe(parts)
    BY DEF FlowDescAccepted
  <2>1. parts \in Seq(FlowWord)
    BY DEF Inputs
  <2> QED
    BY <2>1, FlowsParsed, OneRangeSafe DEF FlowWord
<1> QED
  BY <1>1, InputsInductive, PTL

-----------------------------------------------------------------------------
(* The P4 driver's four loops over IEs, by name: of PDIs, of forwarding    *)
(* parameters, of PDRs and of FARs.                                        *)
Taken(l, acc, i) ==
  CASE l[1] = "pdi" -> PdiTake(acc, i)
    [] l[1] = "pdr" -> PdrTake(l[2], l[3], acc, i)
    [] l[1] = "far" -> FarTake(l[2], acc, i)
Walked4(l, start, ies, n, p) ==
  p = [k \in 0..n |-> IF k = 0 THEN start ELSE Taken(l, p[k - 1], ies[k])]

(* Each comes to the end of its IEs.                                       *)
LEMMA LoopEnds ==
  ASSUME NEW l, NEW start, NEW ies, NEW n \in Nat
  PROVE  \E p : Walked4(l, start, ies, n, p)
<1> DEFINE T == {m \in Nat : \E p : Walked4(l, start, ies, m, p)}
<1>1. 0 \in T
  <2>1. Walked4(l, start, ies, 0, [k \in 0..0 |-> start])
    BY DEF Walked4
  <2> QED
    BY <2>1
<1>2. ASSUME NEW m \in 0..(n - 1), m \in T
      PROVE  m + 1 \in T
  <2>1. PICK p : Walked4(l, start, ies, m, p)
    BY <1>2
  <2> DEFINE q == [k \in 0..(m + 1) |-> IF k = m + 1 THEN Taken(l, p[m], ies[m + 1]) ELSE p[k]]
  <2>2. \A k \in 0..m : q[k] = p[k]
    OBVIOUS
  <2>3. \A k \in 0..(m + 1) : q[k] = IF k = 0 THEN start ELSE Taken(l, q[k - 1], ies[k])
    <3>1. ASSUME NEW k \in 0..m
          PROVE  q[k] = IF k = 0 THEN start ELSE Taken(l, q[k - 1], ies[k])
      <4>1. p[k] = IF k = 0 THEN start ELSE Taken(l, p[k - 1], ies[k])
        BY <2>1 DEF Walked4
      <4> QED
        BY <2>2, <4>1
    <3>2. q[m + 1] = Taken(l, q[(m + 1) - 1], ies[m + 1]) /\ m + 1 # 0
      OBVIOUS
    <3>3. \A k \in 0..(m + 1) : k \in 0..m \/ k = m + 1
      OBVIOUS
    <3> HIDE DEF q
    <3> QED
      BY <3>1, <3>2, <3>3
  <2>4. q = [k \in 0..(m + 1) |-> IF k = 0 THEN start ELSE Taken(l, q[k - 1], ies[k])]
    BY <2>3
  <2>5. Walked4(l, start, ies, m + 1, q) /\ m + 1 \in Nat
    BY <2>4 DEF Walked4
  <2> HIDE DEF q
  <2> QED
    BY <2>5
<1>3. 0..n \subseteq T
  <2> HIDE DEF T
  <2> QED
    BY <1>1, <1>2, UpTo
<1> QED
  BY <1>3

(* The loop of a PDI; *)
LEMMA PdiLoop ==
  ASSUME NEW ies, Len(ies) \in Nat
  PROVE  \E p : /\ p[0] = NoPdi /\ \A k \in 1..Len(ies) : p[k] = PdiTake(p[k - 1], ies[k])
                /\ NewPdi(ies) = p[Len(ies)]
<1> DEFINE n == Len(ies)
           Ends(p) == p = [k \in 0..n |-> IF k = 0 THEN NoPdi ELSE PdiTake(p[k - 1], ies[k])]
<1>1. \E p : Ends(p)
  <2>1. PICK p : Walked4(<<"pdi">>, NoPdi, ies, n, p)
    BY LoopEnds
  <2>2. \A k : Taken(<<"pdi">>, p[k - 1], ies[k]) = PdiTake(p[k - 1], ies[k])
    BY DEF Taken
  <2>3. Ends(p)
    BY <2>1, <2>2, Zenon DEF Walked4
  <2> QED
    BY <2>3
<1>2. PICK p : p = CHOOSE x : Ends(x)
  OBVIOUS
<1>3. Ends(p) /\ NewPdi(ies) = p[n]
  BY <1>1, <1>2 DEF NewPdi
<1>4. p[0] = NoPdi /\ \A k \in 1..n : p[k] = PdiTake(p[k - 1], ies[k])
  BY <1>3
<1> QED
  BY <1>3, <1>4

(* of a PDR; *)
LEMMA PdrLoopSteps ==
  ASSUME NEW init, NEW s, NEW ies, Len(ies) \in Nat
  PROVE  /\ PdrLoop(init, s, ies)[0] = NoPdr
         /\ \A k \in 1..Len(ies) :
              PdrLoop(init, s, ies)[k] = PdrTake(init, s, PdrLoop(init, s, ies)[k - 1], ies[k])
<1> DEFINE n == Len(ies)
           Ends(p) == p = [k \in 0..n |-> IF k = 0 THEN NoPdr ELSE PdrTake(init, s, p[k - 1], ies[k])]
<1>1. \E p : Ends(p)
  <2>1. PICK p : Walked4(<<"pdr", init, s>>, NoPdr, ies, n, p)
    BY LoopEnds
  <2>2. \A k : Taken(<<"pdr", init, s>>, p[k - 1], ies[k]) = PdrTake(init, s, p[k - 1], ies[k])
    BY DEF Taken
  <2>3. Ends(p)
    BY <2>1, <2>2, Zenon DEF Walked4
  <2> QED
    BY <2>3
<1>2. PICK p : p = CHOOSE x : Ends(x)
  OBVIOUS
<1>3. Ends(p) /\ PdrLoop(init, s, ies) = p
  BY <1>1, <1>2 DEF PdrLoop
<1>4. p[0] = NoPdr /\ \A k \in 1..n : p[k] = PdrTake(init, s, p[k - 1], ies[k])
  BY <1>3
<1> QED
  BY <1>3, <1>4

(* and of a FAR.                                                           *)
LEMMA FarLoopSteps ==
  ASSUME NEW init, NEW ies, Len(ies) \in Nat
  PROVE  /\ FarLoop(init, ies)[0] = NoFarYet
         /\ \A k \in 1..Len(ies) :
              FarLoop(init, ies)[k] = FarTake(init, FarLoop(init, ies)[k - 1], ies[k])
<1> DEFINE n == Len(ies)
           Ends(p) == p = [k \in 0..n |-> IF k = 0 THEN NoFarYet ELSE FarTake(init, p[k - 1], ies[k])]
<1>1. \E p : Ends(p)
  <2>1. PICK p : Walked4(<<"far", init>>, NoFarYet, ies, n, p)
    BY LoopEnds
  <2>2. \A k : Taken(<<"far", init>>, p[k - 1], ies[k]) = FarTake(init, p[k - 1], ies[k])
    BY DEF Taken
  <2>3. Ends(p)
    BY <2>1, <2>2, Zenon DEF Walked4
  <2> QED
    BY <2>3
<1>2. PICK p : p = CHOOSE x : Ends(x)
  OBVIOUS
<1>3. Ends(p) /\ FarLoop(init, ies) = p
  BY <1>1, <1>2 DEF FarLoop
<1>4. p[0] = NoFarYet /\ \A k \in 1..n : p[k] = FarTake(init, p[k - 1], ies[k])
  BY <1>3
<1> QED
  BY <1>3, <1>4

-----------------------------------------------------------------------------
(* Tables of hosts and of networks of 24 bits.  A host is its own network; *)
LEMMA HostIs ==
  ASSUME NEW dst \in Addresses, NEW ip \in Addresses \union {None}
  PROVE  Within(dst, ip, 32) <=> ip = dst
<1>1. \A y \in Addresses : Network(y, 32) = y /\ y # None
  BY DEF Network, Addresses, None
<1>2. ip # None => ip \in Addresses
  OBVIOUS
<1> QED
  BY <1>1, <1>2 DEF Within

(* its entry is the one with the longest prefix;                           *)
HostsAndNets(R) == \A y \in R : y.len = 24 \/ (y.len = 32 /\ y.ip \in Addresses \union {None})
LEMMA HostFound ==
  ASSUME NEW R, HostsAndNets(R), NEW x \in R, NEW dst \in Addresses, x.ip = dst, x.len = 32,
         \A y \in R : y.len = 32 /\ y.ip = dst => y = x
  PROVE  Lookup(R, dst) = {x.data}
<1> DEFINE H == Hits(R, dst)
<1>1. x \in H
  BY HostIs DEF Hits
<1>2. \A y \in H : y \in R /\ Within(dst, y.ip, y.len)
  BY DEF Hits
<1>3. \A y \in H : y = x \/ y.len = 24
  BY <1>2, HostIs DEF HostsAndNets
<1>4. \A y \in H : y.len <= x.len
  BY <1>3
<1> HIDE DEF H
<1>5. \A f \in H : (\A d \in H : d.len <= f.len) <=> f = x
  BY <1>1, <1>3, <1>4
<1>6. {f \in H : \A d \in H : d.len <= f.len} = {x}
  BY <1>1, <1>5, Zenon
<1>7. Lookup(R, dst) = {e.data : e \in {f \in H : \A d \in H : d.len <= f.len}}
  BY Zenon DEF Lookup, H
<1> QED
  BY <1>6, <1>7

(* without one, that of its network.                                       *)
LEMMA NetFound ==
  ASSUME NEW R, HostsAndNets(R), NEW x \in R, NEW dst \in Addresses, x.len = 24, Within(dst, x.ip, 24),
         \A y \in R : y.len = 24 => y = x, \A y \in R : y.len = 32 => y.ip # dst
  PROVE  Lookup(R, dst) = {x.data}
<1> DEFINE H == Hits(R, dst)
<1>1. x \in H
  BY DEF Hits
<1>2. \A y \in H : y \in R /\ Within(dst, y.ip, y.len)
  BY DEF Hits
<1>3. \A y \in H : y = x
  BY <1>2, HostIs DEF HostsAndNets
<1> HIDE DEF H
<1>4. H = {x}
  BY <1>1, <1>3
<1>5. {f \in H : \A d \in H : d.len <= f.len} = {x}
  BY <1>4
<1>7. Lookup(R, dst) = {e.data : e \in {f \in H : \A d \in H : d.len <= f.len}}
  BY Zenon DEF Lookup, H
<1> QED
  BY <1>5, <1>7

(* What is not within an entry is not found.                               *)
LEMMA FoundWithin ==
  ASSUME NEW R, NEW dst, NEW d \in Lookup(R, dst)
  PROVE  \E x \in R : d = x.data /\ Within(dst, x.ip, x.len)
  BY DEF Lookup, Hits

(* A table of three entries has the first of each prefix.                  *)
Prefix(x) == <<x.ip, x.len>>
LEMMA FilledThree ==
  ASSUME NEW es, DOMAIN es = 1..3
  PROVE  /\ Fill(es) \subseteq {es[1], es[2], es[3]} /\ es[1] \in Fill(es)
         /\ Prefix(es[2]) # Prefix(es[1]) => es[2] \in Fill(es)
         /\ Prefix(es[3]) # Prefix(es[1]) /\ Prefix(es[3]) # Prefix(es[2]) => es[3] \in Fill(es)
         /\ \A x, y \in Fill(es) : Prefix(x) = Prefix(y) => x = y
<1>1. \A x : x \in Fill(es) <=> \E k \in 1..3 : /\ x = es[k]
                                               /\ \A i \in 1..(k - 1) : Prefix(es[i]) # Prefix(es[k])
  BY DEF Fill, Prefix
<1>2. Fill(es) \subseteq {es[1], es[2], es[3]}
  BY <1>1
<1>3. es[1] \in Fill(es)
  BY <1>1
<1>4. Prefix(es[2]) # Prefix(es[1]) => es[2] \in Fill(es)
  BY <1>1
<1>5. Prefix(es[3]) # Prefix(es[1]) /\ Prefix(es[3]) # Prefix(es[2]) => es[3] \in Fill(es)
  BY <1>1
<1>6. ASSUME NEW x \in Fill(es), NEW y \in Fill(es), Prefix(x) = Prefix(y)
      PROVE  x = y
  <2>1. PICK j \in 1..3 : x = es[j] /\ \A i \in 1..(j - 1) : Prefix(es[i]) # Prefix(es[j])
    BY <1>1
  <2>2. PICK k \in 1..3 : y = es[k] /\ \A i \in 1..(k - 1) : Prefix(es[i]) # Prefix(es[k])
    BY <1>1
  <2>3. j = k
    <3>1. j < k => j \in 1..(k - 1)
      OBVIOUS
    <3>2. k < j => k \in 1..(j - 1)
      OBVIOUS
    <3> QED
      BY <1>6, <2>1, <2>2, <3>1, <3>2
  <2> QED
    BY <2>1, <2>2, <2>3
<1> QED
  BY <1>2, <1>3, <1>4, <1>5, <1>6

(* p4gtp5g.go:216: the gNB's route is its own, whatever else is configured.*)
GnbRoute == [src |-> "N3Mac", dst |-> "gNBMac", port |-> 65]
LEMMA GnbRouted ==
  ASSUME NEW init, init.N3IPAddr \in Addresses \union {None}, init.gNBAddr \in Addresses,
         init.gNBAddr # init.N3IPAddr
  PROVE  Lookup(Routes(init), init.gNBAddr) = {GnbRoute}
<1>1. PICK a1, a2, a3 :
        /\ a1 = Entry(init.N3IPAddr, 32, [src |-> "N6Mac", dst |-> "DNNMac", port |-> 64])
        /\ a2 = Entry(init.gNBAddr, 32, [src |-> "N3Mac", dst |-> "gNBMac", port |-> 65])
        /\ a3 = Entry(init.UEIPNet, 24, [src |-> "N3Mac", dst |-> "gNBMac", port |-> 65])
  OBVIOUS
<1>2. /\ a1.ip = init.N3IPAddr /\ a1.len = 32
      /\ a2.ip = init.gNBAddr /\ a2.len = 32 /\ a2.data = GnbRoute /\ a3.len = 24
  BY <1>1 DEF Entry, GnbRoute
<1>3. PICK es : es = <<a1, a2, a3>>
  OBVIOUS
<1>4. DOMAIN es = 1..3 /\ es[1] = a1 /\ es[2] = a2 /\ es[3] = a3
  BY <1>3
<1>5. Routes(init) = Fill(es)
  BY <1>1, <1>3, Zenon DEF Routes
<1>6. Prefix(a2) # Prefix(a1)
  BY <1>2 DEF Prefix
<1>7. PICK R : R = Routes(init)
  OBVIOUS
<1>8. a2 \in R /\ R \subseteq {a1, a2, a3}
  BY <1>4, <1>5, <1>6, <1>7, FilledThree
<1>9. HostsAndNets(R) /\ \A y \in R : y.len = 32 /\ y.ip = init.gNBAddr => y = a2
  BY <1>2, <1>8 DEF HostsAndNets
<1>10. Lookup(R, init.gNBAddr) = {a2.data}
  BY <1>2, <1>8, <1>9, HostFound
<1> QED
  BY <1>2, <1>7, <1>10

(* driver.go:130: where a packet comes from, by its outermost destination: *)
(* the address of N3, or another of the UE pool.                           *)
FromAccess == [iface |-> ACCESS, direction |-> UPLINK]
FromCore == [iface |-> CORE, direction |-> DOWNLINK]
SourceRows(init, R, a1, a2, a3) ==
  /\ R = SourceIface(init) /\ HostsAndNets(R) /\ R \subseteq {a1, a2, a3} /\ a1 \in R /\ a3 \in R
  /\ \A x, y \in R : Prefix(x) = Prefix(y) => x = y
  /\ a1.ip = init.N3IPAddr /\ a1.len = 32 /\ a1.data = FromAccess
  /\ a2.ip = init.N6IPAddr /\ a2.len = 32 /\ a2.data = FromCore
  /\ a3.ip = init.UEIPNet /\ a3.len = 24 /\ a3.data = FromCore
LEMMA SourceTable ==
  ASSUME NEW init, init.N3IPAddr \in Addresses \union {None}, init.N6IPAddr \in Addresses \union {None}
  PROVE  \E R, a1, a2, a3 : SourceRows(init, R, a1, a2, a3)
<1>1. PICK a1, a2, a3 :
        /\ a1 = Entry(init.N3IPAddr, 32, [iface |-> ACCESS, direction |-> UPLINK])
        /\ a2 = Entry(init.N6IPAddr, 32, [iface |-> CORE, direction |-> DOWNLINK])
        /\ a3 = Entry(init.UEIPNet, 24, [iface |-> CORE, direction |-> DOWNLINK])
  OBVIOUS
<1>2. /\ a1.ip = init.N3IPAddr /\ a1.len = 32 /\ a1.data = FromAccess
      /\ a2.ip = init.N6IPAddr /\ a2.len = 32 /\ a2.data = FromCore
      /\ a3.ip = init.UEIPNet /\ a3.len = 24 /\ a3.data = FromCore
  BY <1>1 DEF Entry, FromAccess, FromCore
<1>3. PICK es : es = <<a1, a2, a3>>
  OBVIOUS
<1>4. DOMAIN es = 1..3 /\ es[1] = a1 /\ es[2] = a2 /\ es[3] = a3
  BY <1>3
<1>5. PICK R : R = SourceIface(init)
  OBVIOUS
<1>6. R = Fill(es)
  BY <1>1, <1>3, <1>5, Zenon DEF SourceIface
<1>7. Prefix(a3) # Prefix(a1) /\ Prefix(a3) # Prefix(a2)
  BY <1>2 DEF Prefix
<1>8. a1 \in R /\ a3 \in R /\ R \subseteq {a1, a2, a3} /\ \A x, y \in R : Prefix(x) = Prefix(y) => x = y
  BY <1>4, <1>6, <1>7, FilledThree
<1>9. HostsAndNets(R)
  BY <1>2, <1>8 DEF HostsAndNets
<1>10. SourceRows(init, R, a1, a2, a3)
  BY <1>2, <1>5, <1>8, <1>9, Zenon DEF SourceRows
<1> QED
  BY <1>10

(* From N3,                                                                *)
LEMMA AccessFound ==
  ASSUME NEW init, init.N3IPAddr \in Addresses, init.N6IPAddr \in Addresses \union {None}
  PROVE  Lookup(SourceIface(init), init.N3IPAddr) = {FromAccess}
<1>0. PICK R, a1, a2, a3 : SourceRows(init, R, a1, a2, a3)
  BY SourceTable
<1>1. /\ R = SourceIface(init) /\ HostsAndNets(R) /\ R \subseteq {a1, a2, a3} /\ a1 \in R /\ a3 \in R
      /\ \A x, y \in R : Prefix(x) = Prefix(y) => x = y
      /\ a1.ip = init.N3IPAddr /\ a1.len = 32 /\ a1.data = FromAccess
      /\ a2.ip = init.N6IPAddr /\ a2.len = 32 /\ a2.data = FromCore
      /\ a3.ip = init.UEIPNet /\ a3.len = 24 /\ a3.data = FromCore
  BY <1>0 DEF SourceRows
<1>2. \A y \in R : y.len = 32 /\ y.ip = init.N3IPAddr => y = a1
  BY <1>1 DEF Prefix
<1>3. Lookup(R, init.N3IPAddr) = {a1.data}
  BY <1>1, <1>2, HostFound
<1> QED
  BY <1>1, <1>3

(* from the data network to a UE of the pool,                              *)
LEMMA CoreFound ==
  ASSUME NEW init, init.N3IPAddr \in Addresses \union {None}, init.N6IPAddr \in Addresses \union {None},
         NEW ue \in Addresses, ue # init.N3IPAddr, ue # init.N6IPAddr, Within(ue, init.UEIPNet, 24)
  PROVE  Lookup(SourceIface(init), ue) = {FromCore}
<1>0. PICK R, a1, a2, a3 : SourceRows(init, R, a1, a2, a3)
  BY SourceTable
<1>1. /\ R = SourceIface(init) /\ HostsAndNets(R) /\ R \subseteq {a1, a2, a3} /\ a1 \in R /\ a3 \in R
      /\ \A x, y \in R : Prefix(x) = Prefix(y) => x = y
      /\ a1.ip = init.N3IPAddr /\ a1.len = 32 /\ a1.data = FromAccess
      /\ a2.ip = init.N6IPAddr /\ a2.len = 32 /\ a2.data = FromCore
      /\ a3.ip = init.UEIPNet /\ a3.len = 24 /\ a3.data = FromCore
  BY <1>0 DEF SourceRows
<1>2. (\A y \in R : y.len = 24 => y = a3) /\ (\A y \in R : y.len = 32 => y.ip # ue)
  BY <1>1
<1>3. Lookup(R, ue) = {a3.data}
  BY <1>1, <1>2, NetFound
<1> QED
  BY <1>1, <1>3

(* or from nowhere else.                                                   *)
LEMMA SourcesTwo ==
  ASSUME NEW init, init.N3IPAddr \in Addresses \union {None}, init.N6IPAddr \in Addresses \union {None},
         NEW dst, NEW d \in Lookup(SourceIface(init), dst)
  PROVE  /\ d = FromCore \/ (d = FromAccess /\ dst = init.N3IPAddr) \/ dst \notin Addresses
         /\ d = FromCore \/ d = FromAccess
<1>0. PICK R, a1, a2, a3 : SourceRows(init, R, a1, a2, a3)
  BY SourceTable
<1>1. /\ R = SourceIface(init) /\ HostsAndNets(R) /\ R \subseteq {a1, a2, a3} /\ a1 \in R /\ a3 \in R
      /\ \A x, y \in R : Prefix(x) = Prefix(y) => x = y
      /\ a1.ip = init.N3IPAddr /\ a1.len = 32 /\ a1.data = FromAccess
      /\ a2.ip = init.N6IPAddr /\ a2.len = 32 /\ a2.data = FromCore
      /\ a3.ip = init.UEIPNet /\ a3.len = 24 /\ a3.data = FromCore
  BY <1>0 DEF SourceRows
<1>2. PICK x \in R : d = x.data /\ Within(dst, x.ip, x.len)
  BY <1>1, FoundWithin
<1>3. x \in {a1, a2, a3}
  BY <1>1
<1>4. x = a1 /\ dst \in Addresses => dst = init.N3IPAddr
  BY <1>1, <1>2, HostIs
<1> QED
  BY <1>1, <1>2, <1>3, <1>4

-----------------------------------------------------------------------------
(* What the switch sees of a packet from a UE,                             *)
Told(from) == IF from = {} THEN [iface |-> UNKNOWN, direction |-> UNKNOWN] ELSE CHOOSE d \in from : TRUE
Source(init, dst) == Told(Lookup(SourceIface(init), dst))
SeenAs(s, f, src, dst, p) ==
  /\ s.iface = f.iface
  /\ f.direction = UPLINK => s.ue = src /\ s.inet = dst /\ s.uePort = p[2] /\ s.inetPort = p[3]
  /\ f.direction = DOWNLINK => s.ue = dst /\ s.inet = src /\ s.uePort = p[3] /\ s.inetPort = p[2]
PortsOf(o, i) == IF o # <<>> /\ i.l4[1] \notin {"udp", "tcp"} THEN o[1].l4 ELSE i.l4
LEMMA HeadersSeen ==
  ASSUME NEW t, NEW hs, NEW o, NEW g, NEW op, NEW ps, NEW i, NEW r, NEW f,
         Normalize(Parse(hs)) = Hdr(o, g, op, ps, i, <<>>, r),
         f = Told(Lookup(t.source_iface, hs[1][2].dst))
  PROVE  /\ SeenAs(Seen(t, hs), f, i.src, i.dst, PortsOf(o, i))
         /\ Seen(t, hs).outer = IF o = <<>> THEN None ELSE o[1].dst
         /\ Seen(t, hs).teid = IF g = <<>> THEN NoTEID ELSE g[1].teid
<1>1. PICK h : h = Normalize(Parse(hs))
  OBVIOUS
<1>2. h.outer = o /\ h.gtpu = g /\ h.ip = i
  BY <1>1 DEF Hdr
<1>8. PICK p : p = L4Ports(h)
  OBVIOUS
<1>9. p = PortsOf(o, i)
  BY <1>2, <1>8, Zenon DEF L4Ports, PortsOf
<1>3. Seen(t, hs) =
        [iface |-> f.iface,
         outer |-> IF h.outer = <<>> THEN None ELSE h.outer[1].dst,
         teid  |-> IF h.gtpu = <<>> THEN NoTEID ELSE h.gtpu[1].teid,
         ue    |-> CASE f.direction = UPLINK -> h.ip.src
                     [] f.direction = DOWNLINK -> h.ip.dst
                     [] OTHER -> None,
         inet  |-> CASE f.direction = UPLINK -> h.ip.dst
                     [] f.direction = DOWNLINK -> h.ip.src
                     [] OTHER -> None,
         uePort   |-> CASE f.direction = UPLINK -> p[2] [] f.direction = DOWNLINK -> p[3] [] OTHER -> 0,
         inetPort |-> CASE f.direction = UPLINK -> p[3] [] f.direction = DOWNLINK -> p[2] [] OTHER -> 0]
  <2>1. PICK from : from = Lookup(t.source_iface, hs[1][2].dst)
    OBVIOUS
  <2>2. f = IF from = {} THEN [iface |-> UNKNOWN, direction |-> UNKNOWN] ELSE CHOOSE d \in from : TRUE
    <3>1. f = Told(from)
      BY <2>1
    <3> QED
      BY <3>1 DEF Told
  <2> QED
    BY <1>1, <1>8, <2>1, <2>2, Zenon DEF Seen
<1>4. UPLINK # DOWNLINK
  BY DEF UPLINK, DOWNLINK
<1>5. /\ Seen(t, hs).iface = f.iface
      /\ Seen(t, hs).outer = IF o = <<>> THEN None ELSE o[1].dst
      /\ Seen(t, hs).teid = IF g = <<>> THEN NoTEID ELSE g[1].teid
  BY <1>2, <1>3
<1>6. f.direction = UPLINK => /\ Seen(t, hs).ue = i.src /\ Seen(t, hs).inet = i.dst
                              /\ Seen(t, hs).uePort = p[2] /\ Seen(t, hs).inetPort = p[3]
  BY <1>2, <1>3, <1>4
<1>7. f.direction = DOWNLINK => /\ Seen(t, hs).ue = i.dst /\ Seen(t, hs).inet = i.src
                                /\ Seen(t, hs).uePort = p[3] /\ Seen(t, hs).inetPort = p[2]
  BY <1>2, <1>3, <1>4
<1>10. SeenAs(Seen(t, hs), f, i.src, i.dst, p)
  BY <1>5, <1>6, <1>7, Zenon DEF SeenAs
<1> QED
  BY <1>5, <1>9, <1>10, Zenon

(* of a packet through a tunnel                                            *)
TunnelPorts(l4) == IF l4[1] \in {"udp", "tcp"} THEN l4 ELSE Udp(GTP_GPDU, GTP_GPDU)
LEMMA UplinkSeen ==
  ASSUME NEW init, NEW addr, NEW teid, NEW ue, NEW l4, NEW s,
         s = Seen(Tables(init, {}, {}), UplinkPacket(init, addr, teid, ue, l4))
  PROVE  /\ SeenAs(s, Source(init, addr), ue, init.N3IPAddr, TunnelPorts(l4))
         /\ s.outer = addr /\ s.teid = teid
<1>0. PICK ports : ports = Udp(GTP_GPDU, GTP_GPDU)
  OBVIOUS
<1>1. PICK i, g, u : /\ i = Ip(init.gNBAddr, addr, 64, 136, ports)[2] /\ g = Gtpu("GPDU", FALSE, teid, 100)[2]
                     /\ u = Ip(ue, init.N3IPAddr, 64, 100, l4)[2]
  OBVIOUS
<1>2. PICK hs : hs = UplinkPacket(init, addr, teid, ue, l4)
  OBVIOUS
<1>3. hs = << <<"ip", i>>, <<"gtpu", g>>, <<"ip", u>> >>
  BY <1>0, <1>1, <1>2 DEF UplinkPacket, Ip, Gtpu
<1>4. \A a, b, c : <<a, b, c>> \o <<>> = <<a, b, c>>
  OBVIOUS
<1>5. hs = WireTunnel(i, g, u, <<>>)
  BY <1>3, <1>4, Zenon DEF WireTunnel
<1>6. /\ i.dst = addr /\ g.teid = teid /\ u.src = ue /\ u.dst = init.N3IPAddr
      /\ i.l4 = ports /\ u.l4 = l4
  BY <1>1 DEF Ip, Gtpu
<1>17. ToGtp(i)
  BY <1>0, <1>6 DEF ToGtp, UdpTo, Udp
<1>7. g.msg = "GPDU" /\ ~g.flagged
  BY <1>1, Zenon DEF Gtpu
<1>8. Parse(hs) = Hdr(<<>>, <<g>>, <<>>, <<>>, i, <<u>>, <<>>)
  <2>1. PICK S, r : r = <<>> /\ r \in Seq(S)
    BY <<>> \in Seq({})
  <2>2. Parse(WireTunnel(i, g, u, r)) = Hdr(<<>>, <<g>>, <<>>, <<>>, i, <<u>>, r)
    <3>1. r \in Seq(S)
      BY <2>1
    <3> QED
      BY <1>7, <1>17, <3>1, ParsedTunnel
  <2> QED
    BY <1>5, <2>1, <2>2, Zenon
<1>9. Normalize(Parse(hs)) = Hdr(<<i>>, <<g>>, <<>>, <<>>, u, <<>>, <<>>)
  <2>1. PICK n : n = <<u>>
    OBVIOUS
  <2>2. n # <<>> /\ n[1] = u
    BY <2>1
  <2>3. Normalize(Hdr(<<>>, <<g>>, <<>>, <<>>, i, n, <<>>)) = Hdr(<<i>>, <<g>>, <<>>, <<>>, n[1], <<>>, <<>>)
    BY <2>2, Normalized
  <2> QED
    BY <1>8, <2>1, <2>2, <2>3, Zenon
<1>10. PICK o, q : o = <<i>> /\ q = <<g>>
  OBVIOUS
<1>11. o # <<>> /\ o[1] = i /\ q # <<>> /\ q[1] = g
  BY <1>10
<1>12. PICK t : t = Tables(init, {}, {})
  OBVIOUS
<1>13. t.source_iface = SourceIface(init) /\ hs[1][2].dst = addr
  BY <1>3, <1>6, <1>12 DEF Tables, SetupTables
<1>14. Source(init, addr) = Told(Lookup(t.source_iface, hs[1][2].dst))
  BY <1>13, Zenon DEF Source
<1>15. Normalize(Parse(hs)) = Hdr(o, q, <<>>, <<>>, u, <<>>, <<>>)
  BY <1>9, <1>10, Zenon
<1>16. /\ SeenAs(Seen(t, hs), Source(init, addr), u.src, u.dst, PortsOf(o, u))
       /\ Seen(t, hs).outer = (IF o = <<>> THEN None ELSE o[1].dst)
       /\ Seen(t, hs).teid = (IF q = <<>> THEN NoTEID ELSE q[1].teid)
  BY <1>14, <1>15, HeadersSeen
<1>18. PortsOf(o, u) = TunnelPorts(l4)
  BY <1>0, <1>6, <1>11 DEF PortsOf, TunnelPorts
<1> QED
  BY <1>2, <1>6, <1>11, <1>12, <1>16, <1>18, Zenon

(* and of one to a UE.                                                     *)
LEMMA DownlinkSeen ==
  ASSUME NEW init, NEW ue, NEW l4, NEW s, s = Seen(Tables(init, {}, {}), DownlinkPacket(init, ue, l4))
  PROVE  SeenAs(s, Source(init, ue), init.N3IPAddr, ue, l4)
<1>1. PICK i : i = Ip(init.N3IPAddr, ue, 64, 100, l4)[2]
  OBVIOUS
<1>2. PICK hs : hs = DownlinkPacket(init, ue, l4)
  OBVIOUS
<1>3. hs = << <<"ip", i>> >>
  BY <1>1, <1>2 DEF DownlinkPacket, Ip
<1>4. \A a : <<a>> \o <<>> = <<a>>
  OBVIOUS
<1>5. hs = WirePlain(i, <<>>)
  BY <1>3, <1>4, Zenon DEF WirePlain
<1>6. i.dst = ue /\ i.src = init.N3IPAddr /\ i.l4 = l4
  BY <1>1 DEF Ip
<1>8. Parse(hs) = Hdr(<<>>, <<>>, <<>>, <<>>, i, <<>>, <<>>)
  <2>1. PICK S, r : r = <<>> /\ r \in Seq(S)
    BY <<>> \in Seq({})
  <2>2. Parse(WirePlain(i, r)) = Hdr(<<>>, <<>>, <<>>, <<>>, i, <<>>, r)
    BY <2>1, ParsedPlain
  <2> QED
    BY <1>5, <2>1, <2>2, Zenon
<1>9. Normalize(Parse(hs)) = Hdr(<<>>, <<>>, <<>>, <<>>, i, <<>>, <<>>)
  BY <1>8, Normalized
<1>12. PICK t : t = Tables(init, {}, {})
  OBVIOUS
<1>13. t.source_iface = SourceIface(init) /\ hs[1][2].dst = ue
  BY <1>3, <1>6, <1>12 DEF Tables, SetupTables
<1>14. Source(init, ue) = Told(Lookup(t.source_iface, hs[1][2].dst))
  BY <1>13, Zenon DEF Source
<1>10. PICK o : o = <<>>
  OBVIOUS
<1>16. SeenAs(Seen(t, hs), Source(init, ue), i.src, i.dst, PortsOf(o, i))
  BY <1>9, <1>10, <1>14, HeadersSeen
<1>17. PortsOf(o, i) = l4
  BY <1>6, <1>10 DEF PortsOf
<1> QED
  BY <1>2, <1>6, <1>12, <1>16, <1>17, Zenon

-----------------------------------------------------------------------------
(* What is known of a PDR while its IEs are read.                          *)
Yes == TRUE
No == FALSE
PdrAcc(id, up, key, act, a, q) ==
  [pdrId |-> id, up |-> up, key |-> key, action |-> act, attr |-> a, qos |-> q]
PdrAttr(id, s, f, d) == [pdrId |-> id, fseid |-> s, farId |-> f, decap |-> d]

(* Of what a PDI and its session are written to.                           *)
Begun(x, id, s) == [x EXCEPT !.pdrId = id, !.fseid = s]
With(x, field, v) == [x EXCEPT ![field] = v]
LEMMA AttrsBegun ==
  ASSUME NEW id, NEW s, NEW f, NEW d, NEW v, NEW w
  PROVE  Begun(PdrAttr(id, s, f, d), v, w) = PdrAttr(v, w, f, d)
<1>1. \A x : [x EXCEPT !.pdrId = v, !.fseid = w] = [[x EXCEPT !.pdrId = v] EXCEPT !.fseid = w]
  OBVIOUS
<1>2. [PdrAttr(id, s, f, d) EXCEPT !.pdrId = v] = PdrAttr(v, s, f, d)
  BY DEF PdrAttr
<1>3. [PdrAttr(v, s, f, d) EXCEPT !.fseid = w] = PdrAttr(v, w, f, d)
  BY DEF PdrAttr
<1> QED
  BY <1>1, <1>2, <1>3, Zenon DEF Begun

(* and of one of its fields;                                               *)
LEMMA AttrSet ==
  ASSUME NEW id, NEW s, NEW f, NEW d, NEW v
  PROVE  /\ With(PdrAttr(id, s, f, d), "farId", v) = PdrAttr(id, s, v, d)
         /\ With(PdrAttr(id, s, f, d), "decap", v) = PdrAttr(id, s, f, v)
<1>1. [PdrAttr(id, s, f, d) EXCEPT !["farId"] = v] = PdrAttr(id, s, v, d)
  BY DEF PdrAttr
<1>2. [PdrAttr(id, s, f, d) EXCEPT !["decap"] = v] = PdrAttr(id, s, f, v)
  BY DEF PdrAttr
<1> QED
  BY <1>1, <1>2, Zenon DEF With

(* in the direction that is known.                                         *)
LEMMA DirectionSet ==
  ASSUME NEW id, NEW key, NEW act, NEW a, NEW q, NEW field, NEW v
  PROVE  /\ SetAttr(PdrAcc(id, Yes, key, act, a, q), field, v)
              = PdrAcc(id, Yes, key, act, With(a, field, v), q)
         /\ SetAttr(PdrAcc(id, No, key, act, a, q), field, v)
              = PdrAcc(id, No, key, act, a, With(q, field, v))
<1>1. ASSUME NEW x, NEW up, x = PdrAcc(id, up, key, act, a, q)
      PROVE  /\ x.up = up
             /\ [x EXCEPT !.attr[field] = v] = PdrAcc(id, up, key, act, With(a, field, v), q)
             /\ [x EXCEPT !.qos[field] = v] = PdrAcc(id, up, key, act, a, With(q, field, v))
  <2>1. x.up = up /\ x.attr = a /\ x.qos = q
    BY <1>1 DEF PdrAcc
  <2>2. [x EXCEPT !.attr[field] = v] = [x EXCEPT !.attr = [x.attr EXCEPT ![field] = v]]
    OBVIOUS
  <2>3. [x EXCEPT !.qos[field] = v] = [x EXCEPT !.qos = [x.qos EXCEPT ![field] = v]]
    OBVIOUS
  <2>4. \A y : [x EXCEPT !.attr = y] = PdrAcc(id, up, key, act, y, q)
    BY <1>1 DEF PdrAcc
  <2>5. \A y : [x EXCEPT !.qos = y] = PdrAcc(id, up, key, act, a, y)
    BY <1>1 DEF PdrAcc
  <2> QED
    BY <2>1, <2>2, <2>3, <2>4, <2>5, Zenon DEF With
<1>2. ASSUME NEW x, x = PdrAcc(id, Yes, key, act, a, q)
      PROVE  SetAttr(x, field, v) = PdrAcc(id, Yes, key, act, With(a, field, v), q)
  <2>1. /\ x.up = Yes
        /\ [x EXCEPT !.attr[field] = v] = PdrAcc(id, Yes, key, act, With(a, field, v), q)
    BY <1>1, <1>2, Zenon
  <2> QED
    BY <2>1, Zenon DEF SetAttr, Yes, No
<1>3. ASSUME NEW x, x = PdrAcc(id, No, key, act, a, q)
      PROVE  SetAttr(x, field, v) = PdrAcc(id, No, key, act, a, With(q, field, v))
  <2>1. /\ x.up = No
        /\ [x EXCEPT !.qos[field] = v] = PdrAcc(id, No, key, act, a, With(q, field, v))
    BY <1>1, <1>3, Zenon
  <2> QED
    BY <2>1, Zenon DEF SetAttr, Yes, No
<1> QED
  BY <1>2, <1>3, Zenon

(* One IE of a PDR.                                                        *)
PdrTypes == {"PDRID", "PDI", "OuterHeaderRemoval", "FARID"}
Uses(i) == Type(i) \in PdrTypes /\ (Type(i) # "PDRID" => Readable(i))
IdOf(i) == IF Readable(i) THEN Val(i) ELSE 0
LEMMA PdrSteps ==
  ASSUME NEW init, NEW s, NEW i, NEW id, NEW up, NEW key, NEW act, NEW a, NEW q, NEW acc,
         acc = PdrAcc(id, up, key, act, a, q)
  PROVE  /\ ~Uses(i) => PdrTake(init, s, acc, i) = acc
         /\ Type(i) = "PDRID" =>
              PdrTake(init, s, acc, i) = PdrAcc(IdOf(i), up, key, act, a, q)
         /\ Type(i) = "OuterHeaderRemoval" /\ Readable(i) =>
              PdrTake(init, s, acc, i) = SetAttr(acc, "decap", Yes)
         /\ Type(i) = "FARID" /\ Readable(i) => PdrTake(init, s, acc, i) = SetAttr(acc, "farId", Val(i))
<1>1. ~Uses(i) => PdrTake(init, s, acc, i) = acc
  BY DEF PdrTake, Uses, PdrTypes
<1>2. ASSUME Type(i) = "PDRID"
      PROVE  PdrTake(init, s, acc, i) = PdrAcc(IdOf(i), up, key, act, a, q)
  <2>1. PICK v : v = IF Readable(i) THEN Val(i) ELSE 0
    OBVIOUS
  <2>4. v = IdOf(i)
    BY <2>1 DEF IdOf
  <2>2. [acc EXCEPT !.pdrId = v] = PdrAcc(v, up, key, act, a, q)
    BY DEF PdrAcc
  <2>3. PdrTake(init, s, acc, i) = [acc EXCEPT !.pdrId = v]
    BY <1>2, <2>1 DEF PdrTake
  <2> QED
    BY <2>2, <2>3, <2>4
<1>3. Type(i) = "OuterHeaderRemoval" /\ Readable(i) =>
        PdrTake(init, s, acc, i) = SetAttr(acc, "decap", Yes)
  BY DEF PdrTake, Yes
<1>4. Type(i) = "FARID" /\ Readable(i) => PdrTake(init, s, acc, i) = SetAttr(acc, "farId", Val(i))
  BY DEF PdrTake
<1> QED
  BY <1>1, <1>2, <1>3, <1>4, Zenon

(* The first PDI, which decides the direction and the key.                 *)
Sess(s) == s % Uint32
OwnKey(init, pdi) == PdrKey(init, NoKey, Uplink(No, pdi.src), pdi)
LEMMA PdiStep ==
  ASSUME NEW init, NEW s, NEW i, NEW id, NEW act, NEW a, NEW q, NEW acc,
         acc = PdrAcc(id, No, NoKey, act, a, q),
         Type(i) = "PDI", Readable(i), NEW pdi, pdi = NewPdi(Val(i))
  PROVE  /\ pdi.src = ACCESS => PdrTake(init, s, acc, i) =
              PdrAcc(id, Yes, OwnKey(init, pdi), "set_pdr_attributes", Begun(a, id, Sess(s)), q)
         /\ pdi.src = CORE => PdrTake(init, s, acc, i) =
              PdrAcc(id, No, OwnKey(init, pdi), "set_pdr_attributes_qos", a, Begun(q, id, Sess(s)))
         /\ pdi.src \notin {ACCESS, CORE} => PdrTake(init, s, acc, i) =
              PdrAcc(id, No, OwnKey(init, pdi), act, a, q)
<1>1. acc.pdrId = id /\ acc.attr = a /\ acc.qos = q /\ acc.up = No /\ acc.key = NoKey
  BY DEF PdrAcc
<1>9. PICK K, u1, u2, u3, z, b, c : /\ u3 = Uplink(acc.up, pdi.src) /\ K = PdrKey(init, acc.key, u3, pdi)
                                    /\ u1 = Yes /\ u2 = No /\ z = Sess(s)
                                    /\ b = Begun(acc.attr, acc.pdrId, z) /\ c = Begun(acc.qos, acc.pdrId, z)
  OBVIOUS
<1>10. /\ b = Begun(a, id, Sess(s)) /\ c = Begun(q, id, Sess(s)) /\ K = OwnKey(init, pdi)
  <2>1. u3 = Uplink(No, pdi.src) /\ K = PdrKey(init, NoKey, u3, pdi)
    BY <1>1, <1>9, Zenon
  <2> QED
    BY <1>1, <1>9, <2>1, Zenon DEF OwnKey
<1>12. /\ pdi.src = ACCESS => u3 = u1
       /\ pdi.src # ACCESS => u3 = u2
  BY <1>1, <1>9 DEF Uplink, Yes, No
<1>2. [acc EXCEPT !.key = K, !.up = u1, !.action = "set_pdr_attributes", !.attr = b]
       = PdrAcc(id, u1, K, "set_pdr_attributes", b, q)
  <2>1. [acc EXCEPT !.key = K, !.up = u1, !.action = "set_pdr_attributes", !.attr = b]
          = [[[[acc EXCEPT !.key = K] EXCEPT !.up = u1] EXCEPT !.action = "set_pdr_attributes"] EXCEPT !.attr = b]
    OBVIOUS
  <2>2. [acc EXCEPT !.key = K] = PdrAcc(id, u2, K, act, a, q)
    BY <1>9 DEF PdrAcc
  <2>3. [PdrAcc(id, u2, K, act, a, q) EXCEPT !.up = u1] = PdrAcc(id, u1, K, act, a, q)
    BY DEF PdrAcc
  <2>4. [PdrAcc(id, u1, K, act, a, q) EXCEPT !.action = "set_pdr_attributes"] = PdrAcc(id, u1, K, "set_pdr_attributes", a, q)
    BY DEF PdrAcc
  <2>5. [PdrAcc(id, u1, K, "set_pdr_attributes", a, q) EXCEPT !.attr = b] = PdrAcc(id, u1, K, "set_pdr_attributes", b, q)
    BY DEF PdrAcc
  <2> QED
    BY <2>1, <2>2, <2>3, <2>4, <2>5, Zenon
<1>3. [acc EXCEPT !.key = K, !.up = u2, !.action = "set_pdr_attributes_qos", !.qos = c]
       = PdrAcc(id, u2, K, "set_pdr_attributes_qos", a, c)
  <2>1. [acc EXCEPT !.key = K, !.up = u2, !.action = "set_pdr_attributes_qos", !.qos = c]
          = [[[[acc EXCEPT !.key = K] EXCEPT !.up = u2] EXCEPT !.action = "set_pdr_attributes_qos"] EXCEPT !.qos = c]
    OBVIOUS
  <2>2. [acc EXCEPT !.key = K] = PdrAcc(id, u2, K, act, a, q)
    BY <1>9 DEF PdrAcc
  <2>3. [PdrAcc(id, u2, K, act, a, q) EXCEPT !.up = u2] = PdrAcc(id, u2, K, act, a, q)
    BY DEF PdrAcc
  <2>4. [PdrAcc(id, u2, K, act, a, q) EXCEPT !.action = "set_pdr_attributes_qos"] = PdrAcc(id, u2, K, "set_pdr_attributes_qos", a, q)
    BY DEF PdrAcc
  <2>5. [PdrAcc(id, u2, K, "set_pdr_attributes_qos", a, q) EXCEPT !.qos = c] = PdrAcc(id, u2, K, "set_pdr_attributes_qos", a, c)
    BY DEF PdrAcc
  <2> QED
    BY <2>1, <2>2, <2>3, <2>4, <2>5, Zenon
<1>4. [acc EXCEPT !.key = K, !.up = u2] = PdrAcc(id, u2, K, act, a, q)
  <2>1. [acc EXCEPT !.key = K, !.up = u2] = [[acc EXCEPT !.key = K] EXCEPT !.up = u2]
    OBVIOUS
  <2>2. [acc EXCEPT !.key = K] = PdrAcc(id, u2, K, act, a, q)
    BY <1>9 DEF PdrAcc
  <2>3. [PdrAcc(id, u2, K, act, a, q) EXCEPT !.up = u2] = PdrAcc(id, u2, K, act, a, q)
    BY DEF PdrAcc
  <2> QED
    BY <2>1, <2>2, <2>3, Zenon
<1>5. ACCESS # CORE
  BY DEF ACCESS, CORE
<1>11. PdrTake(init, s, acc, i) =
         CASE pdi.src = ACCESS ->
                [acc EXCEPT !.key = K, !.up = u3, !.action = "set_pdr_attributes", !.attr = b]
           [] pdi.src = CORE ->
                [acc EXCEPT !.key = K, !.up = u3, !.action = "set_pdr_attributes_qos", !.qos = c]
           [] OTHER -> [acc EXCEPT !.key = K, !.up = u3]
  BY <1>9 DEF PdrTake, Begun, Sess
<1>6. CASE pdi.src = ACCESS
  <2>1. PdrTake(init, s, acc, i) =
          [acc EXCEPT !.key = K, !.up = u1, !.action = "set_pdr_attributes", !.attr = b]
    BY <1>5, <1>6, <1>11, <1>12
  <2>2. PdrTake(init, s, acc, i) = PdrAcc(id, u1, K, "set_pdr_attributes", b, q)
    BY <1>2, <2>1
  <2>3. PdrTake(init, s, acc, i) =
          PdrAcc(id, Yes, OwnKey(init, pdi), "set_pdr_attributes", Begun(a, id, Sess(s)), q)
    BY <1>9, <1>10, <2>2, Zenon
  <2> QED
    BY <1>5, <1>6, <2>3
<1>7. CASE pdi.src = CORE
  <2>1. PdrTake(init, s, acc, i) =
          [acc EXCEPT !.key = K, !.up = u2, !.action = "set_pdr_attributes_qos", !.qos = c]
    BY <1>5, <1>7, <1>11, <1>12
  <2>2. PdrTake(init, s, acc, i) = PdrAcc(id, u2, K, "set_pdr_attributes_qos", a, c)
    BY <1>3, <2>1
  <2>3. PdrTake(init, s, acc, i) =
          PdrAcc(id, No, OwnKey(init, pdi), "set_pdr_attributes_qos", a, Begun(q, id, Sess(s)))
    BY <1>9, <1>10, <2>2, Zenon
  <2> QED
    BY <1>5, <1>7, <2>3
<1>8. CASE pdi.src \notin {ACCESS, CORE}
  <2>1. PdrTake(init, s, acc, i) = [acc EXCEPT !.key = K, !.up = u2]
    BY <1>8, <1>11, <1>12
  <2>2. PdrTake(init, s, acc, i) = PdrAcc(id, No, OwnKey(init, pdi), act, a, q)
    BY <1>4, <1>9, <1>10, <2>1, Zenon
  <2> QED
    BY <1>8, <2>2
<1> QED
  BY <1>6, <1>7, <1>8

(* A rule that names an IE once names one.                                 *)
LEMMA GivenOne ==
  ASSUME NEW S, NEW ies \in Seq(S), Once(ies), NEW type, NEW i \in Given(ies, type)
  PROVE  /\ \E m \in 1..Len(ies) : /\ i = ies[m] /\ Type(i) = type /\ Readable(i)
                                   /\ \A k \in 1..Len(ies) : Type(ies[k]) = type => k = m
         /\ Given(ies, type) = {i} /\ (CHOOSE x \in Given(ies, type) : TRUE) = i
<1>1. DOMAIN ies = 1..Len(ies)
  OBVIOUS
<1>2. PICK m \in 1..Len(ies) : i = ies[m] /\ Type(i) = type /\ Readable(i)
  BY <1>1 DEF Given
<1>3. \A k \in 1..Len(ies) : Type(ies[k]) = type => k = m
  BY <1>1, <1>2 DEF Once
<1>4. \A x \in Given(ies, type) : x = i
  BY <1>1, <1>2, <1>3 DEF Given
<1>5. Given(ies, type) = {i}
  BY <1>4
<1>6. (CHOOSE x \in Given(ies, type) : TRUE) = i
  BY <1>4, <1>5
<1> QED
  BY <1>2, <1>3, <1>5, <1>6

(* The key is that of the PDI, whatever else comes when; before the PDI it  *)
(* is none, and the direction is down.                                     *)
HasKey(x, key, up) == \E id, act, a, q : x = PdrAcc(id, up, key, act, a, q)
HasOwnKey(x, key) == HasKey(x, key, Yes) \/ HasKey(x, key, No)
LEMMA KeyStep ==
  ASSUME NEW init, NEW s, NEW acc, HasKey(acc, NoKey, No), NEW i, Type(i) = "PDI", Readable(i)
  PROVE  HasOwnKey(PdrTake(init, s, acc, i), OwnKey(init, NewPdi(Val(i))))
<1>1. PICK id, act, a, q : acc = PdrAcc(id, No, NoKey, act, a, q)
  BY DEF HasKey
<1>2. PICK pdi, x, K : pdi = NewPdi(Val(i)) /\ x = PdrTake(init, s, acc, i) /\ K = OwnKey(init, pdi)
  OBVIOUS
<1>3. /\ pdi.src = ACCESS => x = PdrAcc(id, Yes, K, "set_pdr_attributes", Begun(a, id, Sess(s)), q)
      /\ pdi.src = CORE => x = PdrAcc(id, No, K, "set_pdr_attributes_qos", a, Begun(q, id, Sess(s)))
      /\ pdi.src \notin {ACCESS, CORE} => x = PdrAcc(id, No, K, act, a, q)
  BY <1>1, <1>2, PdiStep
<1>4. HasOwnKey(x, K)
  BY <1>3 DEF HasOwnKey, HasKey
<1> QED
  BY <1>2, <1>4

LEMMA KeyKept ==
  ASSUME NEW init, NEW s, NEW acc, NEW key, NEW up \in {Yes, No}, HasKey(acc, key, up),
         NEW i, ~(Type(i) = "PDI" /\ Readable(i))
  PROVE  HasKey(PdrTake(init, s, acc, i), key, up)
<1>1. PICK id, act, a, q : acc = PdrAcc(id, up, key, act, a, q)
  BY DEF HasKey
<1>2. ASSUME NEW x, NEW b, NEW c, NEW d, NEW e, x = PdrAcc(b, up, key, c, d, e)
      PROVE  HasKey(x, key, up)
  BY <1>2 DEF HasKey
<1> DEFINE x == PdrTake(init, s, acc, i)
<1>3. \/ x = acc
      \/ x = PdrAcc(IdOf(i), up, key, act, a, q)
      \/ x = SetAttr(acc, "decap", Yes) \/ x = SetAttr(acc, "farId", Val(i))
  <2>1. /\ ~Uses(i) => x = acc
        /\ Type(i) = "PDRID" => x = PdrAcc(IdOf(i), up, key, act, a, q)
        /\ Type(i) = "OuterHeaderRemoval" /\ Readable(i) => x = SetAttr(acc, "decap", Yes)
        /\ Type(i) = "FARID" /\ Readable(i) => x = SetAttr(acc, "farId", Val(i))
    BY <1>1, PdrSteps
  <2>2. Uses(i) => \/ Type(i) = "PDRID" \/ (Type(i) = "OuterHeaderRemoval" /\ Readable(i))
                   \/ (Type(i) = "FARID" /\ Readable(i))
    BY DEF Uses, PdrTypes
  <2> QED
    BY <2>1, <2>2, Zenon
<1> HIDE DEF x
<1>4. \A f, v : HasKey(SetAttr(acc, f, v), key, up)
  <2> TAKE f, v
  <2>1. CASE up = Yes
    <3>1. acc = PdrAcc(id, Yes, key, act, a, q)
      BY <1>1, <2>1, Zenon
    <3>2. SetAttr(PdrAcc(id, Yes, key, act, a, q), f, v) = PdrAcc(id, Yes, key, act, With(a, f, v), q)
      BY DirectionSet
    <3> QED
      BY <1>2, <2>1, <3>1, <3>2, Zenon
  <2>2. CASE up = No
    <3>1. acc = PdrAcc(id, No, key, act, a, q)
      BY <1>1, <2>2, Zenon
    <3>2. SetAttr(PdrAcc(id, No, key, act, a, q), f, v) = PdrAcc(id, No, key, act, a, With(q, f, v))
      BY DirectionSet
    <3> QED
      BY <1>2, <2>2, <3>1, <3>2, Zenon
  <2> QED
    BY <2>1, <2>2, Zenon
<1>5. HasKey(x, key, up)
  BY <1>1, <1>2, <1>3, <1>4, Zenon
<1> QED
  BY <1>5 DEF x

(* So the entry has the key of its PDI, for all ports.                     *)
Ported(key) == [key EXCEPT !.uePorts = AllPorts, !.inetPorts = AllPorts]
LEMMA KeyOfPdi ==
  ASSUME NEW init, NEW s, NEW S, NEW ies \in Seq(S), Once(ies), NEW i \in Given(ies, "PDI")
  PROVE  PdrEntry(init, s, ies).key = Ported(OwnKey(init, NewPdi(Val(i))))
<1>1. PICK p, n, K : p = PdrLoop(init, s, ies) /\ n = Len(ies) /\ K = OwnKey(init, NewPdi(Val(i)))
  OBVIOUS
<1>2. n \in Nat /\ p[0] = NoPdr /\ \A k \in 1..n : p[k] = PdrTake(init, s, p[k - 1], ies[k])
  BY <1>1, PdrLoopSteps
<1>3. PICK m \in 1..n : /\ i = ies[m] /\ Type(i) = "PDI" /\ Readable(i)
                        /\ \A k \in 1..n : Type(ies[k]) = "PDI" => k = m
  BY <1>1, GivenOne
<1> DEFINE T == {k \in 0..n : (k < m => HasKey(p[k], NoKey, No)) /\ (m <= k => HasOwnKey(p[k], K))}
<1>4. 0 \in T
  <2>1. NoPdr = PdrAcc(0, No, NoKey, "set_pdr_attributes", NoAttr, NoAttr)
    BY DEF NoPdr, PdrAcc, No
  <2>2. HasKey(p[0], NoKey, No)
    BY <1>2, <2>1 DEF HasKey
  <2> QED
    BY <1>2, <2>2
<1>5. ASSUME NEW k \in 0..(n - 1), k \in T
      PROVE  k + 1 \in T
  <2>1. k + 1 \in 1..n /\ k + 1 \in 0..n /\ (k + 1) - 1 = k
    BY <1>2
  <2>2. p[k + 1] = PdrTake(init, s, p[k], ies[k + 1])
    BY <1>2, <2>1
  <2>3. CASE k + 1 = m
    <3>1. k < m /\ ~(k + 1 < m)
      BY <2>1, <2>3
    <3>2. HasKey(p[k], NoKey, No)
      BY <1>5, <3>1
    <3>3. HasOwnKey(p[k + 1], K)
      BY <1>1, <1>3, <2>2, <2>3, <3>2, KeyStep, Zenon
    <3> QED
      BY <2>1, <3>1, <3>3
  <2>4. CASE k + 1 # m
    <3>1. ~(Type(ies[k + 1]) = "PDI" /\ Readable(ies[k + 1]))
      BY <1>3, <2>1, <2>4
    <3>2. \A x : \A u \in {Yes, No} : HasKey(p[k], x, u) => HasKey(p[k + 1], x, u)
      BY <2>2, <3>1, KeyKept, Zenon
    <3>3. (m <= k + 1 => m <= k) /\ (k + 1 < m => k < m)
      BY <2>1, <2>4
    <3>4. m <= k + 1 => HasOwnKey(p[k + 1], K)
      <4>1. m <= k + 1 => HasOwnKey(p[k], K)
        BY <1>5, <3>3
      <4> QED
        BY <3>2, <4>1, Zenon DEF HasOwnKey
    <3>5. k + 1 < m => HasKey(p[k + 1], NoKey, No)
      <4>1. k + 1 < m => HasKey(p[k], NoKey, No)
        BY <1>5, <3>3
      <4> QED
        BY <3>2, <4>1, Zenon
    <3> QED
      BY <2>1, <3>4, <3>5
  <2> QED
    BY <2>3, <2>4
<1>6. n \in T
  <2> HIDE DEF T
  <2>1. 0..n \subseteq T
    BY <1>2, <1>4, <1>5, UpTo
  <2> QED
    BY <1>2, <2>1
<1>7. HasOwnKey(p[n], K)
  BY <1>6
<1>8. p[n].key = K
  <2>1. PICK id, act, a, q, up : p[n] = PdrAcc(id, up, K, act, a, q)
    BY <1>7 DEF HasOwnKey, HasKey
  <2>2. \A x : x = PdrAcc(id, up, K, act, a, q) => x.key = K
    BY DEF PdrAcc
  <2> QED
    BY <2>1, <2>2, Zenon
<1>9. PdrEntry(init, s, ies).key = Ported(p[n].key)
  BY <1>1 DEF PdrEntry, Ported
<1> QED
  BY <1>1, <1>8, <1>9

(* Before the PDI only the ID is known; after it, what goes into the entry.*)
BeforePdi(x, id) == x = PdrAcc(id, No, NoKey, "set_pdr_attributes", NoAttr, NoAttr)
AfterPdi(x, src, key, y) ==
  \/ src = ACCESS /\ \E b, q : x = PdrAcc(b, Yes, key, "set_pdr_attributes", y, q)
  \/ src = CORE /\ \E b, a : x = PdrAcc(b, No, key, "set_pdr_attributes_qos", a, y)
LEMMA AtPdi ==
  ASSUME NEW init, NEW s, NEW x, NEW id, BeforePdi(x, id), NEW i, Type(i) = "PDI", Readable(i),
         NEW pdi, pdi = NewPdi(Val(i)), pdi.src \in {ACCESS, CORE}
  PROVE  AfterPdi(PdrTake(init, s, x, i), pdi.src, OwnKey(init, pdi), PdrAttr(id, Sess(s), 0, No))
<1>1. NoAttr = PdrAttr(0, 0, 0, No)
  BY DEF NoAttr, PdrAttr, No
<1>2. Begun(NoAttr, id, Sess(s)) = PdrAttr(id, Sess(s), 0, No)
  BY <1>1, AttrsBegun
<1>3. /\ pdi.src = ACCESS => PdrTake(init, s, x, i) =
           PdrAcc(id, Yes, OwnKey(init, pdi), "set_pdr_attributes", Begun(NoAttr, id, Sess(s)), NoAttr)
      /\ pdi.src = CORE => PdrTake(init, s, x, i) =
           PdrAcc(id, No, OwnKey(init, pdi), "set_pdr_attributes_qos", NoAttr, Begun(NoAttr, id, Sess(s)))
  BY PdiStep DEF BeforePdi
<1> QED
  BY <1>2, <1>3, Zenon DEF AfterPdi

(* which are set in its direction.                                         *)
LEMMA SetAfterPdi ==
  ASSUME NEW x, NEW src, NEW key, NEW y, AfterPdi(x, src, key, y), NEW field, NEW v
  PROVE  AfterPdi(SetAttr(x, field, v), src, key, With(y, field, v))
<1>1. ASSUME NEW b, NEW q, src = ACCESS, x = PdrAcc(b, Yes, key, "set_pdr_attributes", y, q)
      PROVE  AfterPdi(SetAttr(x, field, v), src, key, With(y, field, v))
  <2>1. SetAttr(x, field, v) = PdrAcc(b, Yes, key, "set_pdr_attributes", With(y, field, v), q)
    BY <1>1, DirectionSet
  <2> QED
    BY <1>1, <2>1, Zenon DEF AfterPdi
<1>2. ASSUME NEW b, NEW a, src = CORE, x = PdrAcc(b, No, key, "set_pdr_attributes_qos", a, y)
      PROVE  AfterPdi(SetAttr(x, field, v), src, key, With(y, field, v))
  <2>1. SetAttr(x, field, v) = PdrAcc(b, No, key, "set_pdr_attributes_qos", a, With(y, field, v))
    BY <1>2, DirectionSet
  <2> QED
    BY <1>2, <2>1, Zenon DEF AfterPdi
<1> QED
  BY <1>1, <1>2, Zenon DEF AfterPdi

(* What the IEs up to the k-th have said.                                  *)
Knows(ies, k, type, v) == \A j \in 1..k : Type(ies[j]) = type /\ Readable(ies[j]) => v = Val(ies[j])
Removes(ies, k) == \E j \in 1..k : Type(ies[j]) = "OuterHeaderRemoval" /\ Readable(ies[j])
KnownBefore(x, ies, k) == \E id : BeforePdi(x, id) /\ Knows(ies, k, "PDRID", id)
KnownAfter(x, src, key, s, ies, k) ==
  \E id, f, d : /\ AfterPdi(x, src, key, PdrAttr(id, Sess(s), f, d))
                /\ Knows(ies, Len(ies), "PDRID", id) /\ Knows(ies, k, "FARID", f)
                /\ d \in {Yes, No} /\ (d = Yes <=> Removes(ies, k))

(* The places of a PDR's IEs, the PDI being the m-th.                      *)
Placed(ies, m) ==
  /\ \A k \in 1..Len(ies) : Type(ies[k]) = "PDI" <=> k = m
  /\ \A j, k \in 1..Len(ies) : Type(ies[j]) = "PDRID" /\ Type(ies[k]) = "PDRID" => j = k
  /\ \A j, k \in 1..Len(ies) : Type(ies[j]) = "FARID" /\ Type(ies[k]) = "FARID" => j = k
  /\ \A k \in 1..Len(ies) : Type(ies[k]) = "PDRID" => k < m
  /\ \A k \in 1..Len(ies) : Type(ies[k]) \in {"OuterHeaderRemoval", "FARID"} => m < k

(* One more IE before the PDI,                                             *)
LEMMA KnownNextBefore ==
  ASSUME NEW init, NEW s, NEW x, NEW ies, NEW n \in Nat, n = Len(ies), NEW m \in 1..n, Placed(ies, m),
         NEW k \in Nat, k + 1 < m, KnownBefore(x, ies, k)
  PROVE  KnownBefore(PdrTake(init, s, x, ies[k + 1]), ies, k + 1)
<1>1. PICK id : BeforePdi(x, id) /\ Knows(ies, k, "PDRID", id)
  BY DEF KnownBefore
<1>2. k + 1 \in 1..n /\ k + 1 # m /\ ~(m < k + 1)
  OBVIOUS
<1>3. PICK i : i = ies[k + 1]
  OBVIOUS
<1>4. Type(i) # "PDI" /\ Type(i) # "OuterHeaderRemoval" /\ Type(i) # "FARID"
  BY <1>2, <1>3 DEF Placed
<1>5. \A j \in 1..(k + 1) : j \in 1..k \/ j = k + 1
  OBVIOUS
<1>6. CASE Type(i) = "PDRID"
  <2>1. BeforePdi(PdrTake(init, s, x, i), IdOf(i))
    BY <1>1, <1>6, PdrSteps DEF BeforePdi
  <2>2. \A j \in 1..(k + 1) : j \in 1..n
    BY <1>2
  <2>3. Knows(ies, k + 1, "PDRID", IdOf(i))
    BY <1>2, <1>3, <1>6, <2>2 DEF Knows, Placed, IdOf
  <2> QED
    BY <1>3, <2>1, <2>3 DEF KnownBefore
<1>7. CASE Type(i) # "PDRID"
  <2>1. ~Uses(i)
    BY <1>4, <1>7 DEF Uses, PdrTypes
  <2>2. PdrTake(init, s, x, i) = x
    BY <1>1, <2>1, PdrSteps DEF BeforePdi
  <2>3. Knows(ies, k + 1, "PDRID", id)
    BY <1>1, <1>3, <1>5, <1>7 DEF Knows
  <2> QED
    BY <1>1, <1>3, <2>2, <2>3 DEF KnownBefore
<1> QED
  BY <1>6, <1>7

(* the PDI,                                                                *)
LEMMA KnownAtPdi ==
  ASSUME NEW init, NEW s, NEW x, NEW ies, NEW n \in Nat, n = Len(ies), NEW m \in 1..n, Placed(ies, m),
         KnownBefore(x, ies, m - 1), Readable(ies[m]),
         NEW pdi, pdi = NewPdi(Val(ies[m])), pdi.src \in {ACCESS, CORE}
  PROVE  KnownAfter(PdrTake(init, s, x, ies[m]), pdi.src, OwnKey(init, pdi), s, ies, m)
<1>1. PICK id : BeforePdi(x, id) /\ Knows(ies, m - 1, "PDRID", id)
  BY DEF KnownBefore
<1>2. PICK i : i = ies[m]
  OBVIOUS
<1>3. Type(i) = "PDI" /\ Readable(i)
  BY <1>2 DEF Placed
<1>4. AfterPdi(PdrTake(init, s, x, i), pdi.src, OwnKey(init, pdi), PdrAttr(id, Sess(s), 0, No))
  BY <1>1, <1>2, <1>3, AtPdi
<1>5. Knows(ies, n, "PDRID", id)
  <2>1. \A j \in 1..n : j < m => j \in 1..(m - 1)
    OBVIOUS
  <2> QED
    BY <1>1, <2>1 DEF Knows, Placed
<1>6. Knows(ies, m, "FARID", 0)
  <2>1. \A j \in 1..m : j \in 1..n /\ ~(m < j)
    OBVIOUS
  <2> QED
    BY <2>1 DEF Knows, Placed
<1>7. ~Removes(ies, m)
  <2>1. \A j \in 1..m : j \in 1..n /\ ~(m < j)
    OBVIOUS
  <2> QED
    BY <2>1 DEF Removes, Placed
<1>8. No # Yes
  BY DEF Yes, No
<1>9. No \in {Yes, No} /\ (No = Yes <=> Removes(ies, m))
  BY <1>7, <1>8
<1>10. Knows(ies, Len(ies), "PDRID", id)
  BY <1>5, Zenon
<1>11. PICK y, f, d, K : y = PdrTake(init, s, x, i) /\ f = 0 /\ d = No /\ K = OwnKey(init, pdi)
  OBVIOUS
<1>12. /\ AfterPdi(y, pdi.src, K, PdrAttr(id, Sess(s), f, d)) /\ Knows(ies, m, "FARID", f)
       /\ d \in {Yes, No} /\ (d = Yes <=> Removes(ies, m))
  BY <1>4, <1>6, <1>9, <1>11, Zenon
<1>13. KnownAfter(y, pdi.src, K, s, ies, m)
  BY <1>10, <1>12, Zenon DEF KnownAfter
<1> QED
  BY <1>2, <1>11, <1>13, Zenon

(* and one more after it.                                                  *)
LEMMA KnownNextAfter ==
  ASSUME NEW init, NEW s, NEW x, NEW ies, NEW n \in Nat, n = Len(ies), NEW m \in 1..n, Placed(ies, m),
         NEW k \in m..(n - 1), NEW src, NEW key, KnownAfter(x, src, key, s, ies, k)
  PROVE  KnownAfter(PdrTake(init, s, x, ies[k + 1]), src, key, s, ies, k + 1)
<1>1. PICK id, f, d : /\ AfterPdi(x, src, key, PdrAttr(id, Sess(s), f, d))
                      /\ Knows(ies, n, "PDRID", id) /\ Knows(ies, k, "FARID", f)
                      /\ d \in {Yes, No} /\ (d = Yes <=> Removes(ies, k))
  BY DEF KnownAfter
<1>2. k + 1 \in 1..n /\ k + 1 # m /\ ~(k + 1 < m)
  OBVIOUS
<1>3. PICK i, y : i = ies[k + 1] /\ y = PdrTake(init, s, x, i)
  OBVIOUS
<1>4. Type(i) # "PDI" /\ Type(i) # "PDRID"
  BY <1>2, <1>3 DEF Placed
<1>5. \A j \in 1..(k + 1) : j \in 1..k \/ j = k + 1
  OBVIOUS
<1>6. \A j \in 1..k : j \in 1..(k + 1)
  OBVIOUS
<1>7. k + 1 \in 1..(k + 1)
  OBVIOUS
<1>8. PICK up, act, b, a, q : x = PdrAcc(b, up, key, act, a, q)
  BY <1>1 DEF AfterPdi
<1>9. /\ ~Uses(i) => y = x
      /\ Type(i) = "OuterHeaderRemoval" /\ Readable(i) => y = SetAttr(x, "decap", Yes)
      /\ Type(i) = "FARID" /\ Readable(i) => y = SetAttr(x, "farId", Val(i))
  BY <1>3, <1>8, PdrSteps
<1>10. ASSUME NEW f2, NEW d2, AfterPdi(y, src, key, PdrAttr(id, Sess(s), f2, d2)), Knows(ies, k + 1, "FARID", f2),
              d2 \in {Yes, No}, d2 = Yes <=> Removes(ies, k + 1)
       PROVE  KnownAfter(y, src, key, s, ies, k + 1)
  BY <1>1, <1>10, Zenon DEF KnownAfter
<1>11. CASE Type(i) = "OuterHeaderRemoval" /\ Readable(i)
  <2>1. AfterPdi(y, src, key, PdrAttr(id, Sess(s), f, Yes))
    <3>1. AfterPdi(y, src, key, With(PdrAttr(id, Sess(s), f, d), "decap", Yes))
      BY <1>1, <1>9, <1>11, SetAfterPdi, Zenon
    <3>2. With(PdrAttr(id, Sess(s), f, d), "decap", Yes) = PdrAttr(id, Sess(s), f, Yes)
      BY AttrSet
    <3> QED
      BY <3>1, <3>2, Zenon
  <2>2. Knows(ies, k + 1, "FARID", f)
    BY <1>1, <1>3, <1>5, <1>11 DEF Knows
  <2>3. Removes(ies, k + 1)
    BY <1>3, <1>7, <1>11 DEF Removes
  <2>4. Yes \in {Yes, No} /\ (Yes = Yes <=> Removes(ies, k + 1))
    BY <2>3
  <2> QED
    BY <1>3, <1>10, <2>1, <2>2, <2>4, Zenon
<1>12. CASE ~(Type(i) = "OuterHeaderRemoval" /\ Readable(i))
  <2>1. Removes(ies, k + 1) <=> Removes(ies, k)
    BY <1>3, <1>5, <1>6, <1>12 DEF Removes
  <2>2. CASE Type(i) = "FARID" /\ Readable(i)
    <3>1. AfterPdi(y, src, key, PdrAttr(id, Sess(s), Val(i), d))
      <4>1. AfterPdi(y, src, key, With(PdrAttr(id, Sess(s), f, d), "farId", Val(i)))
        BY <1>1, <1>9, <2>2, SetAfterPdi, Zenon
      <4>2. With(PdrAttr(id, Sess(s), f, d), "farId", Val(i)) = PdrAttr(id, Sess(s), Val(i), d)
        BY AttrSet
      <4> QED
        BY <4>1, <4>2, Zenon
    <3>2. Knows(ies, k + 1, "FARID", Val(i))
      <4>1. \A j \in 1..(k + 1) : j \in 1..n
        BY <1>2
      <4> QED
        BY <1>2, <1>3, <2>2, <4>1 DEF Knows, Placed
    <3> QED
      BY <1>1, <1>3, <1>10, <2>1, <3>1, <3>2, Zenon
  <2>3. CASE ~(Type(i) = "FARID" /\ Readable(i))
    <3>1. y = x
      <4>1. ~Uses(i)
        BY <1>4, <1>12, <2>3 DEF Uses, PdrTypes
      <4> QED
        BY <1>9, <4>1
    <3>2. Knows(ies, k + 1, "FARID", f)
      BY <1>1, <1>3, <1>5, <2>3 DEF Knows
    <3> QED
      BY <1>1, <1>3, <1>10, <2>1, <3>1, <3>2, Zenon
  <2> QED
    BY <2>2, <2>3
<1> QED
  BY <1>11, <1>12

(* A PDR in the order of TS 29.244 is placed;                              *)
LEMMA InOrderPlaced ==
  ASSUME NEW S, NEW ies \in Seq(S), PdrInOrder(ies), NEW i \in Given(ies, "PDI")
  PROVE  \E m \in 1..Len(ies) : i = ies[m] /\ Readable(ies[m]) /\ Placed(ies, m)
<1>1. DOMAIN ies = 1..Len(ies)
  OBVIOUS
<1>2. Once(ies) /\ Ordered(ies, {"PDRID"}, {"PDI"}) /\ Ordered(ies, {"PDI"}, {"OuterHeaderRemoval", "FARID"})
  BY DEF PdrInOrder
<1>3. PICK m \in 1..Len(ies) : /\ i = ies[m] /\ Type(i) = "PDI" /\ Readable(i)
                               /\ \A k \in 1..Len(ies) : Type(ies[k]) = "PDI" => k = m
  BY <1>2, GivenOne
<1>4. \A k \in 1..Len(ies) : Type(ies[k]) = "PDI" <=> k = m
  BY <1>3
<1>5. \A j, k \in 1..Len(ies) : Type(ies[j]) = Type(ies[k]) => j = k
  BY <1>1, <1>2 DEF Once
<1>6. \A k \in 1..Len(ies) : Type(ies[k]) = "PDRID" => k < m
  BY <1>1, <1>2, <1>3 DEF Ordered
<1>7. \A k \in 1..Len(ies) : Type(ies[k]) \in {"OuterHeaderRemoval", "FARID"} => m < k
  BY <1>1, <1>2, <1>3 DEF Ordered
<1>8. Placed(ies, m)
  BY <1>4, <1>5, <1>6, <1>7 DEF Placed
<1> QED
  BY <1>3, <1>8

(* so at its end all that it says is known;                                *)
LEMMA KnownAtEnd ==
  ASSUME NEW init, NEW s, NEW S, NEW ies \in Seq(S), PdrInOrder(ies), NEW i \in Given(ies, "PDI"),
         NEW pdi, pdi = NewPdi(Val(i)), pdi.src \in {ACCESS, CORE}
  PROVE  KnownAfter(PdrLoop(init, s, ies)[Len(ies)], pdi.src, OwnKey(init, pdi), s, ies, Len(ies))
<1>1. PICK p, n, K : p = PdrLoop(init, s, ies) /\ n = Len(ies) /\ K = OwnKey(init, pdi)
  OBVIOUS
<1>2. n \in Nat /\ p[0] = NoPdr /\ \A k \in 1..n : p[k] = PdrTake(init, s, p[k - 1], ies[k])
  BY <1>1, PdrLoopSteps
<1>3. PICK m \in 1..n : i = ies[m] /\ Readable(ies[m]) /\ Placed(ies, m)
  BY <1>1, InOrderPlaced
<1> DEFINE T == {k \in 0..n : /\ k < m => KnownBefore(p[k], ies, k)
                              /\ m <= k => KnownAfter(p[k], pdi.src, K, s, ies, k)}
<1>4. 0 \in T
  <2>1. BeforePdi(p[0], 0)
    BY <1>2 DEF NoPdr, PdrAcc, No, BeforePdi
  <2>2. Knows(ies, 0, "PDRID", 0)
    BY DEF Knows
  <2> QED
    BY <1>2, <2>1, <2>2 DEF KnownBefore
<1>5. ASSUME NEW k \in 0..(n - 1), k \in T
      PROVE  k + 1 \in T
  <2>1. k + 1 \in 1..n /\ k + 1 \in 0..n /\ (k + 1) - 1 = k /\ k \in Nat
    BY <1>2
  <2>2. p[k + 1] = PdrTake(init, s, p[k], ies[k + 1])
    BY <1>2, <2>1
  <2>3. CASE k + 1 < m
    <3>1. KnownBefore(p[k], ies, k)
      BY <1>5, <2>1, <2>3
    <3>2. KnownBefore(p[k + 1], ies, k + 1)
      BY <1>1, <1>2, <1>3, <2>1, <2>2, <2>3, <3>1, KnownNextBefore
    <3>3. ~(m <= k + 1)
      BY <2>1, <2>3
    <3> QED
      BY <2>1, <3>2, <3>3
  <2>4. CASE k + 1 = m
    <3>1. KnownBefore(p[k], ies, k)
      BY <1>5, <2>1, <2>4
    <3>2. k = m - 1 /\ ~(k + 1 < m)
      BY <2>1, <2>4
    <3>3. KnownBefore(p[k], ies, m - 1)
      BY <3>1, <3>2
    <3>4. KnownAfter(PdrTake(init, s, p[k], ies[m]), pdi.src, OwnKey(init, pdi), s, ies, m)
      BY <1>1, <1>2, <1>3, <3>3, KnownAtPdi
    <3>5. KnownAfter(p[k + 1], pdi.src, K, s, ies, k + 1)
      BY <1>1, <2>2, <2>4, <3>4
    <3> QED
      BY <2>1, <3>2, <3>5
  <2>5. CASE m < k + 1
    <3>1. k \in m..(n - 1) /\ m <= k /\ ~(k + 1 < m)
      BY <2>1, <2>5
    <3>2. KnownAfter(p[k], pdi.src, K, s, ies, k)
      BY <1>5, <3>1
    <3>3. KnownAfter(p[k + 1], pdi.src, K, s, ies, k + 1)
      <4>1. PICK x, src : x = p[k] /\ src = pdi.src
        OBVIOUS
      <4>2. KnownAfter(x, src, K, s, ies, k)
        BY <3>2, <4>1, Zenon
      <4>3. KnownAfter(PdrTake(init, s, x, ies[k + 1]), src, K, s, ies, k + 1)
        BY <1>1, <1>2, <1>3, <3>1, <4>2, KnownNextAfter
      <4> QED
        BY <2>2, <4>1, <4>3, Zenon
    <3> QED
      BY <2>1, <3>1, <3>3
  <2> QED
    BY <2>1, <2>3, <2>4, <2>5
<1>6. n \in T
  <2> HIDE DEF T
  <2>1. 0..n \subseteq T
    BY <1>2, <1>4, <1>5, UpTo
  <2> QED
    BY <1>2, <2>1
<1>7. KnownAfter(p[n], pdi.src, K, s, ies, n)
  BY <1>2, <1>6
<1> QED
  BY <1>1, <1>7, Zenon

(* and the entry has it, under the action of its direction.                *)
LEMMA PdrRead ==
  ASSUME NEW init, NEW s, NEW S, NEW ies \in Seq(S), PdrInOrder(ies), NEW i \in Given(ies, "PDI"),
         NEW pdi, pdi = NewPdi(Val(i)), pdi.src \in {ACCESS, CORE}, NEW e, e = PdrEntry(init, s, ies)
  PROVE  /\ e.action = IF e.with = "attr" THEN "set_pdr_attributes" ELSE "set_pdr_attributes_qos"
         /\ e.data.fseid = Sess(s)
         /\ \A j \in Given(ies, "PDRID") : e.data.pdrId = Val(j)
         /\ \A j \in Given(ies, "FARID") : e.data.farId = Val(j)
         /\ e.data.decap <=> Given(ies, "OuterHeaderRemoval") # {}
<1>1. PICK x, n, K : x = PdrLoop(init, s, ies)[Len(ies)] /\ n = Len(ies) /\ K = OwnKey(init, pdi)
  OBVIOUS
<1>2. KnownAfter(x, pdi.src, K, s, ies, n)
  BY <1>1, KnownAtEnd, Zenon
<1>3. PICK id, f, d : /\ AfterPdi(x, pdi.src, K, PdrAttr(id, Sess(s), f, d))
                      /\ Knows(ies, n, "PDRID", id) /\ Knows(ies, n, "FARID", f)
                      /\ d \in {Yes, No} /\ (d = Yes <=> Removes(ies, n))
  BY <1>1, <1>2 DEF KnownAfter
<1>4. PICK y : y = PdrAttr(id, Sess(s), f, d)
  OBVIOUS
<1>5. e = [key |-> Ported(x.key), priority |-> 0, action |-> x.action,
           with |-> IF x.up THEN "attr" ELSE "qos", data |-> IF x.up THEN x.attr ELSE x.qos]
  BY <1>1 DEF PdrEntry, Ported
<1>6. ASSUME NEW b, NEW q, x = PdrAcc(b, Yes, K, "set_pdr_attributes", y, q)
      PROVE  e.data = y /\ e.with = "attr" /\ e.action = "set_pdr_attributes"
  BY <1>5, <1>6 DEF PdrAcc, Yes
<1>7. ASSUME NEW b, NEW a, x = PdrAcc(b, No, K, "set_pdr_attributes_qos", a, y)
      PROVE  e.data = y /\ e.with = "qos" /\ e.action = "set_pdr_attributes_qos"
  BY <1>5, <1>7 DEF PdrAcc, No
<1>8. /\ e.data = y
      /\ \/ e.with = "attr" /\ e.action = "set_pdr_attributes"
         \/ e.with = "qos" /\ e.action = "set_pdr_attributes_qos"
  BY <1>3, <1>4, <1>6, <1>7 DEF AfterPdi
<1>9. e.data.fseid = Sess(s) /\ e.data.pdrId = id /\ e.data.farId = f /\ e.data.decap = d
  BY <1>4, <1>8 DEF PdrAttr
<1>10. DOMAIN ies = 1..n
  BY <1>1
<1>11. \A j \in Given(ies, "PDRID") : Val(j) = id
  BY <1>3, <1>10 DEF Given, Knows
<1>12. \A j \in Given(ies, "FARID") : Val(j) = f
  BY <1>3, <1>10 DEF Given, Knows
<1>13. Removes(ies, n) <=> Given(ies, "OuterHeaderRemoval") # {}
  BY <1>10 DEF Given, Removes
<1>14. d <=> d = Yes
  BY <1>3 DEF Yes, No
<1>15. e.data.decap <=> Given(ies, "OuterHeaderRemoval") # {}
  <2>1. e.data.decap <=> d
    BY <1>9
  <2> QED
    BY <1>3, <1>13, <1>14, <2>1, Zenon
<1>16. e.action = IF e.with = "attr" THEN "set_pdr_attributes" ELSE "set_pdr_attributes_qos"
  BY <1>8
<1> QED
  BY <1>9, <1>11, <1>12, <1>15, <1>16

(* The address of a UE is None or that of an IE.                           *)
PdiRec(src, teid, addr, ue, sdf) ==
  [src |-> src, teid |-> teid, addr |-> addr, ue |-> ue, sdf |-> sdf]
PdiOf(x, ue) == \E a, b, c, d : x = PdiRec(a, b, c, ue, d)
LEMMA PdiTaken ==
  ASSUME NEW x, NEW ue, PdiOf(x, ue), NEW i
  PROVE  \/ PdiOf(PdiTake(x, i), ue)
         \/ Type(i) = "UEIPAddress" /\ Readable(i) /\ PdiOf(PdiTake(x, i), Val(i))
<1>1. PICK src, teid, addr, sdf, v : x = PdiRec(src, teid, addr, ue, sdf) /\ v = Val(i)
  BY DEF PdiOf
<1>2. \A a, b, c, u, d : PdiOf(PdiRec(a, b, c, u, d), u)
  BY DEF PdiOf
<1>3. [x EXCEPT !.src = v] = PdiRec(v, teid, addr, ue, sdf)
  BY <1>1 DEF PdiRec
<1>4. [x EXCEPT !.teid = v.teid, !.addr = v.addr] = PdiRec(src, v.teid, v.addr, ue, sdf)
  <2>1. [x EXCEPT !.teid = v.teid, !.addr = v.addr] = [[x EXCEPT !.teid = v.teid] EXCEPT !.addr = v.addr]
    OBVIOUS
  <2>2. [x EXCEPT !.teid = v.teid] = PdiRec(src, v.teid, addr, ue, sdf)
    BY <1>1 DEF PdiRec
  <2>3. [PdiRec(src, v.teid, addr, ue, sdf) EXCEPT !.addr = v.addr] = PdiRec(src, v.teid, v.addr, ue, sdf)
    BY DEF PdiRec
  <2> QED
    BY <2>1, <2>2, <2>3, Zenon
<1>5. [x EXCEPT !.ue = v] = PdiRec(src, teid, addr, v, sdf)
  BY <1>1 DEF PdiRec
<1>6. \A f : [x EXCEPT !.sdf = f] = PdiRec(src, teid, addr, ue, f)
  BY <1>1 DEF PdiRec
<1>7. PICK y : y = PdiTake(x, i)
  OBVIOUS
<1>8. \/ y = x
      \/ y = PdiRec(v, teid, addr, ue, sdf) \/ y = PdiRec(src, v.teid, v.addr, ue, sdf)
      \/ Readable(i) /\ Type(i) = "UEIPAddress" /\ y = PdiRec(src, teid, addr, v, sdf)
      \/ y = PdiRec(src, teid, addr, ue, SdfFilter(Val(i)))
  <2>1. CASE ~Readable(i)
    BY <1>7, <2>1 DEF PdiTake
  <2>2. CASE Readable(i) /\ Type(i) = "SourceInterface"
    <3>1. y = [x EXCEPT !.src = v]
      BY <1>1, <1>7, <2>2 DEF PdiTake
    <3> QED
      BY <1>3, <3>1
  <2>3. CASE Readable(i) /\ Type(i) = "FTEID"
    <3>1. y = [x EXCEPT !.teid = v.teid, !.addr = v.addr]
      BY <1>1, <1>7, <2>3 DEF PdiTake
    <3> QED
      BY <1>4, <3>1
  <2>4. CASE Readable(i) /\ Type(i) = "UEIPAddress"
    <3>1. y = [x EXCEPT !.ue = v]
      BY <1>1, <1>7, <2>4 DEF PdiTake
    <3> QED
      BY <1>5, <2>4, <3>1
  <2>5. CASE Readable(i) /\ Type(i) = "SDFFilter" /\ SdfFilter(Val(i)) # <<>>
    <3>1. PICK f : f = SdfFilter(Val(i))
      OBVIOUS
    <3>2. y = [x EXCEPT !.sdf = f]
      BY <1>7, <2>5, <3>1 DEF PdiTake
    <3> QED
      BY <1>6, <3>1, <3>2
  <2>6. CASE /\ Readable(i) /\ Type(i) \notin {"SourceInterface", "FTEID", "UEIPAddress"}
             /\ ~(Type(i) = "SDFFilter" /\ SdfFilter(Val(i)) # <<>>)
    BY <1>7, <2>6 DEF PdiTake
  <2> QED
    BY <2>1, <2>2, <2>3, <2>4, <2>5, <2>6
<1>9. PdiOf(y, ue) \/ (Readable(i) /\ Type(i) = "UEIPAddress" /\ PdiOf(y, v))
  BY <1>2, <1>8
<1> QED
  BY <1>1, <1>7, <1>9

(* So a PDI whose IEs have addresses has one, or none.                     *)
LEMMA PdiAddressed ==
  ASSUME NEW S, NEW ies \in Seq(S), NEW A, \A i \in Given(ies, "UEIPAddress") : Val(i) \in A
  PROVE  NewPdi(ies).ue \in A \union {None}
<1>1. PICK p : /\ p[0] = NoPdi /\ \A k \in 1..Len(ies) : p[k] = PdiTake(p[k - 1], ies[k])
               /\ NewPdi(ies) = p[Len(ies)]
  BY PdiLoop
<1>2. PICK n : n = Len(ies)
  OBVIOUS
<1> DEFINE T == {k \in 0..n : \E u \in A \union {None} : PdiOf(p[k], u)}
<1>3. 0 \in T
  <2>1. NoPdi = PdiRec(ACCESS, NoTEID, None, None, <<>>)
    BY DEF NoPdi, PdiRec
  <2>2. PdiOf(p[0], None)
    BY <1>1, <2>1 DEF PdiOf
  <2> QED
    BY <1>2, <2>2
<1>4. ASSUME NEW k \in 0..(n - 1), k \in T
      PROVE  k + 1 \in T
  <2>1. k + 1 \in 1..n /\ k + 1 \in 0..n /\ (k + 1) - 1 = k
    BY <1>2
  <2>2. PICK i : i = ies[k + 1]
    OBVIOUS
  <2>3. p[k + 1] = PdiTake(p[k], i)
    BY <1>1, <1>2, <2>1, <2>2
  <2>4. PICK u \in A \union {None} : PdiOf(p[k], u)
    BY <1>4
  <2>5. \/ PdiOf(p[k + 1], u)
        \/ Type(i) = "UEIPAddress" /\ Readable(i) /\ PdiOf(p[k + 1], Val(i))
    BY <2>3, <2>4, PdiTaken
  <2>6. Type(i) = "UEIPAddress" /\ Readable(i) => i \in Given(ies, "UEIPAddress")
    BY <1>2, <2>1, <2>2 DEF Given
  <2>7. \E w \in A \union {None} : PdiOf(p[k + 1], w)
    BY <2>4, <2>5, <2>6
  <2> QED
    BY <2>1, <2>7
<1>5. n \in Nat
  BY <1>2
<1>6. n \in T
  <2> HIDE DEF T
  <2>1. 0..n \subseteq T
    BY <1>3, <1>4, <1>5, UpTo
  <2> QED
    BY <1>5, <2>1
<1>7. PICK u \in A \union {None} : PdiOf(p[n], u)
  BY <1>6
<1>8. p[n].ue = u
  BY <1>7 DEF PdiOf, PdiRec
<1> QED
  BY <1>1, <1>2, <1>7, <1>8

-----------------------------------------------------------------------------
(* A UE of a pool of 24 bits or more is in the network of its first 24.    *)
LEMMA PoolWithin ==
  ASSUME NEW ue \in Addresses, NEW ip \in Addresses \union {None}, NEW len \in Nat, len >= 24,
         Within(ue, ip, len)
  PROVE  Within(ue, Network(ip, len), 24)
<1>1. ip # None /\ ue # None /\ Network(ue, len) = Network(ip, len)
  BY DEF Within
<1>2. ip \in Addresses
  BY <1>1
<1>3. \A x \in Addresses : /\ x # None
                           /\ Network(x, len) = <<x[1], x[2], IF len = 32 THEN x[3] ELSE 0>>
                           /\ Network(x, 24) = <<x[1], x[2], 0>>
  BY DEF Network, Addresses, None
<1>4. PICK y : y = Network(ip, len)
  OBVIOUS
<1>5. y = <<ip[1], ip[2], IF len = 32 THEN ip[3] ELSE 0>> /\ y \in Addresses
  BY <1>2, <1>3, <1>4 DEF Addresses
<1>6. ue[1] = ip[1] /\ ue[2] = ip[2]
  BY <1>1, <1>2, <1>3
<1>7. y[1] = ip[1] /\ y[2] = ip[2]
  BY <1>5
<1>8. Network(ue, 24) = Network(y, 24)
  BY <1>3, <1>5, <1>6, <1>7
<1>9. Within(ue, y, 24)
  BY <1>1, <1>3, <1>5, <1>8 DEF Within
<1> QED
  BY <1>4, <1>9

(* Which source a packet is told to have.                                  *)
LEMMA ToldOne ==
  ASSUME NEW from
  PROVE  /\ \A d : from = {d} => Told(from) = d
         /\ from = {} => Told(from).iface = UNKNOWN
         /\ from # {} => Told(from) \in from
<1>1. \A d : from = {d} => (CHOOSE x \in from : TRUE) = d
  OBVIOUS
<1>2. from # {} => (CHOOSE x \in from : TRUE) \in from
  OBVIOUS
<1>3. \A d : from = {d} => from # {}
  OBVIOUS
<1> QED
  BY <1>1, <1>2, <1>3 DEF Told

(* The fields of a key.                                                    *)
LEMMA KeyFields ==
  ASSUME NEW init, NEW pdi, NEW key, key = Ported(OwnKey(init, pdi))
  PROVE  /\ key.src = pdi.src /\ key.ue = pdi.ue /\ key.uePorts = AllPorts /\ key.inetPorts = AllPorts
         /\ pdi.src = ACCESS => /\ key.inet = pdi.addr /\ key.tunnel # NoTunnel
                                /\ key.teid = pdi.teid /\ key.dst = pdi.addr
         /\ pdi.src # ACCESS => key.inet = init.N3IPAddr /\ key.tunnel = NoTunnel
<1>1. PICK k, none, r, g, h, s0 :
        /\ k = NoKey /\ none = None /\ r = NoRange /\ g = NoTEID /\ h = NoTunnel /\ s0 = ACCESS
  OBVIOUS
<1>2. k = [src |-> s0, teid |-> g, tunnel |-> h, dst |-> none, ue |-> none, inet |-> none,
           uePorts |-> r, inetPorts |-> r]
  BY <1>1 DEF NoKey
<1>3. PICK all, n3, a, te, b, d :
        /\ all = AllPorts /\ n3 = init.N3IPAddr /\ a = pdi.src /\ te = pdi.teid /\ b = pdi.ue /\ d = pdi.addr
  OBVIOUS
<1>4. CASE pdi.src = ACCESS
  <2>1. OwnKey(init, pdi) = [k EXCEPT !.src = a, !.teid = te, !.tunnel = 1, !.dst = d, !.ue = b, !.inet = d]
    BY <1>1, <1>3, <1>4 DEF OwnKey, PdrKey, Uplink
  <2>2. PICK o : o = OwnKey(init, pdi)
    OBVIOUS
  <2>3. o = [src |-> a, teid |-> te, tunnel |-> 1, dst |-> d, ue |-> b, inet |-> d, uePorts |-> r, inetPorts |-> r]
    BY <1>2, <2>1, <2>2
  <2>4. key = [o EXCEPT !.uePorts = all, !.inetPorts = all]
    BY <1>3, <2>2 DEF Ported
  <2>5. /\ key.src = a /\ key.ue = b /\ key.uePorts = all /\ key.inetPorts = all
        /\ key.inet = d /\ key.tunnel = 1 /\ key.teid = te /\ key.dst = d
    BY <2>3, <2>4
  <2>6. 1 # NoTunnel
    BY DEF NoTunnel
  <2> QED
    BY <1>3, <1>4, <2>5, <2>6, Zenon
<1>5. CASE pdi.src # ACCESS
  <2>1. OwnKey(init, pdi) = [k EXCEPT !.src = a, !.ue = b, !.inet = n3]
    BY <1>1, <1>3, <1>5 DEF OwnKey, PdrKey, Uplink, No
  <2>2. PICK o : o = OwnKey(init, pdi)
    OBVIOUS
  <2>3. o = [src |-> a, teid |-> g, tunnel |-> h, dst |-> none, ue |-> b, inet |-> n3, uePorts |-> r, inetPorts |-> r]
    BY <1>2, <2>1, <2>2
  <2>4. key = [o EXCEPT !.uePorts = all, !.inetPorts = all]
    BY <1>3, <2>2 DEF Ported
  <2>5. /\ key.src = a /\ key.ue = b /\ key.uePorts = all /\ key.inetPorts = all
        /\ key.inet = n3 /\ key.tunnel = h
    BY <2>3, <2>4
  <2> QED
    BY <1>1, <1>3, <1>5, <2>5, Zenon
<1> QED
  BY <1>4, <1>5

(* A packet of the rule is found by its key: one with ports, and from the  *)
(* UE one without.                                                         *)
Typical(l4) == l4 = Portless \/ l4[1] \in {"udp", "tcp"}
LEMMA PortsOfTunnel ==
  ASSUME NEW l4, Typical(l4)
  PROVE  HasPorts(TunnelPorts(l4)) <=> HasPorts(l4) \/ l4 = Portless
<1>1. CASE l4[1] \in {"udp", "tcp"}
  <2>1. l4 # Portless
    BY <1>1 DEF Portless
  <2> QED
    BY <1>1, <2>1 DEF TunnelPorts
<1>2. CASE l4 = Portless
  <2>1. TunnelPorts(l4) = Udp(GTP_GPDU, GTP_GPDU)
    BY <1>2 DEF TunnelPorts, Portless
  <2>2. HasPorts(Udp(GTP_GPDU, GTP_GPDU))
    BY DEF HasPorts, InRange, AllPorts, Udp, GTP_GPDU
  <2> QED
    BY <1>2, <2>1, <2>2, Zenon
<1> QED
  BY <1>1, <1>2 DEF Typical

LEMMA OwnFound ==
  ASSUME NEW init, init.N3IPAddr \in Addresses, init.N6IPAddr \in Addresses \union {None}, NEW pdi,
         pdi.ue \in Addresses, pdi.src \in {ACCESS, CORE}, Within(pdi.ue, init.UEIPNet, 24),
         pdi.ue # init.N3IPAddr, pdi.ue # init.N6IPAddr,
         pdi.src = ACCESS => pdi.addr = init.N3IPAddr,
         NEW l4, Typical(l4), NEW key, key = Ported(OwnKey(init, pdi))
  PROVE  /\ pdi.src = ACCESS =>
              (Finds(init, key, UplinkPacket(init, pdi.addr, pdi.teid, pdi.ue, l4))
                <=> HasPorts(l4) \/ l4 = Portless)
         /\ pdi.src = CORE => (Finds(init, key, DownlinkPacket(init, pdi.ue, l4)) <=> HasPorts(l4))
<1>1. PICK all : all = AllPorts
  OBVIOUS
<1>4. key.uePorts = all /\ key.inetPorts = all
  BY <1>1, KeyFields
<1>5. \A p : HasPorts(p) <=> InRange(p[2], all) /\ InRange(p[3], all)
  BY <1>1, Zenon DEF HasPorts
<1>2. CASE pdi.src = ACCESS
  <2>1. PICK s, p : /\ s = Seen(Tables(init, {}, {}), UplinkPacket(init, pdi.addr, pdi.teid, pdi.ue, l4))
                    /\ p = TunnelPorts(l4)
    OBVIOUS
  <2>2. SeenAs(s, Source(init, pdi.addr), pdi.ue, init.N3IPAddr, p) /\ s.outer = pdi.addr /\ s.teid = pdi.teid
    BY <2>1, UplinkSeen
  <2>3. Source(init, pdi.addr) = FromAccess
    BY <1>2, AccessFound, ToldOne DEF Source
  <2>4. /\ s.iface = ACCESS /\ s.ue = pdi.ue /\ s.inet = init.N3IPAddr
        /\ s.uePort = p[2] /\ s.inetPort = p[3]
    BY <2>2, <2>3 DEF SeenAs, FromAccess
  <2>7. /\ key.src = ACCESS /\ key.ue = pdi.ue /\ key.inet = pdi.addr
        /\ key.teid = pdi.teid /\ key.dst = pdi.addr
    BY <1>2, KeyFields
  <2>5. Matches(key, s) <=> InRange(p[2], all) /\ InRange(p[3], all)
    BY <1>2, <1>4, <2>2, <2>4, <2>7 DEF Matches
  <2>6. ACCESS # CORE
    BY DEF ACCESS, CORE
  <2>8. Matches(key, s) <=> HasPorts(l4) \/ l4 = Portless
    BY <1>5, <2>1, <2>5, PortsOfTunnel, Zenon
  <2> QED
    BY <1>2, <2>1, <2>8, <2>6, Zenon DEF Finds
<1>3. CASE pdi.src = CORE
  <2>1. PICK s : s = Seen(Tables(init, {}, {}), DownlinkPacket(init, pdi.ue, l4))
    OBVIOUS
  <2>2. SeenAs(s, Source(init, pdi.ue), init.N3IPAddr, pdi.ue, l4)
    BY <2>1, DownlinkSeen
  <2>3. Source(init, pdi.ue) = FromCore
    <3>1. Lookup(SourceIface(init), pdi.ue) = {FromCore}
      BY CoreFound
    <3> QED
      BY <3>1, ToldOne DEF Source
  <2>4. /\ s.iface = CORE /\ s.ue = pdi.ue /\ s.inet = init.N3IPAddr
        /\ s.uePort = l4[3] /\ s.inetPort = l4[2]
    BY <2>2, <2>3 DEF SeenAs, FromCore
  <2>6. ACCESS # CORE
    BY DEF ACCESS, CORE
  <2>7. /\ key.src = CORE /\ key.ue = pdi.ue /\ key.inet = init.N3IPAddr /\ key.tunnel = NoTunnel
    BY <1>3, <2>6, KeyFields
  <2>5. Matches(key, s) <=> InRange(l4[2], all) /\ InRange(l4[3], all)
    BY <1>4, <2>4, <2>7 DEF Matches
  <2>8. Matches(key, s) <=> HasPorts(l4)
    BY <1>5, <2>5, Zenon
  <2> QED
    BY <1>3, <2>1, <2>8, <2>6, Zenon DEF Finds
<1> QED
  BY <1>2, <1>3

(* p4gtp5g.go:396, :497, driver.go:130: whatever is configured and         *)
(* whichever session it is, a packet of a PDR of a pool of 24 bits or more *)
(* finds its entry if it has ports, and one without if it comes from the   *)
(* UE; the entry has what the IEs say.                                     *)
THEOREM PacketsFindRules ==
  ASSUME NEW cfg, NEW lseid, NEW S, NEW ies \in Seq(S), NEW l4, Typical(l4),
         IfAddr(cfg, "N3") \in Addresses \union {None}, IfAddr(cfg, "N6") \in Addresses \union {None},
         cfg.dnnList[1].ip \in Addresses \union {None}, cfg.dnnList[1].len \in Nat,
         \A i \in Given(ies, "PDI") : \E V : /\ Val(i) \in Seq(V)
                                             /\ \A j \in Given(Val(i), "UEIPAddress") : Val(j) \in Addresses
  PROVE  PacketFindsRule(cfg, lseid, ies, l4)
<1>1. PICK init, e, i, pdi, pool :
        /\ init = InitParameters(cfg) /\ e = PdrEntry(init, lseid, ies)
        /\ i = CHOOSE x \in Given(ies, "PDI") : TRUE
        /\ pdi = NewPdi(Val(i)) /\ pool = cfg.dnnList[1]
  OBVIOUS
<1> DEFINE Guarded == /\ PdrInOrder(ies) /\ Given(ies, "PDI") # {}
                      /\ pool.len >= 24 /\ Within(pdi.ue, pool.ip, pool.len)
                      /\ pdi.ue \notin {init.N3IPAddr, init.N6IPAddr} /\ init.N3IPAddr # None
                      /\ pdi.src = ACCESS => pdi.addr = init.N3IPAddr
                      /\ pdi.src \in {ACCESS, CORE} /\ l4[3] # IPV4_IN_UDP
           Found == /\ pdi.src = ACCESS =>
                         (Finds(init, e.key, UplinkPacket(init, pdi.addr, pdi.teid, pdi.ue, l4))
                           <=> HasPorts(l4) \/ l4 = Portless)
                    /\ pdi.src = CORE =>
                         (Finds(init, e.key, DownlinkPacket(init, pdi.ue, l4)) <=> HasPorts(l4))
                    /\ e.action = IF e.with = "attr" THEN "set_pdr_attributes" ELSE "set_pdr_attributes_qos"
                    /\ e.data.fseid = lseid % Uint32
                    /\ \A j \in Given(ies, "PDRID") : e.data.pdrId = Val(j)
                    /\ \A j \in Given(ies, "FARID") : e.data.farId = Val(j)
                    /\ e.data.decap <=> Given(ies, "OuterHeaderRemoval") # {}
<1>2. ASSUME Guarded
      PROVE  Found
  <2>1. i \in Given(ies, "PDI") /\ Once(ies)
    BY <1>1, <1>2 DEF PdrInOrder
  <2>2. e.key = Ported(OwnKey(init, pdi))
    BY <1>1, <2>1, KeyOfPdi
  <2>3. /\ init.N3IPAddr = IfAddr(cfg, "N3") /\ init.N6IPAddr = IfAddr(cfg, "N6")
        /\ init.UEIPNet = Network(pool.ip, pool.len)
    BY <1>1 DEF InitParameters
  <2>4. pdi.ue \in Addresses
    <3>1. pdi.ue # None
      BY <1>2 DEF Within
    <3>2. PICK V : Val(i) \in Seq(V) /\ \A j \in Given(Val(i), "UEIPAddress") : Val(j) \in Addresses
      BY <2>1
    <3>3. pdi.ue \in Addresses \union {None}
      BY <1>1, <3>2, PdiAddressed
    <3> QED
      BY <3>1, <3>3
  <2>5. Within(pdi.ue, init.UEIPNet, 24)
    <3>1. PICK ue, ip, len : ue = pdi.ue /\ ip = pool.ip /\ len = pool.len
      OBVIOUS
    <3>2. ue \in Addresses /\ ip \in Addresses \union {None} /\ len \in Nat /\ len >= 24 /\ Within(ue, ip, len)
      BY <1>1, <1>2, <2>4, <3>1
    <3>3. Within(ue, Network(ip, len), 24)
      BY <3>2, PoolWithin
    <3> QED
      BY <2>3, <3>1, <3>3
  <2>6. PICK key : key = e.key
    OBVIOUS
  <2>7. /\ pdi.src = ACCESS =>
             (Finds(init, key, UplinkPacket(init, pdi.addr, pdi.teid, pdi.ue, l4))
               <=> HasPorts(l4) \/ l4 = Portless)
        /\ pdi.src = CORE => (Finds(init, key, DownlinkPacket(init, pdi.ue, l4)) <=> HasPorts(l4))
    <3>1. init.N3IPAddr \in Addresses /\ init.N6IPAddr \in Addresses \union {None}
      BY <1>2, <2>3
    <3>2. key = Ported(OwnKey(init, pdi))
      BY <2>2, <2>6
    <3> QED
      BY <1>2, <2>4, <2>5, <3>1, <3>2, OwnFound
  <2>8. /\ e.action = IF e.with = "attr" THEN "set_pdr_attributes" ELSE "set_pdr_attributes_qos"
        /\ e.data.fseid = Sess(lseid)
        /\ \A j \in Given(ies, "PDRID") : e.data.pdrId = Val(j)
        /\ \A j \in Given(ies, "FARID") : e.data.farId = Val(j)
        /\ e.data.decap <=> Given(ies, "OuterHeaderRemoval") # {}
    BY <1>1, <1>2, <2>1, PdrRead
  <2> QED
    BY <2>6, <2>7, <2>8, Zenon DEF Sess
<1>3. PacketFindsRule(cfg, lseid, ies, l4) <=> (Guarded => Found)
  BY <1>1, Zenon DEF PacketFindsRule
<1> HIDE DEF Guarded, Found
<1> QED
  BY <1>2, <1>3

(* What the interface is told by the destination of a packet.              *)
LEMMA SourceTold ==
  ASSUME NEW init, NEW dst,
         init.N3IPAddr \in Addresses \union {None}, init.N6IPAddr \in Addresses \union {None}
  PROVE  /\ \/ Source(init, dst) = FromCore \/ Source(init, dst) = FromAccess
            \/ Source(init, dst).iface = UNKNOWN
         /\ Source(init, dst) = FromAccess /\ dst \in Addresses => dst = init.N3IPAddr
<1>1. ACCESS # CORE /\ ACCESS # UNKNOWN /\ CORE # UNKNOWN
  BY DEF ACCESS, CORE, UNKNOWN
<1>2. PICK from : from = Lookup(SourceIface(init), dst) /\ Source(init, dst) = Told(from)
  BY DEF Source
<1>3. ASSUME NEW d \in from
      PROVE  /\ d = FromCore \/ (d = FromAccess /\ dst = init.N3IPAddr) \/ dst \notin Addresses
             /\ d = FromCore \/ d = FromAccess
  BY <1>2, <1>3, SourcesTwo
<1>4. FromCore # FromAccess
  BY <1>1 DEF FromCore, FromAccess
<1>5. FromAccess.iface # UNKNOWN
  BY <1>1 DEF FromAccess
<1> QED
  BY <1>2, <1>3, <1>4, <1>5, ToldOne

(* p4gtp5g.go:415, define.p4:130: whatever is configured, a PDR of an      *)
(* interface that is neither 0 nor 2 takes no packet.                      *)
THEOREM OthersMissed ==
  ASSUME NEW cfg, NEW S, NEW ies \in Seq(S), NEW hs,
         IfAddr(cfg, "N3") \in Addresses \union {None}, IfAddr(cfg, "N6") \in Addresses \union {None}
  PROVE  OtherInterfacesMiss(cfg, ies, hs)
<1>1. PICK init, key, i, pdi :
        /\ init = InitParameters(cfg) /\ key = PdrEntry(init, 0, ies).key
        /\ i = CHOOSE x \in Given(ies, "PDI") : TRUE
        /\ pdi = NewPdi(Val(i))
  OBVIOUS
<1> DEFINE Guarded == Once(ies) /\ Given(ies, "PDI") # {} /\ pdi.src \notin {ACCESS, CORE, UNKNOWN}
<1>2. ASSUME Guarded
      PROVE  ~Finds(init, key, hs)
  <2>1. i \in Given(ies, "PDI")
    BY <1>1, <1>2
  <2>2. key = Ported(OwnKey(init, pdi))
    BY <1>1, <1>2, <2>1, KeyOfPdi
  <2>3. key.src = pdi.src
    BY <2>2, KeyFields
  <2>4. PICK t, s, f : /\ t = Tables(init, {}, {}) /\ s = Seen(t, hs)
                       /\ f = Told(Lookup(t.source_iface, hs[1][2].dst))
    OBVIOUS
  <2>5. s.iface = f.iface
    <3>1. \A from : f = Told(from) =>
            f = IF from = {} THEN [iface |-> UNKNOWN, direction |-> UNKNOWN] ELSE CHOOSE d \in from : TRUE
      BY DEF Told
    <3>2. f = IF Lookup(t.source_iface, hs[1][2].dst) = {} THEN [iface |-> UNKNOWN, direction |-> UNKNOWN]
              ELSE CHOOSE d \in Lookup(t.source_iface, hs[1][2].dst) : TRUE
      BY <2>4, <3>1
    <3> QED
      BY <2>4, <3>2 DEF Seen
  <2>6. t.source_iface = SourceIface(init)
    BY <2>4 DEF Tables, SetupTables
  <2>7. f = Source(init, hs[1][2].dst)
    BY <2>4, <2>6 DEF Source
  <2>8. init.N3IPAddr \in Addresses \union {None} /\ init.N6IPAddr \in Addresses \union {None}
    BY <1>1 DEF InitParameters
  <2>9. f.iface \in {ACCESS, CORE, UNKNOWN}
    <3>1. f = FromCore \/ f = FromAccess \/ f.iface = UNKNOWN
      BY <2>7, <2>8, SourceTold
    <3>2. FromCore.iface = CORE /\ FromAccess.iface = ACCESS
      BY DEF FromCore, FromAccess
    <3> QED
      BY <3>1, <3>2
  <2>10. ~Matches(key, s)
    BY <1>2, <2>3, <2>5, <2>9 DEF Matches
  <2> QED
    BY <2>4, <2>10, Zenon DEF Finds
<1>3. OtherInterfacesMiss(cfg, ies, hs) <=> (Guarded => ~Finds(init, key, hs))
  BY <1>1, Zenon DEF OtherInterfacesMiss
<1> HIDE DEF Guarded
<1> QED
  BY <1>2, <1>3

(* p4gtp5g.go:449: whatever is configured, a PDR takes no packet of        *)
(* another tunnel or UE, nor one of the other direction.                   *)
THEOREM StrangersMissed ==
  ASSUME NEW cfg, NEW S, NEW ies \in Seq(S), NEW teid, NEW other \in Addresses, NEW l4,
         IfAddr(cfg, "N3") \in Addresses \union {None}, IfAddr(cfg, "N6") \in Addresses \union {None}
  PROVE  StrangersMiss(cfg, ies, teid, other, l4)
<1>1. PICK init, key, i, pdi, n3 :
        /\ init = InitParameters(cfg) /\ key = PdrEntry(init, 0, ies).key
        /\ i = CHOOSE x \in Given(ies, "PDI") : TRUE
        /\ pdi = NewPdi(Val(i)) /\ n3 = init.N3IPAddr
  OBVIOUS
<1> DEFINE Guarded == /\ Once(ies) /\ Given(ies, "PDI") # {} /\ pdi.src \in {ACCESS, CORE}
                      /\ teid # pdi.teid /\ other \notin {pdi.ue, n3}
           Missed == /\ pdi.src = ACCESS => ~Finds(init, key, UplinkPacket(init, pdi.addr, teid, pdi.ue, l4))
                     /\ ~Finds(init, key, UplinkPacket(init, pdi.addr, pdi.teid, other, l4))
                     /\ ~Finds(init, key, DownlinkPacket(init, other, l4))
                     /\ pdi.src = CORE => ~Finds(init, key, UplinkPacket(init, n3, pdi.teid, pdi.ue, l4))
<1>2. ASSUME Guarded
      PROVE  Missed
  <2>1. i \in Given(ies, "PDI")
    BY <1>1, <1>2
  <2>2. key = Ported(OwnKey(init, pdi))
    BY <1>1, <1>2, <2>1, KeyOfPdi
  <2>3. n3 \in Addresses \union {None} /\ init.N6IPAddr \in Addresses \union {None}
    BY <1>1 DEF InitParameters
  <2>4. /\ key.src = pdi.src /\ key.ue = pdi.ue
        /\ pdi.src = ACCESS => key.tunnel # NoTunnel /\ key.teid = pdi.teid
        /\ pdi.src # ACCESS => key.inet = n3
    BY <1>1, <2>2, KeyFields
  <2>5. ACCESS # CORE /\ ACCESS # UNKNOWN /\ CORE # UNKNOWN
    BY DEF ACCESS, CORE, UNKNOWN
  <2>6. \A dst : /\ \/ Source(init, dst) = FromCore \/ Source(init, dst) = FromAccess
                    \/ Source(init, dst).iface = UNKNOWN
                 /\ Source(init, dst) = FromAccess /\ dst \in Addresses => dst = n3
    BY <1>1, <2>3, SourceTold
  <2>7. ASSUME NEW s, NEW f, NEW src, NEW dst, NEW p, SeenAs(s, f, src, dst, p),
               f = FromCore \/ f = FromAccess \/ f.iface = UNKNOWN
        PROVE  /\ s.iface = ACCESS => f = FromAccess /\ s.ue = src /\ s.inet = dst
               /\ s.iface = CORE => f = FromCore /\ s.ue = dst /\ s.inet = src
    BY <2>5, <2>7 DEF SeenAs, FromAccess, FromCore
  <2>8. \A hs : Finds(init, key, hs) => Matches(key, Seen(Tables(init, {}, {}), hs))
    BY DEF Finds
  <2>9. ASSUME pdi.src = ACCESS, Finds(init, key, UplinkPacket(init, pdi.addr, teid, pdi.ue, l4))
        PROVE  FALSE
    <3>1. PICK s : s = Seen(Tables(init, {}, {}), UplinkPacket(init, pdi.addr, teid, pdi.ue, l4))
      OBVIOUS
    <3>2. Matches(key, s) /\ s.teid = teid
      <4>1. s.teid = teid
        BY <3>1, UplinkSeen
      <4> QED
        BY <2>8, <2>9, <3>1, <4>1, Zenon
    <3> QED
      BY <1>2, <2>4, <2>9, <3>2 DEF Matches
  <2>10. ASSUME Finds(init, key, UplinkPacket(init, pdi.addr, pdi.teid, other, l4))
         PROVE  FALSE
    <3>1. PICK s : s = Seen(Tables(init, {}, {}), UplinkPacket(init, pdi.addr, pdi.teid, other, l4))
      OBVIOUS
    <3>2. Matches(key, s)
      BY <2>8, <2>10, <3>1, Zenon
    <3>3. SeenAs(s, Source(init, pdi.addr), other, n3, TunnelPorts(l4))
      BY <1>1, <3>1, UplinkSeen
    <3>4. s.iface = ACCESS => s.ue = other
      BY <2>6, <2>7, <3>3
    <3>5. s.iface = CORE => s.inet = other
      BY <2>6, <2>7, <3>3
    <3> QED
      BY <1>2, <2>4, <3>2, <3>4, <3>5 DEF Matches
  <2>11. ASSUME Finds(init, key, DownlinkPacket(init, other, l4))
         PROVE  FALSE
    <3>1. PICK s : s = Seen(Tables(init, {}, {}), DownlinkPacket(init, other, l4))
      OBVIOUS
    <3>2. Matches(key, s)
      BY <2>8, <2>11, <3>1, Zenon
    <3>3. SeenAs(s, Source(init, other), n3, other, l4)
      BY <1>1, <3>1, DownlinkSeen
    <3>4. s.iface # ACCESS
      BY <1>2, <2>6, <2>7, <3>3
    <3>5. s.iface = CORE => s.ue = other
      BY <2>6, <2>7, <3>3
    <3> QED
      BY <1>2, <2>4, <3>2, <3>4, <3>5 DEF Matches
  <2>12. ASSUME pdi.src = CORE, Finds(init, key, UplinkPacket(init, n3, pdi.teid, pdi.ue, l4))
         PROVE  FALSE
    <3>1. PICK s : s = Seen(Tables(init, {}, {}), UplinkPacket(init, n3, pdi.teid, pdi.ue, l4))
      OBVIOUS
    <3>2. Matches(key, s)
      BY <2>8, <2>12, <3>1, Zenon
    <3>3. SeenAs(s, Source(init, n3), pdi.ue, n3, TunnelPorts(l4))
      BY <1>1, <3>1, UplinkSeen
    <3>4. n3 \in Addresses => Source(init, n3) = FromAccess
      BY <1>1, <2>3, AccessFound, ToldOne DEF Source
    <3>5. n3 = None => Source(init, n3).iface = UNKNOWN
      <4>1. ASSUME NEW R
            PROVE  Lookup(R, None) = {}
        <5>1. Hits(R, None) = {}
          BY DEF Hits, Within
        <5> QED
          BY <5>1 DEF Lookup
      <4> QED
        BY <4>1, ToldOne DEF Source
    <3>6. s.iface # CORE
      BY <2>3, <2>5, <3>3, <3>4, <3>5 DEF SeenAs, FromAccess
    <3> QED
      BY <2>4, <2>12, <3>2, <3>6 DEF Matches
  <2> QED
    BY <2>9, <2>10, <2>11, <2>12
<1>3. StrangersMiss(cfg, ies, teid, other, l4) <=> (Guarded => Missed)
  BY <1>1, Zenon DEF StrangersMiss
<1> HIDE DEF Guarded, Missed
<1> QED
  BY <1>2, <1>3

-----------------------------------------------------------------------------
(* What is known of a FAR while its IEs are read.                          *)
FarAcc(err, id, flags, tunnel) == [err |-> err, id |-> id, flags |-> flags, tunnel |-> tunnel]
FarTypes == {"FARID", "ApplyAction", "ForwardingParameters"}
TunnelSaid(init, flags, ies) ==
  Tunnel(init, flags, ForwardingParameter(ies).type, ForwardingParameter(ies).teid)
OneTunnel(init, flags, ies) == <<TunnelSaid(init, flags, ies)>>

(* One IE of a FAR.                                                        *)
LEMMA FarSteps ==
  ASSUME NEW init, NEW e \in {Yes, No}, NEW id, NEW fl, NEW tu, NEW acc, acc = FarAcc(e, id, fl, tu), NEW i
  PROVE  /\ e = Yes => FarTake(init, acc, i) = acc
         /\ e = No /\ Type(i) \notin FarTypes => FarTake(init, acc, i) = acc
         /\ e = No /\ Type(i) \in FarTypes /\ ~Readable(i) =>
              FarTake(init, acc, i) = FarAcc(Yes, id, fl, tu)
         /\ e = No /\ Readable(i) /\ Type(i) = "FARID" =>
              FarTake(init, acc, i) = FarAcc(No, Val(i), fl, tu)
         /\ e = No /\ Readable(i) /\ Type(i) = "ApplyAction" =>
              FarTake(init, acc, i) = FarAcc(No, id, Val(i), tu)
         /\ e = No /\ Readable(i) /\ Type(i) = "ForwardingParameters" =>
              FarTake(init, acc, i) = FarAcc(No, id, fl, OneTunnel(init, fl, Val(i)))
<1>1. acc.flags = fl /\ acc.err = e /\ (e = Yes => acc.err) /\ (e = No => ~acc.err)
  BY DEF FarAcc, Yes, No
<1>2. PICK v, w, y : v = Val(i) /\ y = Yes /\ w = OneTunnel(init, fl, Val(i))
  OBVIOUS
<1>3. /\ [acc EXCEPT !.err = y] = FarAcc(y, id, fl, tu)
      /\ [acc EXCEPT !.id = v] = FarAcc(e, v, fl, tu)
      /\ [acc EXCEPT !.flags = v] = FarAcc(e, id, v, tu)
      /\ [acc EXCEPT !.tunnel = w] = FarAcc(e, id, fl, w)
  BY DEF FarAcc
<1>4. e = Yes => FarTake(init, acc, i) = acc
  BY <1>1 DEF FarTake
<1>5. e = No /\ Type(i) \notin FarTypes => FarTake(init, acc, i) = acc
  BY DEF FarTake, FarTypes
<1>6. ASSUME e = No, Type(i) \in FarTypes, ~Readable(i)
      PROVE  FarTake(init, acc, i) = FarAcc(Yes, id, fl, tu)
  <2>1. FarTake(init, acc, i) = [acc EXCEPT !.err = y]
    BY <1>1, <1>2, <1>6 DEF FarTake, FarTypes, Yes
  <2> QED
    BY <1>2, <1>3, <2>1, Zenon
<1>7. ASSUME e = No, Readable(i), Type(i) = "FARID"
      PROVE  FarTake(init, acc, i) = FarAcc(No, Val(i), fl, tu)
  <2>1. FarTake(init, acc, i) = [acc EXCEPT !.id = v]
    BY <1>1, <1>2, <1>7 DEF FarTake
  <2> QED
    BY <1>2, <1>3, <1>7, <2>1, Zenon
<1>8. ASSUME e = No, Readable(i), Type(i) = "ApplyAction"
      PROVE  FarTake(init, acc, i) = FarAcc(No, id, Val(i), tu)
  <2>1. FarTake(init, acc, i) = [acc EXCEPT !.flags = v]
    BY <1>1, <1>2, <1>8 DEF FarTake
  <2> QED
    BY <1>2, <1>3, <1>8, <2>1, Zenon
<1>9. ASSUME e = No, Readable(i), Type(i) = "ForwardingParameters"
      PROVE  FarTake(init, acc, i) = FarAcc(No, id, fl, OneTunnel(init, fl, Val(i)))
  <2>1. FarTake(init, acc, i) = [acc EXCEPT !.tunnel = w]
    <3>1. PICK p : p = ForwardingParameter(Val(i))
      OBVIOUS
    <3>2. w = <<Tunnel(init, acc.flags, p.type, p.teid)>>
      BY <1>1, <1>2, <3>1 DEF OneTunnel, TunnelSaid
    <3>3. FarTake(init, acc, i) = [acc EXCEPT !.tunnel = <<Tunnel(init, acc.flags, p.type, p.teid)>>]
      BY <1>1, <1>9, <3>1 DEF FarTake
    <3> QED
      BY <3>2, <3>3
  <2> QED
    BY <1>2, <1>3, <1>9, <2>1, Zenon
<1> QED
  BY <1>4, <1>5, <1>6, <1>7, <1>8, <1>9

(* The flags that a tunnel has are all that the rule says.                 *)
TunnelKnown(init, tu, ies, k) ==
  \/ tu = <<>> /\ \A j \in 1..k : ~(Type(ies[j]) = "ForwardingParameters" /\ Readable(ies[j]))
  \/ \E j \in 1..k : \E f : /\ Type(ies[j]) = "ForwardingParameters" /\ Readable(ies[j])
                            /\ tu = OneTunnel(init, f, Val(ies[j]))
                            /\ Knows(ies, Len(ies), "ApplyAction", f)
FarKnown(x, init, ies, k) ==
  \/ \E id, fl, tu : x = FarAcc(Yes, id, fl, tu)
  \/ \E id, fl, tu : /\ x = FarAcc(No, id, fl, tu)
                     /\ Knows(ies, k, "FARID", id) /\ Knows(ies, k, "ApplyAction", fl)
                     /\ TunnelKnown(init, tu, ies, k)

(* One more IE, of a rule that says how before it says where to.           *)
LEMMA FarKnownNext ==
  ASSUME NEW init, NEW ies, NEW n \in Nat, n = Len(ies), NEW x, NEW k \in 0..(n - 1),
         \A j, m \in 1..n : Type(ies[j]) = Type(ies[m]) => j = m,
         \A j, m \in 1..n : Type(ies[j]) = "ApplyAction" /\ Type(ies[m]) = "ForwardingParameters" => j < m,
         FarKnown(x, init, ies, k)
  PROVE  FarKnown(FarTake(init, x, ies[k + 1]), init, ies, k + 1)
<1>1. PICK i, y : i = ies[k + 1] /\ y = FarTake(init, x, i)
  OBVIOUS
<1>2. k + 1 \in 1..n /\ k + 1 \in 1..(k + 1)
  OBVIOUS
<1>3. (\A j \in 1..(k + 1) : j \in 1..k \/ j = k + 1) /\ (\A j \in 1..k : j \in 1..(k + 1) /\ j \in 1..n)
  OBVIOUS
<1>4. ASSUME NEW type, NEW v, Knows(ies, k, type, v), Type(i) # type \/ ~Readable(i)
      PROVE  Knows(ies, k + 1, type, v)
  BY <1>1, <1>3, <1>4 DEF Knows
<1>5. ASSUME NEW type, Type(i) = type
      PROVE  Knows(ies, k + 1, type, Val(i))
  <2>1. \A j \in 1..(k + 1) : Type(ies[j]) = type => j = k + 1
    BY <1>1, <1>2, <1>3, <1>5
  <2> QED
    BY <1>1, <2>1 DEF Knows
<1>6. ASSUME NEW tu, TunnelKnown(init, tu, ies, k), ~(Type(i) = "ForwardingParameters" /\ Readable(i))
      PROVE  TunnelKnown(init, tu, ies, k + 1)
  <2>1. CASE tu = <<>> /\ \A j \in 1..k : ~(Type(ies[j]) = "ForwardingParameters" /\ Readable(ies[j]))
    BY <1>1, <1>3, <1>6, <2>1 DEF TunnelKnown
  <2>2. CASE \E j \in 1..k : \E f : /\ Type(ies[j]) = "ForwardingParameters" /\ Readable(ies[j])
                                    /\ tu = OneTunnel(init, f, Val(ies[j]))
                                    /\ Knows(ies, Len(ies), "ApplyAction", f)
    BY <1>3, <2>2, Zenon DEF TunnelKnown
  <2> QED
    BY <1>6, <2>1, <2>2 DEF TunnelKnown
<1>7. ASSUME NEW id, NEW fl, NEW tu, x = FarAcc(Yes, id, fl, tu)
      PROVE  FarKnown(y, init, ies, k + 1)
  <2>1. y = x
    BY <1>1, <1>7, FarSteps
  <2> QED
    BY <1>7, <2>1 DEF FarKnown
<1>8. ASSUME NEW id, NEW fl, NEW tu, x = FarAcc(No, id, fl, tu),
             Knows(ies, k, "FARID", id), Knows(ies, k, "ApplyAction", fl), TunnelKnown(init, tu, ies, k)
      PROVE  FarKnown(y, init, ies, k + 1)
  <2>1. ASSUME NEW id2, NEW fl2, NEW tu2, y = FarAcc(No, id2, fl2, tu2), Knows(ies, k + 1, "FARID", id2),
               Knows(ies, k + 1, "ApplyAction", fl2), TunnelKnown(init, tu2, ies, k + 1)
        PROVE  FarKnown(y, init, ies, k + 1)
    BY <2>1, Zenon DEF FarKnown
  <2>2. CASE Type(i) \notin FarTypes
    <3>1. y = FarAcc(No, id, fl, tu)
      BY <1>1, <1>8, <2>2, FarSteps
    <3>2. Type(i) # "FARID" /\ Type(i) # "ApplyAction" /\ Type(i) # "ForwardingParameters"
      BY <2>2 DEF FarTypes
    <3> QED
      BY <1>4, <1>6, <1>8, <2>1, <3>1, <3>2, Zenon
  <2>3. CASE Type(i) \in FarTypes /\ ~Readable(i)
    <3>1. y = FarAcc(Yes, id, fl, tu)
      BY <1>1, <1>8, <2>3, FarSteps
    <3> QED
      BY <3>1, Zenon DEF FarKnown
  <2>4. CASE Readable(i) /\ Type(i) = "FARID"
    <3>1. y = FarAcc(No, Val(i), fl, tu)
      BY <1>1, <1>8, <2>4, FarSteps
    <3>2. Type(i) # "ApplyAction" /\ Type(i) # "ForwardingParameters"
      BY <2>4
    <3> QED
      BY <1>4, <1>5, <1>6, <1>8, <2>1, <2>4, <3>1, <3>2, Zenon
  <2>5. CASE Readable(i) /\ Type(i) = "ApplyAction"
    <3>1. y = FarAcc(No, id, Val(i), tu)
      BY <1>1, <1>8, <2>5, FarSteps
    <3>2. Type(i) # "FARID" /\ Type(i) # "ForwardingParameters"
      BY <2>5
    <3> QED
      BY <1>4, <1>5, <1>6, <1>8, <2>1, <2>5, <3>1, <3>2, Zenon
  <2>6. CASE Readable(i) /\ Type(i) = "ForwardingParameters"
    <3>1. y = FarAcc(No, id, fl, OneTunnel(init, fl, Val(i)))
      BY <1>1, <1>8, <2>6, FarSteps
    <3>2. Type(i) # "FARID" /\ Type(i) # "ApplyAction"
      BY <2>6
    <3>3. Knows(ies, Len(ies), "ApplyAction", fl)
      <4>1. \A j \in 1..n : Type(ies[j]) = "ApplyAction" => j < k + 1
        BY <1>1, <1>2, <2>6
      <4>2. \A j \in 1..n : j < k + 1 => j \in 1..k
        OBVIOUS
      <4>3. Knows(ies, n, "ApplyAction", fl)
        BY <1>8, <4>1, <4>2 DEF Knows
      <4> QED
        BY <4>3, Zenon
    <3>4. TunnelKnown(init, OneTunnel(init, fl, Val(i)), ies, k + 1)
      <4>1. PICK tu2 : tu2 = OneTunnel(init, fl, Val(i))
        OBVIOUS
      <4>2. Type(ies[k + 1]) = "ForwardingParameters" /\ Readable(ies[k + 1])
            /\ tu2 = OneTunnel(init, fl, Val(ies[k + 1]))
        BY <1>1, <2>6, <4>1
      <4>3. TunnelKnown(init, tu2, ies, k + 1)
        BY <1>2, <3>3, <4>2, Zenon DEF TunnelKnown
      <4> QED
        BY <4>1, <4>3, Zenon
    <3> QED
      BY <1>4, <1>8, <2>1, <3>1, <3>2, <3>4, Zenon
  <2> QED
    BY <2>2, <2>3, <2>4, <2>5, <2>6 DEF FarTypes
<1>9. FarKnown(y, init, ies, k + 1)
  BY <1>7, <1>8 DEF FarKnown
<1> QED
  BY <1>1, <1>9, Zenon

(* So at its end all that a FAR says is known.                             *)
LEMMA FarKnownAtEnd ==
  ASSUME NEW init, NEW S, NEW ies \in Seq(S), Once(ies),
         Ordered(ies, {"ApplyAction"}, {"ForwardingParameters"})
  PROVE  FarKnown(FarLoop(init, ies)[Len(ies)], init, ies, Len(ies))
<1>1. PICK p, n : p = FarLoop(init, ies) /\ n = Len(ies)
  OBVIOUS
<1>2. /\ n \in Nat /\ p[0] = NoFarYet
      /\ \A k \in 1..n : p[k] = FarTake(init, p[k - 1], ies[k])
  BY <1>1, FarLoopSteps
<1>3. DOMAIN ies = 1..n
  BY <1>1
<1>4. /\ \A j, m \in 1..n : Type(ies[j]) = Type(ies[m]) => j = m
      /\ \A j, m \in 1..n : Type(ies[j]) = "ApplyAction" /\ Type(ies[m]) = "ForwardingParameters" => j < m
  BY <1>3 DEF Once, Ordered
<1> DEFINE T == {k \in 0..n : FarKnown(p[k], init, ies, k)}
<1>5. 0 \in T
  <2>1. PICK tu : tu = <<>>
    OBVIOUS
  <2>2. p[0] = FarAcc(No, 0, 0, tu)
    BY <1>2, <2>1 DEF NoFarYet, FarAcc, No
  <2>3. Knows(ies, 0, "FARID", 0) /\ Knows(ies, 0, "ApplyAction", 0) /\ TunnelKnown(init, tu, ies, 0)
    BY <2>1 DEF Knows, TunnelKnown
  <2>4. FarKnown(p[0], init, ies, 0)
    BY <2>2, <2>3, Zenon DEF FarKnown
  <2> QED
    BY <1>2, <2>4
<1>6. ASSUME NEW k \in 0..(n - 1), k \in T
      PROVE  k + 1 \in T
  <2>1. k + 1 \in 1..n /\ k + 1 \in 0..n /\ (k + 1) - 1 = k
    BY <1>2
  <2>2. PICK x : x = p[k]
    OBVIOUS
  <2>3. FarKnown(x, init, ies, k)
    BY <1>6, <2>2
  <2>4. p[k + 1] = FarTake(init, x, ies[k + 1])
    BY <1>2, <2>1, <2>2
  <2>5. FarKnown(FarTake(init, x, ies[k + 1]), init, ies, k + 1)
    BY <1>1, <1>2, <1>4, <2>3, FarKnownNext
  <2> QED
    BY <2>1, <2>4, <2>5
<1>7. n \in T
  <2> HIDE DEF T
  <2>1. 0..n \subseteq T
    BY <1>2, <1>5, <1>6, UpTo
  <2> QED
    BY <1>2, <2>1
<1> QED
  BY <1>1, <1>7

(* What the four flags say.                                                *)
LEMMA FlagBits ==
  ASSUME NEW v \in 0..15
  PROVE  /\ IsBitSet(v, 1) <=> v % 2 = 1
         /\ IsBitSet(v, 4) <=> v \in {4, 5, 6, 7, 12, 13, 14, 15}
         /\ IsBitSet(v, 8) <=> v >= 8
<1>1. v \in {0, 1, 2, 3, 4, 5, 6, 7, 8, 9, 10, 11, 12, 13, 14, 15}
  OBVIOUS
<1>2. IsBitSet(v, 1) <=> v % 2 = 1
  BY DEF IsBitSet
<1>3. IsBitSet(v, 4) <=> v \in {4, 5, 6, 7, 12, 13, 14, 15}
  BY <1>1 DEF IsBitSet
<1>4. IsBitSet(v, 8) <=> v >= 8
  BY <1>1 DEF IsBitSet
<1> QED
  BY <1>2, <1>3, <1>4

(* The entry of a FAR that is no error: one action for those that say where *)
(* to, another for the others.                                             *)
AsFlagged(f, ies) == \A i \in Given(ies, "ApplyAction") : f = Val(i)
LEMMA FarRead ==
  ASSUME NEW init, NEW s, NEW S, NEW ies \in Seq(S), Once(ies),
         Ordered(ies, {"ApplyAction"}, {"ForwardingParameters"}),
         NEW e, e = FarEntry(init, s, ies), ~e.err
  PROVE  /\ \A i \in Given(ies, "FARID") : e.key = [fseid |-> Sess(s), farId |-> Val(i)]
         /\ Given(ies, "ForwardingParameters") = {} =>
              /\ e.action = "load_tunnel_far_attributes"
              /\ \E f : e.data = Tunnel(init, f, 3, 1) /\ AsFlagged(f, ies)
         /\ Given(ies, "ForwardingParameters") # {} =>
              /\ e.action = "load_normal_far_attributes"
              /\ \E f, ty, te : e.data = Tunnel(init, f, ty, te) /\ AsFlagged(f, ies)
<1>1. PICK x, n : x = FarLoop(init, ies)[Len(ies)] /\ n = Len(ies)
  OBVIOUS
<1>2. DOMAIN ies = 1..n /\ Len(ies) = n
  BY <1>1
<1>3. FarKnown(x, init, ies, n)
  BY <1>1, FarKnownAtEnd, Zenon
<1>4. /\ e.err = x.err /\ e.key = [fseid |-> Sess(s), farId |-> x.id]
      /\ e.data = IF x.tunnel # <<>> THEN x.tunnel[1] ELSE Tunnel(init, x.flags, 3, 1)
      /\ e.action = IF x.tunnel # <<>> THEN "load_normal_far_attributes"
                    ELSE "load_tunnel_far_attributes"
  BY <1>1 DEF FarEntry, Sess
<1>5. \A id, fl, tu : x # FarAcc(Yes, id, fl, tu)
  BY <1>4 DEF FarAcc, Yes
<1>6. PICK id, fl, tu : /\ x = FarAcc(No, id, fl, tu)
                        /\ Knows(ies, n, "FARID", id) /\ Knows(ies, n, "ApplyAction", fl)
                        /\ TunnelKnown(init, tu, ies, n)
  BY <1>3, <1>5, Zenon DEF FarKnown
<1>7. x.id = id /\ x.flags = fl /\ x.tunnel = tu
  BY <1>6 DEF FarAcc
<1>8. \A type, v : Knows(ies, n, type, v) => \A i \in Given(ies, type) : v = Val(i)
  BY <1>2 DEF Knows, Given
<1>9. \A v : Knows(ies, n, "ApplyAction", v) => AsFlagged(v, ies)
  BY <1>8 DEF AsFlagged
<1>10. CASE tu = <<>> /\ \A j \in 1..n : ~(Type(ies[j]) = "ForwardingParameters" /\ Readable(ies[j]))
  <2>1. Given(ies, "ForwardingParameters") = {}
    BY <1>2, <1>10 DEF Given
  <2>2. e.data = Tunnel(init, fl, 3, 1) /\ e.action = "load_tunnel_far_attributes"
    BY <1>4, <1>7, <1>10
  <2> QED
    BY <1>4, <1>6, <1>7, <1>8, <1>9, <2>1, <2>2
<1>11. ASSUME NEW j \in 1..n, NEW f, Type(ies[j]) = "ForwardingParameters", Readable(ies[j]),
              tu = OneTunnel(init, f, Val(ies[j])), Knows(ies, n, "ApplyAction", f)
       PROVE  /\ Given(ies, "ForwardingParameters") # {}
              /\ e.action = "load_normal_far_attributes"
              /\ \E g, ty, te : e.data = Tunnel(init, g, ty, te) /\ AsFlagged(g, ies)
  <2>1. PICK i : i = ies[j]
    OBVIOUS
  <2>2. i \in Given(ies, "ForwardingParameters")
    BY <1>2, <1>11, <2>1 DEF Given
  <2>4. PICK t : t = TunnelSaid(init, f, Val(i))
    OBVIOUS
  <2>5. tu = <<t>>
    BY <1>11, <2>1, <2>4 DEF OneTunnel
  <2>6. e.data = t /\ e.action = "load_normal_far_attributes"
    BY <1>4, <1>7, <2>5
  <2>7. PICK ty, te : ty = ForwardingParameter(Val(i)).type /\ te = ForwardingParameter(Val(i)).teid
    OBVIOUS
  <2>8. e.data = Tunnel(init, f, ty, te)
    BY <2>4, <2>6, <2>7 DEF TunnelSaid
  <2> QED
    BY <1>9, <1>11, <2>2, <2>6, <2>8
<1>12. CASE \E j \in 1..n : \E f : /\ Type(ies[j]) = "ForwardingParameters" /\ Readable(ies[j])
                                   /\ tu = OneTunnel(init, f, Val(ies[j]))
                                   /\ Knows(ies, n, "ApplyAction", f)
  <2>1. /\ Given(ies, "ForwardingParameters") # {}
        /\ e.action = "load_normal_far_attributes"
        /\ \E g, ty, te : e.data = Tunnel(init, g, ty, te) /\ AsFlagged(g, ies)
    BY <1>11, <1>12
  <2> QED
    BY <1>4, <1>6, <1>7, <1>8, <2>1
<1> QED
  BY <1>2, <1>6, <1>10, <1>12 DEF TunnelKnown

(* A table with one FAR.                                                   *)
WithFar(init, e) == Tables(init, {}, {e})
FarKeyOf(pdr) == [fseid |-> pdr.fseid, farId |-> pdr.farId]
LEMMA OneLoaded ==
  ASSUME NEW init, NEW pdr, NEW e, e.key = FarKeyOf(pdr),
         e.data.drop \in BOOLEAN, e.data.buffer \in BOOLEAN, e.data.notify \in BOOLEAN,
         NEW far, far = LoadFar(WithFar(init, e), pdr)
  PROVE  /\ e.action = "load_normal_far_attributes" =>
              /\ far.drop = e.data.drop /\ far.notify = e.data.notify /\ ~far.buffer /\ ~far.tunnel
         /\ e.action = "load_tunnel_far_attributes" =>
              /\ far.drop = e.data.drop /\ far.notify = e.data.notify /\ far.buffer = e.data.buffer
              /\ far.tunnel /\ far.type = e.data.type /\ far.teid = e.data.teid
              /\ far.src = e.data.src /\ far.dst = e.data.dst
<1>1. PICK t : t = WithFar(init, e)
  OBVIOUS
<1>2. t.fars = {e} /\ e.key = [fseid |-> pdr.fseid, farId |-> pdr.farId]
  BY <1>1 DEF Tables, WithFar, FarKeyOf
<1>3. CASE e.action \in {"load_normal_far_attributes", "load_tunnel_far_attributes"}
  <2>1. WellSet(t)
    BY <1>2, <1>3 DEF WellSet
  <2>2. e \in t.fars
    BY <1>2
  <2>3. /\ far.drop = e.data.drop /\ far.notify = e.data.notify
        /\ far.buffer <=> e.action = "load_tunnel_far_attributes" /\ e.data.buffer
        /\ far.tunnel <=> e.action = "load_tunnel_far_attributes"
        /\ e.action = "load_tunnel_far_attributes" =>
             /\ far.type = e.data.type /\ far.src = e.data.src
             /\ far.dst = e.data.dst /\ far.teid = e.data.teid
    BY <1>1, <1>2, <2>1, <2>2, Loaded
  <2>4. CASE e.action = "load_tunnel_far_attributes"
    <3>1. far = [tunnel |-> TRUE, drop |-> e.data.drop, buffer |-> e.data.buffer,
                 notify |-> e.data.notify, type |-> e.data.type, src |-> e.data.src,
                 dst |-> e.data.dst, teid |-> e.data.teid, sport |-> e.data.port]
      <4> DEFINE hits == {x \in t.fars : x.key = [fseid |-> pdr.fseid, farId |-> pdr.farId]}
      <4>1. hits = {e} /\ (CHOOSE x \in hits : TRUE) = e
        <5>1. hits = {e}
          BY <1>2
        <5> QED
          BY <5>1
      <4> QED
        BY <1>1, <2>4, <4>1 DEF LoadFar
    <3>2. far.buffer = e.data.buffer
      BY <3>1
    <3> QED
      BY <2>3, <2>4, <3>2
  <2> QED
    BY <1>3, <2>3, <2>4
<1> QED
  BY <1>3

(* p4gtp5g.go:672, :700, :216: whatever is configured and whichever session*)
(* it is, this is what the switch does with a FAR of the four flags.       *)
THEOREM FarsAsSaid ==
  ASSUME NEW cfg, NEW lseid, NEW S, NEW ies \in Seq(S), NEW pdr,
         IfAddr(cfg, "N3") \in Addresses \union {None}, cfg.gnb \in Addresses,
         \A i \in Given(ies, "ApplyAction") : Val(i) \in 0..15
  PROVE  FarDoesWhatItSays(cfg, lseid, ies, pdr)
<1>1. PICK init, e, far :
        /\ init = InitParameters(cfg) /\ e = FarEntry(init, lseid, ies)
        /\ far = LoadFar(Tables(init, {}, {e}), pdr)
  OBVIOUS
<1> DEFINE Guarded == /\ Once(ies) /\ Ordered(ies, {"ApplyAction"}, {"ForwardingParameters"}) /\ ~e.err
                      /\ pdr.fseid = lseid % Uint32
                      /\ \A i \in Given(ies, "FARID") : pdr.farId = Val(i)
                      /\ Given(ies, "FARID") # {}
           Said == /\ \A i \in Given(ies, "ApplyAction") : /\ far.drop <=> Val(i) % 2 = 1
                                                           /\ far.notify <=> Val(i) >= 8
                   /\ Given(ies, "ForwardingParameters") # {} => ~far.tunnel /\ ~far.buffer
                   /\ Given(ies, "ForwardingParameters") = {} =>
                        /\ \A i \in Given(ies, "ApplyAction") :
                             far.buffer <=> Val(i) \in {4, 5, 6, 7, 12, 13, 14, 15}
                        /\ far.tunnel /\ far.type = GTPU /\ far.teid = 1
                        /\ <<far.src, far.dst>> = <<init.N3IPAddr, init.gNBAddr>>
                        /\ init.gNBAddr # init.N3IPAddr =>
                             Lookup(SetupTables(init).routes, far.dst)
                               = {[src |-> "N3Mac", dst |-> "gNBMac", port |-> 65]}
<1>2. ASSUME Guarded
      PROVE  Said
  <2>1. /\ \A i \in Given(ies, "FARID") : e.key = [fseid |-> Sess(lseid), farId |-> Val(i)]
        /\ Given(ies, "ForwardingParameters") = {} =>
             /\ e.action = "load_tunnel_far_attributes"
             /\ \E f : e.data = Tunnel(init, f, 3, 1) /\ AsFlagged(f, ies)
        /\ Given(ies, "ForwardingParameters") # {} =>
             /\ e.action = "load_normal_far_attributes"
             /\ \E f, ty, te : e.data = Tunnel(init, f, ty, te) /\ AsFlagged(f, ies)
    BY <1>1, <1>2, FarRead
  <2>2. e.key = FarKeyOf(pdr) /\ far = LoadFar(WithFar(init, e), pdr)
    BY <1>1, <1>2, <2>1 DEF Sess, FarKeyOf, WithFar
  <2>3. PICK f, ty, te : /\ e.data = Tunnel(init, f, ty, te) /\ AsFlagged(f, ies)
                         /\ Given(ies, "ForwardingParameters") = {} => ty = 3 /\ te = 1
    BY <2>1
  <2>4. /\ e.data.drop <=> IsBitSet(f, 1)
        /\ e.data.buffer <=> IsBitSet(f, 4)
        /\ e.data.notify <=> IsBitSet(f, 8)
        /\ e.data.type = ty /\ e.data.teid = te /\ e.data.src = init.N3IPAddr /\ e.data.dst = init.gNBAddr
    BY <2>3 DEF Tunnel
  <2>5. e.data.drop \in BOOLEAN /\ e.data.buffer \in BOOLEAN /\ e.data.notify \in BOOLEAN
    BY <2>3 DEF Tunnel, IsBitSet
  <2>6. /\ e.action = "load_normal_far_attributes" =>
             /\ far.drop = e.data.drop /\ far.notify = e.data.notify /\ ~far.buffer /\ ~far.tunnel
        /\ e.action = "load_tunnel_far_attributes" =>
             /\ far.drop = e.data.drop /\ far.notify = e.data.notify /\ far.buffer = e.data.buffer
             /\ far.tunnel /\ far.type = e.data.type /\ far.teid = e.data.teid
             /\ far.src = e.data.src /\ far.dst = e.data.dst
    BY <2>2, <2>5, OneLoaded
  <2>7. ASSUME NEW i \in Given(ies, "ApplyAction")
        PROVE  /\ IsBitSet(f, 1) <=> Val(i) % 2 = 1
               /\ IsBitSet(f, 4) <=> Val(i) \in {4, 5, 6, 7, 12, 13, 14, 15}
               /\ IsBitSet(f, 8) <=> Val(i) >= 8
    <3>1. f = Val(i) /\ f \in 0..15
      BY <2>3 DEF AsFlagged
    <3>2. /\ IsBitSet(f, 1) <=> f % 2 = 1
          /\ IsBitSet(f, 4) <=> f \in {4, 5, 6, 7, 12, 13, 14, 15}
          /\ IsBitSet(f, 8) <=> f >= 8
      BY <3>1, FlagBits
    <3> QED
      BY <3>1, <3>2
  <2>8. (far.drop <=> IsBitSet(f, 1)) /\ (far.notify <=> IsBitSet(f, 8))
    BY <2>1, <2>4, <2>6
  <2>9. \A i \in Given(ies, "ApplyAction") : /\ far.drop <=> Val(i) % 2 = 1
                                             /\ far.notify <=> Val(i) >= 8
    BY <2>7, <2>8
  <2>10. ASSUME Given(ies, "ForwardingParameters") = {}
         PROVE  /\ \A i \in Given(ies, "ApplyAction") :
                     far.buffer <=> Val(i) \in {4, 5, 6, 7, 12, 13, 14, 15}
                /\ far.tunnel /\ far.type = GTPU /\ far.teid = 1
                /\ <<far.src, far.dst>> = <<init.N3IPAddr, init.gNBAddr>>
                /\ init.gNBAddr # init.N3IPAddr =>
                     Lookup(SetupTables(init).routes, far.dst)
                       = {[src |-> "N3Mac", dst |-> "gNBMac", port |-> 65]}
    <3>1. /\ far.tunnel /\ (far.buffer <=> IsBitSet(f, 4)) /\ far.type = 3 /\ far.teid = 1
          /\ far.src = init.N3IPAddr /\ far.dst = init.gNBAddr
      BY <2>1, <2>3, <2>4, <2>6, <2>10
    <3>2. ASSUME init.gNBAddr # init.N3IPAddr
          PROVE  Lookup(SetupTables(init).routes, far.dst) = {GnbRoute}
      <4>1. init.N3IPAddr \in Addresses \union {None} /\ init.gNBAddr \in Addresses
        BY <1>1 DEF InitParameters
      <4>2. Lookup(Routes(init), init.gNBAddr) = {GnbRoute}
        BY <3>2, <4>1, GnbRouted
      <4>3. SetupTables(init).routes = Routes(init)
        BY DEF SetupTables
      <4> QED
        BY <3>1, <4>2, <4>3, Zenon
    <3>3. \A i \in Given(ies, "ApplyAction") : far.buffer <=> Val(i) \in {4, 5, 6, 7, 12, 13, 14, 15}
      BY <2>7, <3>1
    <3> QED
      BY <3>1, <3>2, <3>3 DEF GnbRoute, GTPU
  <2>11. Given(ies, "ForwardingParameters") # {} => ~far.tunnel /\ ~far.buffer
    BY <2>1, <2>6
  <2> QED
    BY <2>9, <2>10, <2>11
<1>3. ASSUME Guarded => Said
      PROVE  FarDoesWhatItSays(cfg, lseid, ies, pdr)
  BY <1>1, <1>3 DEF FarDoesWhatItSays
<1> HIDE DEF Guarded, Said
<1> QED
  BY <1>2, <1>3

(* The configurations of the runs with the P4 driver.                      *)
LEMMA RunConfigs ==
  ASSUME NEW cfg \in P4Cfgs
  PROVE  /\ IfAddr(cfg, "N3") \in Addresses /\ IfAddr(cfg, "N6") \in Addresses /\ cfg.gnb \in Addresses
         /\ cfg.dnnList[1].ip \in Addresses /\ cfg.dnnList[1].len \in Nat
<1>1. N3 \in Addresses /\ N6 \in Addresses /\ GNB \in Addresses /\ UE \in Addresses
  BY DEF Addresses, GNB, N3, N6, UE
<1>2. PICK l : l = <<If("N3", N3), If("N6", N6)>>
  OBVIOUS
<1>3. PICK l0, l1, l2 : l0 = <<>> /\ l1 = <<If("N3", N3)>> /\ l2 = <<If("N5", N3)>>
  OBVIOUS
<1>4. Len(l0) = 0 /\ Len(l1) = 1 /\ Len(l2) = 1
  BY <1>3
<1>5. PICK d0, d1, d2, d3, d4 : /\ d0 = <<>> /\ d1 = <<Pool(16)>> /\ d2 = <<Pool(24)>> /\ d3 = <<Pool(32)>>
                                /\ d4 = <<BadPool, Pool(24)>>
  OBVIOUS
<1>6. PICK m \in {l0, l1, l, l2}, g \in {N3, GNB}, d \in {d0, d1, d2, d3, d4} :
        cfg.ifList = m /\ cfg.gnb = g /\ cfg.dnnList = d
  <2>1. PICK Ps, Fs, Ls, Ds :
          /\ Ps = {Sections} \union {Sections \ {x} : x \in {"gnb", "upfc", "gtpu"}}
          /\ Fs = {"gtp5g", "p4gtp5g", "other"}
          /\ Ls = {<<>>, <<If("N3", N3)>>, <<If("N3", N3), If("N6", N6)>>, <<If("N5", N3)>>}
          /\ Ds = {<<>>, <<Pool(16)>>, <<Pool(24)>>, <<Pool(32)>>, <<BadPool, Pool(24)>>}
    OBVIOUS
  <2>2. Cfgs = {[present |-> s, forwarder |-> f, ifList |-> m, gnb |-> g, dnnList |-> d] :
                  s \in Ps, f \in Fs, m \in Ls, g \in {N3, GNB}, d \in Ds}
    BY <2>1 DEF Cfgs
  <2>3. cfg \in Cfgs
    BY DEF P4Cfgs
  <2>4. PICK s \in Ps, f \in Fs, m \in Ls, g \in {N3, GNB}, d \in Ds :
          cfg = [present |-> s, forwarder |-> f, ifList |-> m, gnb |-> g, dnnList |-> d]
    BY <2>2, <2>3
  <2>6. m \in {l0, l1, l, l2} /\ d \in {d0, d1, d2, d3, d4}
    BY <1>2, <1>3, <1>5, <2>1
  <2>5. cfg.ifList = m /\ cfg.gnb = g /\ cfg.dnnList = d
    BY <2>4
  <2> QED
    BY <2>5, <2>6
<1>8. cfg.dnnList # <<>> /\ cfg.dnnList[1] # BadPool /\ Len(cfg.ifList) = 2
  BY DEF P4Cfgs
<1>9. cfg.ifList = l
  <2>1. Len(m) = 2
    BY <1>6, <1>8
  <2>2. m \notin {l0, l1, l2}
    <3>1. 0 # 2 /\ 1 # 2
      OBVIOUS
    <3> QED
      BY <1>4, <2>1, <3>1, Zenon
  <2> QED
    BY <1>6, <2>2, Zenon
<1>10. cfg.dnnList[1] \in {Pool(16), Pool(24), Pool(32)}
  <2>1. d1[1] = Pool(16) /\ d2[1] = Pool(24) /\ d3[1] = Pool(32) /\ d4[1] = BadPool
    BY <1>5
  <2>2. cfg.dnnList \in {d1, d2, d3}
    BY <1>5, <1>6, <1>8
  <2> QED
    BY <2>1, <2>2
<1>11. cfg.dnnList[1].ip = UE /\ cfg.dnnList[1].len \in Nat
  BY <1>10 DEF Pool
<1>12. DOMAIN l = 1..2 /\ l[1] = If("N3", N3) /\ l[2] = If("N6", N6)
  BY <1>2
<1>13. l[1].addr = N3 /\ l[2].addr = N6 /\ l[1].type = "N3" /\ l[2].type = "N6"
  BY <1>12 DEF If
<1>14. ASSUME NEW k \in {1, 2}
       PROVE  Max({k}) = k
  BY DEF Max
<1>15. IfAddr(cfg, "N3") = N3
  <2>1. PICK ifs : ifs = {k \in DOMAIN l : l[k].type = "N3"}
    OBVIOUS
  <2>2. ifs = {1}
    BY <1>12, <1>13, <2>1
  <2>3. IfAddr(cfg, "N3") = IF ifs = {} THEN None ELSE l[Max(ifs)].addr
    BY <1>9, <2>1 DEF IfAddr
  <2> QED
    BY <1>13, <1>14, <2>2, <2>3
<1>16. IfAddr(cfg, "N6") = N6
  <2>1. PICK ifs : ifs = {k \in DOMAIN l : l[k].type = "N6"}
    OBVIOUS
  <2>2. ifs = {2}
    BY <1>12, <1>13, <2>1
  <2>3. IfAddr(cfg, "N6") = IF ifs = {} THEN None ELSE l[Max(ifs)].addr
    BY <1>9, <2>1 DEF IfAddr
  <2> QED
    BY <1>13, <1>14, <2>2, <2>3
<1> QED
  BY <1>1, <1>6, <1>11, <1>15, <1>16

(* Grouped IEs of up to three whose UEs have addresses.                    *)
Addressed(p) == \E V : p \in Seq(V) /\ \A j \in Given(p, "UEIPAddress") : Val(j) \in Addresses
HasAddress(i) == Type(i) = "UEIPAddress" => Val(i) \in Addresses
LEMMA Tuples ==
  ASSUME NEW a, NEW b, NEW c
  PROVE  /\ HasAddress(a) /\ HasAddress(b) => Addressed(<<a, b>>)
         /\ HasAddress(a) /\ HasAddress(b) /\ HasAddress(c) => Addressed(<<a, b, c>>)
<1>1. PICK p, q : p = <<a, b>> /\ q = <<a, b, c>>
  OBVIOUS
<1>2. PICK V : V = {a, b, c}
  OBVIOUS
<1>3. p \in Seq(V) /\ q \in Seq(V)
  BY <1>1, <1>2
<1>4. /\ DOMAIN p = 1..2 /\ p[1] = a /\ p[2] = b
      /\ DOMAIN q = 1..3 /\ q[1] = a /\ q[2] = b /\ q[3] = c
  BY <1>1
<1>5. HasAddress(a) /\ HasAddress(b) => Addressed(p)
  BY <1>3, <1>4 DEF Addressed, HasAddress, Given
<1>6. HasAddress(a) /\ HasAddress(b) /\ HasAddress(c) => Addressed(q)
  BY <1>3, <1>4 DEF Addressed, HasAddress, Given
<1> QED
  BY <1>1, <1>5, <1>6

(* A rule of the runs names the IEs of its kind.                           *)
LEMMA RunGiven ==
  ASSUME NEW k \in P4Kinds, NEW ies \in Seq(OfKind(k)), NEW type, NEW i \in Given(ies, type)
  PROVE  i \in P4IEs[k] /\ Type(i) = type
<1>1. i \in OfKind(k) /\ Type(i) = type /\ Readable(i)
  BY DEF Given
<1>2. \A j : ~Readable(Unreadable(j))
  BY DEF Readable, Unreadable
<1>3. i \in RuleIEs(k)
  BY <1>1, <1>2 DEF OfKind
<1> QED
  BY <1>1, <1>3 DEF RuleIEs

(* The PDIs of the runs have addresses;                                    *)
LEMMA RunPdis ==
  ASSUME NEW ies \in Seq(OfKind("P4PDR")), NEW i \in Given(ies, "PDI")
  PROVE  Addressed(Val(i))
<1>1. UE \in Addresses /\ <<3, 2, 7>> \in Addresses
  BY DEF Addresses, UE
<1>2. \A t, v : Type(IE(t, v)) = t /\ Val(IE(t, v)) = v
  BY DEF IE, Type, Val
<1>3. \A j : Type(Unreadable(j)) = Type(j)
  BY DEF Unreadable, Type
<1>4. PICK a, b, c : /\ a = IE("SourceInterface", 0) /\ b = IE("FTEID", [teid |-> 5, addr |-> N3])
                     /\ c = IE("UEIPAddress", UE)
  OBVIOUS
<1>5. PICK u : u = IE("UEIPAddress", <<3, 2, 7>>)
  OBVIOUS
<1>6. /\ Type(a) = "SourceInterface" /\ Type(b) = "FTEID"
      /\ Type(c) = "UEIPAddress" /\ Val(c) = UE /\ Type(u) = "UEIPAddress" /\ Val(u) = <<3, 2, 7>>
  BY <1>2, <1>4, <1>5
<1>7. /\ HasAddress(a) /\ HasAddress(b) /\ HasAddress(c) /\ HasAddress(u) /\ HasAddress(Unreadable(b))
      /\ \A v : HasAddress(IE("SourceInterface", v)) /\ HasAddress(IE("SDFFilter", v)) /\ HasAddress(IE("FTEID", v))
  BY <1>1, <1>2, <1>3, <1>6 DEF HasAddress
<1>8. PICK s : s = PdiIEs
  OBVIOUS
<1>9. s = <<a, b, c>>
  BY <1>4, <1>8 DEF PdiIEs
<1>10. s[1] = a /\ s[2] = b /\ s[3] = c
  BY <1>9
<1>11. PICK p : p = Val(i) /\ i = IE("PDI", p) /\ p \in P4Pdis
  <2>1. i \in P4IEs["P4PDR"] /\ Type(i) = "PDI"
    BY RunGiven DEF P4Kinds
  <2>2. P4IEs["P4PDR"] = {IE("PDRID", 1), IE("FARID", 4), IE("OuterHeaderRemoval", 0), IE("QERID", 2)}
                           \union {IE("PDI", q) : q \in P4Pdis}
    BY DEF P4IEs
  <2>3. i \in {IE("PDI", q) : q \in P4Pdis}
    BY <1>2, <2>1, <2>2
  <2> QED
    BY <1>2, <2>3
<1>12. \E x, y, z : /\ HasAddress(x) /\ HasAddress(y) /\ HasAddress(z)
                    /\ p = <<x, y>> \/ p = <<x, y, z>>
  <2>1. PICK f, v1, v2, t : /\ f = IE("SDFFilter", Filter("good"))
                            /\ v1 = IE("SourceInterface", 1) /\ v2 = IE("SourceInterface", 2)
                            /\ t = IE("FTEID", [teid |-> 6, addr |-> GNB])
    OBVIOUS
  <2>2. HasAddress(f) /\ HasAddress(v1) /\ HasAddress(v2) /\ HasAddress(t)
    BY <1>7, <2>1
  <2>3. P4Pdis = {s, <<s[2], s[3], f>>, <<v2, s[3]>>, <<v1, s[3]>>,
                  <<s[1], t, u>>, <<v2, Unreadable(s[2]), u>>}
    BY <1>5, <1>8, <2>1, Zenon DEF P4Pdis
  <2>4. \/ p = <<a, b, c>> \/ p = <<b, c, f>> \/ p = <<v2, c>> \/ p = <<v1, c>>
        \/ p = <<a, t, u>> \/ p = <<v2, Unreadable(b), u>>
    BY <1>9, <1>10, <1>11, <2>3
  <2> QED
    BY <1>7, <2>2, <2>4
<1> QED
  BY <1>11, <1>12, Tuples

(* their FARs have the four flags.                                         *)
LEMMA RunFars ==
  ASSUME NEW ies \in Seq(OfKind("P4FAR")), NEW i \in Given(ies, "ApplyAction")
  PROVE  Val(i) \in 0..15
<1>1. \A t, v : Type(IE(t, v)) = t /\ Val(IE(t, v)) = v
  BY DEF IE, Type, Val
<1>2. P4IEs["P4FAR"] = IEsOf({"FARID", "BARID"}, 2) \union {IE("ApplyAction", a) : a \in {1, 2, 4, 12}}
                         \union {IE("ForwardingParameters", p) : p \in Params}
  BY DEF P4IEs
<1>3. \A j \in IEsOf({"FARID", "BARID"}, 2) : Type(j) \in {"FARID", "BARID"}
  BY <1>1 DEF IEsOf
<1>4. i \in P4IEs["P4FAR"] /\ Type(i) = "ApplyAction"
  BY RunGiven DEF P4Kinds
<1>5. i \in {IE("ApplyAction", a) : a \in {1, 2, 4, 12}}
  BY <1>1, <1>2, <1>3, <1>4
<1> QED
  BY <1>1, <1>5

(* What the packets of the runs carry.                                     *)
LEMMA CarriedTypical ==
  ASSUME NEW l4 \in Carried
  PROVE  Typical(l4)
  BY DEF Carried, Typical, Udp, Tcp

(* p4gtp5g.go:375, :449, :622: every PDR and FAR of the runs.              *)
THEOREM SwitchEntriesAlways == Spec => []SwitchEntriesRight
<1>1. Inputs => SwitchEntriesRight
  <2> SUFFICES ASSUME Inputs, kind \in P4Kinds
               PROVE  SwitchEntriesRight
    BY DEF SwitchEntriesRight, P4Kinds
  <2>1. parts \in Seq(OfKind(kind)) /\ env \in P4Cfgs
    BY DEF Inputs
  <2>2. /\ IfAddr(env, "N3") \in Addresses \union {None} /\ IfAddr(env, "N6") \in Addresses \union {None}
        /\ env.gnb \in Addresses
        /\ env.dnnList[1].ip \in Addresses \union {None} /\ env.dnnList[1].len \in Nat
    BY <2>1, RunConfigs
  <2>3. ASSUME kind = "P4PDR", NEW l4 \in Carried
        PROVE  PacketFindsRule(env, 21, parts, l4)
    <3>1. \A i \in Given(parts, "PDI") :
            \E V : Val(i) \in Seq(V) /\ \A j \in Given(Val(i), "UEIPAddress") : Val(j) \in Addresses
      BY <2>1, <2>3, RunPdis DEF Addressed
    <3>2. PICK S : parts \in Seq(S)
      BY <2>1
    <3>3. Typical(l4)
      BY CarriedTypical
    <3> QED
      BY <2>2, <3>1, <3>2, <3>3, PacketsFindRules
  <2>4. ASSUME NEW l4, NEW other, other = <<9, 9, 9>>
        PROVE  StrangersMiss(env, parts, 7, other, l4)
    <3>1. other \in Addresses
      BY <2>4 DEF Addresses
    <3> QED
      BY <2>1, <2>2, <3>1, StrangersMissed
  <2>5. \A hs : OtherInterfacesMiss(env, parts, hs)
    BY <2>1, <2>2, OthersMissed
  <2>6. ASSUME kind = "P4FAR", NEW pdr
        PROVE  FarDoesWhatItSays(env, 21, parts, pdr)
    <3>1. \A i \in Given(parts, "ApplyAction") : Val(i) \in 0..15
      BY <2>1, <2>6, RunFars
    <3> QED
      BY <2>1, <2>2, <3>1, FarsAsSaid
  <2> QED
    BY <2>3, <2>4, <2>5, <2>6 DEF SwitchEntriesRight
<1> QED
  BY <1>1, InputsInductive, PTL
=============================================================================
