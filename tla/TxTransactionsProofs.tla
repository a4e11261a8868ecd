------------------------ MODULE TxTransactionsProofs ------------------------
(* Proofs about TxTransactions, for every number of requests, of           *)
(* retransmissions and every length of the timeout channel.                *)
EXTENDS TxTransactions, SequenceTheorems, TLAPS

(* The key of a request is its place in the order of sending, as long as   *)
(* fewer than SeqMod requests were sent.                                   *)
LEMMA RequestIsKey == Request \subseteq Seq32
BY NumberAssumption, SeqAssumption DEF Request, Seq32

(* txSeq does not wrap while requests are left to be sent.                 *)
LEMMA NextSeq ==
  ASSUME NEW n \in Nat, n < SeqMod
  PROVE  /\ (n + 1) % SeqMod \in Seq32
         /\ n + 1 < SeqMod => (n + 1) % SeqMod = n + 1
BY NumberAssumption, Z3 DEF Seq32

-----------------------------------------------------------------------------
Queued(s) == \E i \in DOMAIN trToCh : trToCh[i] = s

QueueDistinct ==
  \A i, j \in DOMAIN trToCh : trToCh[i] = trToCh[j] => i = j

(* A number that joins trToCh is queued once, and the others stay queued.  *)
LEMMA AppendQueued ==
  ASSUME trToCh \in Seq(Seq32), QueueDistinct,
         NEW s \in Seq32, ~Queued(s), trToCh' = Append(trToCh, s)
  PROVE  /\ trToCh' \in Seq(Seq32) /\ QueueDistinct'
         /\ \A t \in Seq32 : Queued(t)' <=> Queued(t) \/ t = s
<1>1. /\ trToCh' \in Seq(Seq32)
      /\ DOMAIN trToCh' = DOMAIN trToCh \union {Len(trToCh) + 1}
      /\ trToCh'[Len(trToCh) + 1] = s
      /\ \A a \in DOMAIN trToCh : trToCh'[a] = trToCh[a]
  BY AppendProperties
<1>2. \A a \in DOMAIN trToCh : trToCh[a] # s
  BY DEF Queued
<1>3. QueueDistinct'
  BY <1>1, <1>2 DEF QueueDistinct
<1>4. \A t \in Seq32 : Queued(t)' <=> Queued(t) \/ t = s
  BY <1>1 DEF Queued
<1> QED
  BY <1>1, <1>3, <1>4

(* The number main takes from trToCh is not queued any more, the others    *)
(* are.                                                                    *)
LEMMA TakeQueued ==
  ASSUME trToCh \in Seq(Seq32), QueueDistinct, NEW s, Take(s)
  PROVE  /\ trToCh' \in Seq(Seq32) /\ QueueDistinct'
         /\ s \in Seq32 /\ Queued(s)
         /\ \A t \in Seq32 : Queued(t)' <=> Queued(t) /\ t # s
<1>1. trToCh # << >> /\ s = Head(trToCh) /\ trToCh' = Tail(trToCh)
  BY DEF Take
<1>2. /\ trToCh' \in Seq(Seq32)
      /\ s \in Seq32 /\ s = trToCh[1] /\ 1 \in DOMAIN trToCh
      /\ DOMAIN trToCh' = 1..(Len(trToCh) - 1)
      /\ DOMAIN trToCh = 1..Len(trToCh) /\ Len(trToCh) \in Nat
      /\ \A a \in DOMAIN trToCh' : trToCh'[a] = trToCh[a + 1]
  BY <1>1
<1>3. \A a \in DOMAIN trToCh' : a \in Nat /\ a + 1 \in DOMAIN trToCh /\ a + 1 # 1
  BY <1>2
<1>4. \A a \in DOMAIN trToCh : a = 1 \/ a - 1 \in DOMAIN trToCh'
  BY <1>2
<1>5. QueueDistinct'
  <2> SUFFICES ASSUME NEW a \in DOMAIN trToCh', NEW b \in DOMAIN trToCh',
                      trToCh'[a] = trToCh'[b]
               PROVE  a = b
    BY DEF QueueDistinct
  <2>1. a + 1 = b + 1
    BY <1>2, <1>3 DEF QueueDistinct
  <2> QED
    BY <2>1, <1>3
<1>6. ASSUME NEW t \in Seq32, Queued(t), t # s
      PROVE  Queued(t)'
  <2>1. PICK a \in DOMAIN trToCh : trToCh[a] = t
    BY <1>6 DEF Queued
  <2>2. a - 1 \in DOMAIN trToCh' /\ (a - 1) + 1 = a
    BY <1>2, <1>4, <1>6, <2>1
  <2>3. trToCh'[a - 1] = t
    BY <1>2, <2>1, <2>2
  <2> QED
    BY <2>2, <2>3 DEF Queued
<1>7. ASSUME NEW t \in Seq32, Queued(t)'
      PROVE  Queued(t) /\ t # s
  <2>1. PICK a \in DOMAIN trToCh' : trToCh'[a] = t
    BY <1>7 DEF Queued
  <2>2. trToCh[a + 1] = t /\ a + 1 \in DOMAIN trToCh /\ a + 1 # 1
    BY <1>2, <1>3, <2>1
  <2> QED
    BY <1>2, <2>2 DEF Queued, QueueDistinct
<1>8. Queued(s)
  BY <1>2 DEF Queued
<1> QED
  BY <1>2, <1>5, <1>6, <1>7, <1>8

-----------------------------------------------------------------------------
(* The inductive invariant.  KeyOK(s) says of one sequence number where    *)
(* its transaction stands: not used yet, or waiting with one timer, or     *)
(* never sent and without a timer, or gone.                                *)
Waits(s) == txTrans[s].timer \/ s \in firing \/ Queued(s)

KeyOK(s) ==
  /\ s >= count => s \notin Live /\ s \notin firing /\ ~Queued(s)
  /\ s \in Live =>
       /\ txTrans[s].req = s
       /\ copies[s] = 0 \/ copies[s] = txTrans[s].retransCount + 1
       /\ copies[s] = 0 <=> ~Waits(s)
       /\ txTrans[s].timer => s \notin firing /\ ~Queued(s)
  /\ s \in firing => ~Queued(s)

(* The requests that have ended, and how often any request was sent.       *)
EndsOK ==
  /\ \A r \in Answered \union gaveUp : r < count /\ r \notin Live
  /\ Answered \intersect gaveUp = {}
  /\ \A r \in gaveUp : copies[r] = MaxRetrans + 1

CopiesOK ==
  \A r \in Request : copies[r] <= MaxRetrans + 1 /\ (r >= count => copies[r] = 0)

Inv ==
  /\ TypeOK
  /\ count < SeqMod => txSeq = count
  /\ QueueDistinct
  /\ \A s \in Seq32 : KeyOK(s)
  /\ CopiesOK
  /\ EndsOK

(* A new server satisfies the invariant.                                   *)
LEMMA InvInit == Init => Inv
<1> SUFFICES ASSUME Init PROVE Inv
  OBVIOUS
<1>1. TypeOK
  BY NumberAssumption DEF Init, TypeOK, Seq32
<1>2. \A s \in Seq32 : KeyOK(s)
  BY DEF Init, KeyOK, Live, Queued, Seq32
<1> QED
  BY <1>1, <1>2, NumberAssumption
     DEF Init, Inv, QueueDistinct, CopiesOK, EndsOK, Answered

(* What a live transaction is.                                             *)
LEMMA LiveEntry ==
  ASSUME Inv, NEW s \in Live
  PROVE  /\ s \in Seq32 /\ s < count /\ s \in Request
         /\ txTrans[s] \in Entry /\ txTrans[s].req = s
         /\ copies[s] \in Nat
<1>1. s \in Seq32 /\ txTrans[s] \in Entry
  BY DEF Live, Inv, TypeOK
<1>2. s < count /\ txTrans[s].req = s
  BY <1>1, NumberAssumption DEF Inv, KeyOK, TypeOK, Seq32
<1>3. s \in Request
  BY <1>1, <1>2 DEF Entry
<1> QED
  BY <1>1, <1>2, <1>3 DEF Inv, TypeOK

-----------------------------------------------------------------------------
(* A step that only touches the sequence number s.                         *)
LEMMA OthersKept ==
  ASSUME NEW s, NEW t \in Seq32, t # s, Inv,
         count' = count,
         txTrans'[t] = txTrans[t], t \in firing' <=> t \in firing,
         Queued(t)' <=> Queued(t),
         t \in Request => copies'[t] = copies[t]
  PROVE  KeyOK(t)'
<1>1. t \in Live' <=> t \in Live
  BY DEF Live
<1>2. t \in Live => t \in Request
  BY LiveEntry
<1> QED
  BY <1>1, <1>2 DEF Inv, KeyOK, Waits

(* A new transaction, sent or not, takes a number that nothing else uses.  *)
LEMMA SendStep ==
  ASSUME Inv, SendReq \/ SendReqFails
  PROVE  Inv'
<1> USE NumberAssumption, SeqAssumption, NoneAssumption
<1>1. /\ count < MaxReq /\ count < SeqMod /\ count \in Nat
      /\ txSeq = count /\ count \in Seq32 /\ count \in Request
  BY DEF SendReq, SendReqFails, Inv, TypeOK, Request, Seq32
<1>2. PICK sent \in BOOLEAN :
        /\ sent <=> SendReq
        /\ txTrans' = [txTrans EXCEPT ![count] =
                         [req |-> count, retransCount |-> 0, timer |-> sent]]
  BY <1>1 DEF SendReq, SendReqFails
<1> DEFINE e == [req |-> count, retransCount |-> 0, timer |-> sent]
<1>3. e \in Entry /\ e # NoTx /\ e.req = count /\ e.retransCount = 0 /\ e.timer = sent
  BY <1>1 DEF Entry
<1>4. /\ txTrans' \in [Seq32 -> Entry \union {NoTx}]
      /\ txTrans'[count] = e
      /\ \A t \in Seq32 \ {count} : txTrans'[t] = txTrans[t]
  <2> HIDE DEF e
  <2>1. txTrans' = [txTrans EXCEPT ![count] = e]
    BY <1>2 DEF e
  <2> QED
    BY <1>1, <1>3, <2>1 DEF Inv, TypeOK
<1>5. /\ copies' \in [Request -> Nat]
      /\ copies'[count] = IF sent THEN 1 ELSE 0
      /\ \A r \in Request \ {count} : copies'[r] = copies[r]
  <2>1. copies[count] = 0 /\ copies \in [Request -> Nat]
    BY <1>1 DEF Inv, CopiesOK, TypeOK
  <2>2. CASE sent
    BY <1>1, <1>2, <2>1, <2>2 DEF SendReq
  <2>3. CASE ~sent
    BY <1>2, <2>1, <2>3 DEF SendReqFails
  <2> QED
    BY <2>2, <2>3
<1>6. /\ count' = count + 1 /\ txSeq' = (txSeq + 1) % SeqMod
      /\ UNCHANGED <<firing, trToCh, answered, gaveUp>>
  BY DEF SendReq, SendReqFails
<1>7. txSeq' \in Seq32 /\ (count' < SeqMod => txSeq' = count')
  BY <1>1, <1>6, NextSeq
<1>8. net' \subseteq Packet
  <2>1. WireSeq(txSeq) \in Wire
    BY <1>1, Z3 DEF WireSeq, Wire
  <2> QED
    BY <1>1, <2>1 DEF SendReq, SendReqFails, Inv, TypeOK, Packet
<1>9. TypeOK'
  BY <1>1, <1>4, <1>5, <1>6, <1>7, <1>8 DEF Inv, TypeOK
<1>10. QueueDistinct' /\ \A t : Queued(t)' <=> Queued(t)
  BY <1>6 DEF Inv, QueueDistinct, Queued
<1>11. \A t \in Seq32 : KeyOK(t)'
  <2> HIDE DEF e
  <2> TAKE t \in Seq32
  <2>1. CASE t = count
    <3>1. /\ t \notin firing /\ ~Queued(t)
      BY <1>1, <2>1 DEF Inv, KeyOK
    <3> QED
      BY <3>1, <2>1, <1>1, <1>3, <1>4, <1>5, <1>6, <1>10 DEF KeyOK, Waits, Live
  <2>2. CASE t # count
    <3>1. t \in Live' <=> t \in Live
      BY <1>4, <2>2 DEF Live
    <3>2. t \in Live => t \in Request
      BY LiveEntry
    <3>3. t >= count' => t >= count
      BY <1>1, <1>6 DEF Seq32
    <3> QED
      BY <3>1, <3>2, <3>3, <2>2, <1>4, <1>5, <1>6, <1>10 DEF Inv, KeyOK, Waits
  <2> QED
    BY <2>1, <2>2
<1>12. CopiesOK'
  <2> SUFFICES ASSUME NEW r \in Request
               PROVE  copies'[r] <= MaxRetrans + 1 /\ (r >= count' => copies'[r] = 0)
    BY DEF CopiesOK
  <2>1. CASE r = count
    BY <2>1, <1>1, <1>5, <1>6
  <2>2. CASE r # count
    BY <2>2, <1>1, <1>5, <1>6 DEF Inv, CopiesOK, Request
  <2> QED
    BY <2>1, <2>2
<1>13. EndsOK'
  <2>1. Answered' = Answered /\ gaveUp' = gaveUp
    BY <1>6 DEF Answered
  <2>2. ASSUME NEW r \in Answered \union gaveUp
        PROVE  /\ r < count /\ r # count /\ r \in Request /\ r \notin Live'
    <3>1. r \in Request /\ r < count /\ r \notin Live
      BY <2>2 DEF Inv, EndsOK, Answered, TypeOK
    <3>2. r # count
      BY <3>1, <1>1
    <3> QED
      BY <3>1, <3>2, <1>4 DEF Live
  <2>3. \A r \in gaveUp : copies'[r] = MaxRetrans + 1
    BY <2>2, <1>5 DEF Inv, EndsOK
  <2>4. \A r \in Answered \union gaveUp : r < count' /\ r \notin Live'
    BY <2>2, <1>1, <1>6 DEF Request
  <2> QED
    BY <2>1, <2>3, <2>4 DEF Inv, EndsOK
<1> QED
  BY <1>7, <1>9, <1>10, <1>11, <1>12, <1>13 DEF Inv

(* A transaction that ends: its response has come, or it is given up.      *)
LEMMA EndStep ==
  ASSUME Inv, NEW s \in Live,
         txTrans' = [txTrans EXCEPT ![s] = NoTx],
         UNCHANGED <<count, copies, firing>>
  PROVE  /\ txTrans' \in [Seq32 -> Entry \union {NoTx}]
         /\ Live' = Live \ {s}
         /\ \A t \in Seq32 \ {s} : txTrans'[t] = txTrans[t]
<1>1. s \in Seq32 /\ txTrans \in [Seq32 -> Entry \union {NoTx}]
  BY LiveEntry DEF Inv, TypeOK
<1> QED
  BY <1>1 DEF Live

(* A response ends its transaction, wherever its timer is.                 *)
LEMMA RecvRspStep ==
  ASSUME Inv, NEW p \in net, RecvRsp(p)
  PROVE  Inv'
<1> DEFINE s == p.seq
<1>1. /\ s \in Live /\ txTrans' = [txTrans EXCEPT ![s] = NoTx]
      /\ answered' = answered \union {<<p.req, txTrans[s].req>>}
      /\ UNCHANGED <<count, txSeq, firing, trToCh, net, copies, gaveUp>>
  BY DEF RecvRsp
<1>2. p.req \in Request
  BY DEF Inv, TypeOK, Packet
<1> HIDE DEF s
<1>3. s \in Seq32 /\ s < count /\ s \in Request /\ txTrans[s].req = s
  BY <1>1, LiveEntry
<1>4. /\ txTrans' \in [Seq32 -> Entry \union {NoTx}]
      /\ Live' = Live \ {s}
      /\ \A t \in Seq32 \ {s} : txTrans'[t] = txTrans[t]
  BY <1>1, EndStep
<1>5. QueueDistinct' /\ \A t : Queued(t)' <=> Queued(t)
  BY <1>1 DEF Inv, QueueDistinct, Queued
<1>6. TypeOK'
  BY <1>1, <1>2, <1>3, <1>4 DEF Inv, TypeOK
<1>7. \A t \in Seq32 : KeyOK(t)'
  <2> TAKE t \in Seq32
  <2>1. CASE t = s
    BY <2>1, <1>1, <1>3, <1>4, <1>5 DEF Inv, KeyOK
  <2>2. CASE t # s
    BY <2>2, <1>1, <1>4, <1>5, OthersKept
  <2> QED
    BY <2>1, <2>2
<1>8. CopiesOK'
  BY <1>1 DEF Inv, CopiesOK
<1>9. EndsOK'
  <2>1. Answered' = Answered \union {s}
    <3>1. <<p.req, txTrans[s].req>>[2] = s
      BY <1>3
    <3>2. Answered' = {a[2] : a \in answered \union {<<p.req, txTrans[s].req>>}}
      BY <1>1 DEF Answered
    <3> QED
      BY <3>1, <3>2 DEF Answered
  <2>2. s \notin Answered \union gaveUp
    BY <1>1 DEF Inv, EndsOK
  <2> QED
    BY <2>1, <2>2, <1>1, <1>3, <1>4 DEF Inv, EndsOK
<1> QED
  BY <1>1, <1>5, <1>6, <1>7, <1>8, <1>9 DEF Inv

(* An expired timer becomes a goroutine that waits for the channel.        *)
LEMMA FireStep ==
  ASSUME Inv, NEW s \in Seq32, Fire(s)
  PROVE  Inv'
<1>1. /\ s \in Live /\ txTrans[s].timer
      /\ txTrans' = [txTrans EXCEPT ![s].timer = FALSE]
      /\ firing' = firing \union {s}
      /\ UNCHANGED <<count, txSeq, trToCh, net, copies, answered, gaveUp>>
  BY DEF Fire
<1>2. txTrans[s] \in Entry /\ s < count
  BY <1>1, LiveEntry
<1> DEFINE e == [txTrans[s] EXCEPT !.timer = FALSE]
<1>3. /\ e \in Entry /\ e # NoTx /\ e.req = txTrans[s].req /\ ~e.timer
      /\ e.retransCount = txTrans[s].retransCount
  BY <1>2, NoneAssumption DEF Entry
<1>4. /\ txTrans' \in [Seq32 -> Entry \union {NoTx}]
      /\ txTrans'[s] = e
      /\ \A t \in Seq32 \ {s} : txTrans'[t] = txTrans[t]
  <2>1. txTrans' = [txTrans EXCEPT ![s] = e]
    BY <1>1
  <2> HIDE DEF e
  <2> QED
    BY <2>1, <1>3 DEF Inv, TypeOK
<1> HIDE DEF e
<1>5. Live' = Live
  BY <1>1, <1>3, <1>4 DEF Live
<1>6. QueueDistinct' /\ \A t : Queued(t)' <=> Queued(t)
  BY <1>1 DEF Inv, QueueDistinct, Queued
<1>7. TypeOK'
  BY <1>1, <1>4 DEF Inv, TypeOK
<1>8. \A t \in Seq32 : KeyOK(t)'
  <2> TAKE t \in Seq32
  <2>1. CASE t = s
    <3>1. /\ txTrans[s].req = s
          /\ copies[s] = txTrans[s].retransCount + 1
          /\ copies[s] # 0
          /\ ~Queued(s)
      BY <1>1, <1>2 DEF Inv, KeyOK, Waits
    <3> QED
      BY <2>1, <3>1, <1>1, <1>2, <1>3, <1>4, <1>5, <1>6 DEF Inv, KeyOK, Waits
  <2>2. CASE t # s
    BY <2>2, <1>1, <1>4, <1>6, OthersKept
  <2> QED
    BY <2>1, <2>2
<1>9. CopiesOK' /\ EndsOK'
  BY <1>1, <1>5 DEF Inv, CopiesOK, EndsOK, Answered
<1> QED
  BY <1>1, <1>6, <1>7, <1>8, <1>9 DEF Inv

(* The goroutine ends when its number is on the channel.                   *)
LEMMA NotifyStep ==
  ASSUME Inv, NEW s \in Seq32, Notify(s)
  PROVE  Inv'
<1>1. /\ s \in firing /\ firing' = firing \ {s}
      /\ trToCh' = Append(trToCh, s)
      /\ UNCHANGED <<count, txSeq, txTrans, net, copies, answered, gaveUp>>
  BY DEF Notify
<1>2. ~Queued(s) /\ s < count
  BY <1>1, NumberAssumption DEF Inv, KeyOK, TypeOK, Seq32
<1>3. /\ trToCh' \in Seq(Seq32) /\ QueueDistinct'
      /\ \A t \in Seq32 : Queued(t)' <=> Queued(t) \/ t = s
  BY <1>1, <1>2, AppendQueued DEF Inv, TypeOK
<1>4. TypeOK'
  BY <1>1, <1>3 DEF Inv, TypeOK
<1>5. Live' = Live
  BY <1>1 DEF Live
<1>6. \A t \in Seq32 : KeyOK(t)'
  <2> TAKE t \in Seq32
  <2>1. CASE t = s
    <3>1. s \in Live => /\ txTrans[s].req = s /\ copies[s] # 0
                        /\ copies[s] = txTrans[s].retransCount + 1
                        /\ ~txTrans[s].timer
      BY <1>1 DEF Inv, KeyOK, Waits
    <3>2. s \notin firing' /\ Queued(s)'
      BY <1>1, <1>3
    <3>3. ~(s >= count)
      BY <1>1 DEF Inv, KeyOK
    <3> QED
      BY <2>1, <3>1, <3>2, <3>3, <1>1, <1>5 DEF KeyOK, Waits
  <2>2. CASE t # s
    BY <2>2, <1>1, <1>3, OthersKept
  <2> QED
    BY <2>1, <2>2
<1>7. CopiesOK' /\ EndsOK'
  BY <1>1, <1>5 DEF Inv, CopiesOK, EndsOK, Answered
<1> QED
  BY <1>1, <1>3, <1>4, <1>6, <1>7 DEF Inv

(* A retransmission is counted, copied once and has one timer again.       *)
LEMMA RetransmitStep ==
  ASSUME Inv, Retransmit
  PROVE  Inv'
<1>1. PICK s \in Live :
        /\ Take(s)
        /\ txTrans[s].retransCount < MaxRetrans
        /\ txTrans' = [txTrans EXCEPT ![s] = Again(@)]
        /\ copies' = [copies EXCEPT ![txTrans[s].req] = @ + 1]
        /\ UNCHANGED <<count, txSeq, firing, net, answered, gaveUp>>
  BY DEF Retransmit
<1>2. /\ txTrans[s] \in Entry /\ s < count /\ s \in Seq32 /\ s \in Request
      /\ txTrans[s].req = s /\ copies[s] \in Nat
  BY <1>1, LiveEntry
<1>3. /\ trToCh' \in Seq(Seq32) /\ QueueDistinct'
      /\ Queued(s)
      /\ \A t \in Seq32 : Queued(t)' <=> Queued(t) /\ t # s
  BY <1>1, TakeQueued DEF Inv, TypeOK
<1> DEFINE e == Again(txTrans[s])
<1>4. /\ e \in Entry /\ e # NoTx /\ e.req = s /\ e.timer
      /\ e.retransCount = txTrans[s].retransCount + 1
  <2>1. txTrans[s].retransCount + 1 \in 0..MaxRetrans
    BY <1>1, <1>2, NumberAssumption DEF Entry
  <2>2. e.req = s
    BY <1>2 DEF Again
  <2>3. e.retransCount = txTrans[s].retransCount + 1
    BY DEF Again
  <2>4. e.timer
    BY DEF Again
  <2>5. e \in Entry
    BY <2>1, <1>2 DEF Entry, Again
  <2> QED
    BY <2>2, <2>3, <2>4, <2>5, NoneAssumption
<1>5. /\ txTrans' \in [Seq32 -> Entry \union {NoTx}]
      /\ txTrans'[s] = e
      /\ \A t \in Seq32 \ {s} : txTrans'[t] = txTrans[t]
  <2>1. txTrans' = [txTrans EXCEPT ![s] = e]
    BY <1>1, <1>2 DEF Inv, TypeOK
  <2> HIDE DEF e
  <2> QED
    BY <2>1, <1>2, <1>4 DEF Inv, TypeOK
<1> HIDE DEF e
<1>6. Live' = Live
  <2>1. \A t \in Seq32 : txTrans'[t] # NoTx <=> txTrans[t] # NoTx
    BY <1>1, <1>4, <1>5 DEF Live
  <2> QED
    BY <2>1 DEF Live
<1>7. /\ copies[s] = txTrans[s].retransCount + 1
      /\ txTrans[s].retransCount \in Nat
      /\ s \notin firing
  <2>1. Waits(s) /\ KeyOK(s)
    BY <1>2, <1>3 DEF Waits, Inv
  <2> QED
    BY <2>1, <1>1, <1>2, <1>3 DEF KeyOK, Entry
<1>8. /\ copies' \in [Request -> Nat]
      /\ copies'[s] = copies[s] + 1
      /\ \A r \in Request \ {s} : copies'[r] = copies[r]
  BY <1>1, <1>2 DEF Inv, TypeOK
<1>9. TypeOK'
  BY <1>1, <1>3, <1>5, <1>8 DEF Inv, TypeOK
<1>10. \A t \in Seq32 : KeyOK(t)'
  <2> TAKE t \in Seq32
  <2>1. CASE t = s
    <3>1. ~(s >= count)
      BY <1>1, <1>2, <1>6 DEF Inv, KeyOK
    <3> QED
      BY <2>1, <3>1, <1>1, <1>2, <1>3, <1>4, <1>5, <1>6, <1>7, <1>8 DEF KeyOK, Waits
  <2>2. CASE t # s
    BY <2>2, <1>1, <1>3, <1>5, <1>8, OthersKept
  <2> QED
    BY <2>1, <2>2
<1>11. CopiesOK'
  <2> SUFFICES ASSUME NEW r \in Request
               PROVE  copies'[r] <= MaxRetrans + 1 /\ (r >= count' => copies'[r] = 0)
    BY DEF CopiesOK
  <2>1. CASE r = s
    <3>1. ~(s >= count)
      BY <1>1, <1>2 DEF Inv, KeyOK
    <3> QED
      BY <2>1, <3>1, <1>1, <1>7, <1>8, NumberAssumption
  <2>2. CASE r # s
    BY <2>2, <1>1, <1>8 DEF Inv, CopiesOK
  <2> QED
    BY <2>1, <2>2
<1>12. EndsOK'
  <2>1. s \notin Answered \union gaveUp
    BY <1>1 DEF Inv, EndsOK
  <2>2. Answered' = Answered /\ gaveUp' = gaveUp /\ gaveUp \subseteq Request
    BY <1>1 DEF Answered, Inv, TypeOK
  <2> QED
    BY <2>1, <2>2, <1>1, <1>6, <1>8 DEF Inv, EndsOK
<1> QED
  BY <1>1, <1>3, <1>9, <1>10, <1>11, <1>12 DEF Inv

(* A request that is given up was sent as often as configured.             *)
LEMMA GiveUpStep ==
  ASSUME Inv, GiveUp
  PROVE  Inv'
<1>1. PICK s \in Live :
        /\ Take(s)
        /\ txTrans[s].retransCount >= MaxRetrans
        /\ txTrans' = [txTrans EXCEPT ![s] = NoTx]
        /\ gaveUp' = gaveUp \union {txTrans[s].req}
        /\ UNCHANGED <<count, txSeq, firing, net, copies, answered>>
  BY DEF GiveUp
<1>2. /\ txTrans[s] \in Entry /\ s < count /\ s \in Seq32 /\ s \in Request
      /\ txTrans[s].req = s /\ copies[s] \in Nat
  BY <1>1, LiveEntry
<1>3. /\ trToCh' \in Seq(Seq32) /\ QueueDistinct'
      /\ Queued(s)
      /\ \A t \in Seq32 : Queued(t)' <=> Queued(t) /\ t # s
  BY <1>1, TakeQueued DEF Inv, TypeOK
<1>4. /\ txTrans' \in [Seq32 -> Entry \union {NoTx}]
      /\ Live' = Live \ {s}
      /\ \A t \in Seq32 \ {s} : txTrans'[t] = txTrans[t]
  BY <1>1, EndStep
<1>5. copies[s] = MaxRetrans + 1 /\ s \notin firing
  <2>1. Waits(s) /\ KeyOK(s)
    BY <1>2, <1>3 DEF Waits, Inv
  <2>2. txTrans[s].retransCount = MaxRetrans
    BY <1>1, <1>2, NumberAssumption DEF Entry
  <2> QED
    BY <2>1, <2>2, <1>1, <1>2, <1>3 DEF KeyOK
<1>6. TypeOK'
  BY <1>1, <1>2, <1>3, <1>4 DEF Inv, TypeOK
<1>7. \A t \in Seq32 : KeyOK(t)'
  <2> TAKE t \in Seq32
  <2>1. CASE t = s
    BY <2>1, <1>1, <1>3, <1>4, <1>5 DEF KeyOK
  <2>2. CASE t # s
    BY <2>2, <1>1, <1>3, <1>4, OthersKept
  <2> QED
    BY <2>1, <2>2
<1>8. CopiesOK'
  BY <1>1 DEF Inv, CopiesOK
<1>9. EndsOK'
  <2>1. gaveUp' = gaveUp \union {s} /\ Answered' = Answered
    BY <1>1, <1>2 DEF Answered
  <2>2. s \notin Answered \union gaveUp
    BY <1>1 DEF Inv, EndsOK
  <2> QED
    BY <2>1, <2>2, <1>1, <1>2, <1>4, <1>5 DEF Inv, EndsOK
<1> QED
  BY <1>1, <1>3, <1>6, <1>7, <1>8, <1>9 DEF Inv

(* A timeout without transaction changes nothing but the channel.          *)
LEMMA TooLateStep ==
  ASSUME Inv, TooLate
  PROVE  Inv'
<1>1. PICK s \in Seq32 \ Live :
        /\ Take(s)
        /\ UNCHANGED <<count, txSeq, txTrans, firing, net, copies, answered, gaveUp>>
  BY DEF TooLate
<1>2. /\ trToCh' \in Seq(Seq32) /\ QueueDistinct'
      /\ \A t \in Seq32 : Queued(t)' <=> Queued(t) /\ t # s
  BY <1>1, TakeQueued DEF Inv, TypeOK
<1>3. TypeOK' /\ Live' = Live
  BY <1>1, <1>2 DEF Inv, TypeOK, Live
<1>4. \A t \in Seq32 : KeyOK(t)'
  <2> TAKE t \in Seq32
  <2>1. CASE t = s
    BY <2>1, <1>1, <1>2, <1>3 DEF Inv, KeyOK
  <2>2. CASE t # s
    BY <2>2, <1>1, <1>2, OthersKept
  <2> QED
    BY <2>1, <2>2
<1>5. CopiesOK' /\ EndsOK'
  BY <1>1, <1>3 DEF Inv, CopiesOK, EndsOK, Answered
<1> QED
  BY <1>1, <1>2, <1>3, <1>4, <1>5 DEF Inv

(* Nothing changes when nothing happens.                                   *)
LEMMA StutterStep ==
  ASSUME Inv, UNCHANGED vars
  PROVE  Inv'
<1>1. TypeOK' /\ Live' = Live /\ QueueDistinct' /\ \A t : Queued(t)' <=> Queued(t)
  BY DEF vars, Inv, TypeOK, Live, QueueDistinct, Queued
<1>2. \A t \in Seq32 : KeyOK(t)'
  BY <1>1 DEF vars, Inv, KeyOK, Waits
<1> QED
  BY <1>1, <1>2 DEF vars, Inv, CopiesOK, EndsOK, Answered

(* Every step of the server keeps the invariant.                           *)
LEMMA InvStep == Inv /\ [Next]_vars => Inv'
<1> SUFFICES ASSUME Inv, [Next]_vars PROVE Inv'
  OBVIOUS
<1>1. CASE SendReq \/ SendReqFails
  BY <1>1, SendStep
<1>2. ASSUME NEW p \in net, RecvRsp(p) PROVE Inv'
  BY <1>2, RecvRspStep
<1>3. ASSUME NEW s \in Seq32, Fire(s) PROVE Inv'
  BY <1>3, FireStep
<1>4. ASSUME NEW s \in Seq32, Notify(s) PROVE Inv'
  BY <1>4, NotifyStep
<1>5. CASE HandleTimeout
  BY <1>5, RetransmitStep, GiveUpStep, TooLateStep DEF HandleTimeout
<1>6. CASE UNCHANGED vars
  BY <1>6, StutterStep
<1> QED
  BY <1>1, <1>2, <1>3, <1>4, <1>5, <1>6 DEF Next

(* The invariant holds in every reachable state.                           *)
LEMMA Invariance == Spec => []Inv
BY InvInit, InvStep, PTL DEF Spec

-----------------------------------------------------------------------------
(* Types hold in every reachable state.                                    *)
THEOREM TypeCorrect == Spec => []TypeOK
<1>1. Inv => TypeOK
  BY DEF Inv
<1> QED
  BY <1>1, Invariance, PTL

(* A transaction that was sent waits with exactly one timer, however       *)
(* timers, goroutines, channel and responses interleave.                   *)
THEOREM OneTimerCorrect == Spec => []OneTimer
<1>1. Inv => OneTimer
  <2> SUFFICES ASSUME Inv PROVE OneTimer
    OBVIOUS
  <2>1. ASSUME NEW s \in Live
        PROVE  /\ copies[txTrans[s].req] > 0
                    => txTrans[s].timer \/ s \in firing \/ Queued(s)
               /\ ~(txTrans[s].timer /\ s \in firing)
               /\ ~(txTrans[s].timer /\ Queued(s))
    <3>1. s \in Seq32 /\ txTrans[s].req = s /\ copies[s] \in Nat
      BY LiveEntry
    <3> QED
      BY <3>1 DEF Inv, KeyOK, Waits
  <2>2. \A i \in DOMAIN trToCh : trToCh[i] \notin firing
    BY DEF Inv, TypeOK, KeyOK, Queued
  <2>3. \A i, j \in DOMAIN trToCh : trToCh[i] = trToCh[j] => i = j
    BY DEF Inv, QueueDistinct
  <2> QED
    BY <2>1, <2>2, <2>3 DEF OneTimer, Queued
<1> QED
  BY <1>1, Invariance, PTL

(* No request is written more than MaxRetrans + 1 times, and one that is   *)
(* given up was written exactly that often.                                *)
THEOREM RetransCorrect == Spec => []RetransExact
<1>1. Inv => RetransExact
  BY DEF Inv, CopiesOK, EndsOK, RetransExact
<1> QED
  BY <1>1, Invariance, PTL

(* A request ends once: it is answered or given up, never both, and its    *)
(* transaction is gone.                                                    *)
THEOREM OneEndCorrect == Spec => []OneEnd
<1>1. Inv => OneEnd
  <2> SUFFICES ASSUME Inv PROVE OneEnd
    OBVIOUS
  <2>1. \A s \in Live : txTrans[s].req = s
    BY LiveEntry
  <2> QED
    BY <2>1 DEF Inv, EndsOK, OneEnd
<1> QED
  BY <1>1, Invariance, PTL

(* A request ends once, and by giving up only after every retransmission.  *)
THEOREM EndsOnceCorrect == Spec => []EndsOnce
<1>1. RetransExact /\ OneEnd => EndsOnce
  BY DEF EndsOnce
<1> QED
  BY <1>1, RetransCorrect, OneEndCorrect, PTL

(* No timeout that was on its way makes the server send a request that has *)
(* ended.                                                                  *)
THEOREM QuietAfterEndCorrect == Spec => QuietAfterEnd
<1>1. Inv /\ [Next]_vars
        => [\A r \in Answered \union gaveUp : copies'[r] = copies[r]]_vars
  <2> SUFFICES ASSUME Inv, Next, NEW r \in Answered \union gaveUp
               PROVE  copies'[r] = copies[r]
    OBVIOUS
  <2>1. r \in Request /\ r < count /\ r \notin Live /\ r # count
    <3>1. r \in Request /\ r < count /\ r \notin Live /\ count \in Nat
      BY NumberAssumption DEF Inv, EndsOK, Answered, TypeOK
    <3> QED
      BY <3>1 DEF Request
  <2>2. CASE SendReq
    BY <2>1, <2>2 DEF SendReq, Inv, TypeOK
  <2>3. CASE SendReqFails
    BY <2>3 DEF SendReqFails
  <2>4. ASSUME NEW p \in net, RecvRsp(p) PROVE copies'[r] = copies[r]
    BY <2>4 DEF RecvRsp
  <2>5. ASSUME NEW s \in Seq32, Fire(s) \/ Notify(s) PROVE copies'[r] = copies[r]
    BY <2>5 DEF Fire, Notify
  <2>6. CASE Retransmit
    <3>1. PICK s \in Live : copies' = [copies EXCEPT ![txTrans[s].req] = @ + 1]
      BY <2>6 DEF Retransmit
    <3>2. txTrans[s].req # r
      BY <2>1, LiveEntry
    <3> QED
      BY <2>1, <3>1, <3>2 DEF Inv, TypeOK
  <2>7. CASE GiveUp \/ TooLate
    BY <2>7 DEF GiveUp, TooLate
  <2> QED
    BY <2>2, <2>3, <2>4, <2>5, <2>6, <2>7 DEF Next, HandleTimeout
<1> QED
  BY <1>1, Invariance, PTL DEF Spec, QuietAfterEnd

(* The handler is given the request that the response answers, as long as  *)
(* the sequence numbers of the wire have not been used up.                 *)
PacketOK == \A p \in net : p.seq = p.req /\ p.req < count

(* While WireFits holds the three bytes of a message hold the whole        *)
(* number.                                                                 *)
LEMMA SmallWire ==
  ASSUME WireFits, NEW n \in Request
  PROVE  WireSeq(n) = n
<1>1. n \in Nat /\ 0 <= n /\ n < WireMod /\ WireMod \in Nat \ {0}
  BY NumberAssumption DEF WireFits, Request
<1> QED
  BY <1>1, Z3 DEF WireSeq

(* Every step keeps a request under its own number, on the wire and in     *)
(* txTrans.                                                                *)
LEMMA PacketStep ==
  ASSUME WireFits, Inv, PacketOK, AnswerMatches, [Next]_vars
  PROVE  PacketOK' /\ AnswerMatches'
<1>1. CASE SendReq
  <2>1. /\ count \in Request /\ txSeq = count /\ count \in Nat
        /\ count' = count + 1 /\ answered' = answered
        /\ net' = net \union {[req |-> count, seq |-> WireSeq(txSeq)]}
    BY <1>1, NumberAssumption, SeqAssumption DEF SendReq, Inv, TypeOK, Request
  <2>2. WireSeq(txSeq) = count
    BY <2>1, SmallWire
  <2> QED
    BY <2>1, <2>2 DEF PacketOK, AnswerMatches, Inv, TypeOK, Packet, Request
<1>2. CASE SendReqFails
  <2>1. /\ count \in Nat /\ count' = count + 1
        /\ UNCHANGED <<net, answered>>
    BY <1>2 DEF SendReqFails, Inv, TypeOK
  <2> QED
    BY <2>1 DEF PacketOK, AnswerMatches, Inv, TypeOK, Packet, Request
<1>3. ASSUME NEW p \in net, RecvRsp(p)
      PROVE  PacketOK' /\ AnswerMatches'
  <2>1. /\ p.seq \in Live /\ UNCHANGED <<count, net>>
        /\ answered' = answered \union {<<p.req, txTrans[p.seq].req>>}
    BY <1>3 DEF RecvRsp
  <2>2. txTrans[p.seq].req = p.req
    BY <2>1, LiveEntry DEF PacketOK
  <2> QED
    BY <2>1, <2>2 DEF PacketOK, AnswerMatches
<1>4. ASSUME NEW s \in Seq32, Fire(s) \/ Notify(s)
      PROVE  PacketOK' /\ AnswerMatches'
  BY <1>4 DEF Fire, Notify, PacketOK, AnswerMatches
<1>5. CASE HandleTimeout
  BY <1>5 DEF HandleTimeout, Retransmit, GiveUp, TooLate, PacketOK, AnswerMatches
<1>6. CASE UNCHANGED vars
  BY <1>6 DEF vars, PacketOK, AnswerMatches
<1> QED
  BY <1>1, <1>2, <1>3, <1>4, <1>5, <1>6 DEF Next

(* While there are fewer requests than numbers on the wire, a handler gets *)
(* the request its response answers.                                       *)
THEOREM AnswersMatch ==
  ASSUME WireFits
  PROVE  Spec => []AnswerMatches
<1>1. Init => PacketOK /\ AnswerMatches
  BY DEF Init, PacketOK, AnswerMatches
<1>2. Inv /\ PacketOK /\ AnswerMatches /\ [Next]_vars => PacketOK' /\ AnswerMatches'
  BY PacketStep
<1> QED
  BY <1>1, <1>2, Invariance, PTL DEF Spec
=============================================================================
