------------------------ MODULE RxTransactionsProofs ------------------------
(* Proofs about RxTransactions.  The two facts that need time are proved   *)
(* for every configuration of timeouts, delays and retransmissions.        *)
EXTENDS RxTransactions, SequenceTheorems, TLAPS

(* The timeout of a transaction is a number of ticks.                      *)
LEMMA RxTimeoutNat == RxTimeout \in Nat
<1>1. \A a \in Nat, b \in Nat \ {0} : a % b \in Nat
  OBVIOUS
<1>2. MaxRetrans + 1 \in Nat /\ Uint8 \in Nat \ {0}
  BY NumberAssumption DEF Uint8
<1>3. (MaxRetrans + 1) % Uint8 \in Nat
  BY <1>1, <1>2
<1>4. \A a, b \in Nat : a * b \in Nat
  OBVIOUS
<1> QED
  BY <1>3, <1>4, NumberAssumption DEF RxTimeout

(* MaxRetrans + 1 is computed in a uint8 (transaction.go:132): with 255    *)
(* the transaction is outlived by the copies of its request, however short *)
(* the peer's window and the network's delay.                              *)
LEMMA NoWindowAt255 == WindowFits => MaxRetrans < 255
<1>1. ASSUME MaxRetrans = 255 PROVE ~WindowFits
  <2>1. (MaxRetrans + 1) % Uint8 = 0
    BY <1>1 DEF Uint8
  <2>2. RxTimeout = 0
    BY <2>1, NumberAssumption DEF RxTimeout
  <2> QED
    BY <2>2, NumberAssumption DEF WindowFits
<1> QED
  BY <1>1, NumberAssumption DEF Uint8

-----------------------------------------------------------------------------
(* Types and due timeouts are inductive together.                          *)
TInv == TypeOK /\ TimeoutsAreDue

(* A new server has no transactions and nothing on trToCh.                 *)
LEMMA TInvInit == Init => TInv
BY NumberAssumption DEF Init, TInv, TypeOK, TimeoutsAreDue

(* A transaction that waits for its timeout is left alone by a step that   *)
(* only writes transactions without an answer.                             *)
LEMMA DispatchKeepsDue ==
  ASSUME TInv, NEW k \in Key, k \notin Answered,
         NEW e \in Entry \union {NoRx},
         rxTrans' = [rxTrans EXCEPT ![k] = e], UNCHANGED trToCh
  PROVE  TimeoutsAreDue' /\ rxTrans' \in [Key -> Entry \union {NoRx}]
<1>1. \A a \in DOMAIN trToCh : trToCh[a] \in Key /\ trToCh[a] # k
  BY DEF TInv, TypeOK, TimeoutsAreDue, NeedDispatch
<1>2. \A j \in Key \ {k} : rxTrans'[j] = rxTrans[j]
  BY DEF TInv, TypeOK
<1>3. rxTrans' \in [Key -> Entry \union {NoRx}]
  BY DEF TInv, TypeOK
<1> QED
  BY <1>1, <1>2, <1>3 DEF TInv, TimeoutsAreDue, NeedDispatch, Answered

(* Each step of peer, network, timers and main keeps types and due         *)
(* timeouts.                                                               *)
LEMMA TInvStep == TInv /\ [Next]_vars => TInv'
<1> SUFFICES ASSUME TInv, [Next]_vars PROVE TInv'
  OBVIOUS
<1> USE NumberAssumption, KeyAssumption, NoneAssumption, RxTimeoutNat
<1>1. ASSUME NEW q \in Req, PeerSend(q) \/ PeerResend(q)
      PROVE  TInv'
  <2>1. net' \subseteq Copy
    BY <1>1 DEF PeerSend, PeerResend, Send, TInv, TypeOK, Copy
  <2>2. left' \in [Req -> 0..(PeerWindow + 1)] /\ started' \subseteq Req
    BY <1>1 DEF PeerSend, PeerResend, TInv, TypeOK
  <2>3. UNCHANGED <<rxTrans, trToCh, done, again, wrong>>
    BY <1>1 DEF PeerSend, PeerResend
  <2> QED
    BY <2>1, <2>2, <2>3
       DEF TInv, TypeOK, TimeoutsAreDue, NeedDispatch, Answered
<1>2. ASSUME NEW c \in net, RecvAnswered(c)
      PROVE  TInv'
  <2> DEFINE k == KeyOf[c.req]
             e == [msgBuf |-> c.req, timer |-> RxTimeout, fired |-> FALSE]
  <2>1. c.req \in Req /\ k \in Key /\ k \notin Answered
    BY <1>2 DEF RecvAnswered, TInv, TypeOK, Copy, NeedDispatch
  <2>2. e \in Entry
    BY <2>1 DEF Entry
  <2>3. rxTrans' = [rxTrans EXCEPT ![k] = e] /\ UNCHANGED trToCh
    BY <1>2 DEF RecvAnswered
  <2>4. TimeoutsAreDue' /\ rxTrans' \in [Key -> Entry \union {NoRx}]
    <3> HIDE DEF k, e
    <3> QED
      BY <2>1, <2>2, <2>3, DispatchKeepsDue
  <2>5. net' \subseteq Copy /\ done' \subseteq Req /\ again' \subseteq Req
    BY <1>2, <2>1 DEF RecvAnswered, Arrive, TInv, TypeOK
  <2> QED
    BY <1>2, <2>4, <2>5 DEF RecvAnswered, TInv, TypeOK
<1>3. ASSUME NEW c \in net, RecvUnanswered(c)
      PROVE  TInv'
  <2> DEFINE k == KeyOf[c.req]
             e == [msgBuf |-> NoAnswer, timer |-> RxTimeout, fired |-> FALSE]
  <2>1. c.req \in Req /\ k \in Key /\ k \notin Answered
    BY <1>3 DEF RecvUnanswered, TInv, TypeOK, Copy, NeedDispatch
  <2>2. e \in Entry
    BY DEF Entry
  <2>3. rxTrans' = [rxTrans EXCEPT ![k] = e] /\ UNCHANGED trToCh
    BY <1>3 DEF RecvUnanswered
  <2>4. TimeoutsAreDue' /\ rxTrans' \in [Key -> Entry \union {NoRx}]
    <3> HIDE DEF k, e
    <3> QED
      BY <2>1, <2>2, <2>3, DispatchKeepsDue
  <2>5. net' \subseteq Copy
    BY <1>3 DEF RecvUnanswered, Arrive, TInv, TypeOK
  <2> QED
    BY <1>3, <2>4, <2>5 DEF RecvUnanswered, TInv, TypeOK
<1>4. ASSUME NEW c \in net, RecvRepeat(c) \/ Lose(c)
      PROVE  TInv'
  <2>1. c.req \in Req
    BY DEF TInv, TypeOK, Copy
  <2>2. net' \subseteq Copy /\ wrong' \subseteq Req
    BY <1>4, <2>1 DEF RecvRepeat, Lose, Arrive, TInv, TypeOK
  <2>3. UNCHANGED <<left, started, rxTrans, trToCh, done, again>>
    BY <1>4 DEF RecvRepeat, Lose
  <2> QED
    BY <2>2, <2>3 DEF TInv, TypeOK, TimeoutsAreDue, NeedDispatch, Answered
<1>5. ASSUME NEW k \in Key, Fire(k)
      PROVE  TInv'
  <2>1. /\ rxTrans[k] \in Entry /\ k \in Answered
        /\ rxTrans[k].timer = 0 /\ ~rxTrans[k].fired
    BY <1>5 DEF Fire, NeedDispatch, Answered, TInv, TypeOK
  <2> DEFINE e == [rxTrans[k] EXCEPT !.fired = TRUE]
  <2>2. /\ e \in Entry /\ e.msgBuf = rxTrans[k].msgBuf
        /\ e.timer = 0 /\ e.fired
    BY <2>1 DEF Entry
  <2>3. rxTrans' = [rxTrans EXCEPT ![k] = e]
    BY <1>5 DEF Fire
  <2>4. /\ rxTrans' \in [Key -> Entry \union {NoRx}]
        /\ rxTrans'[k] = e
        /\ \A j \in Key \ {k} : rxTrans'[j] = rxTrans[j]
    <3> HIDE DEF e
    <3> QED
      BY <2>2, <2>3 DEF TInv, TypeOK
  <2>5. Answered' = Answered
    <3> HIDE DEF e
    <3> QED
      BY <2>1, <2>2, <2>4 DEF Answered
  <2>6. \A a \in DOMAIN trToCh : trToCh[a] \in Key /\ trToCh[a] # k
    BY <2>1 DEF TInv, TypeOK, TimeoutsAreDue
  <2>7. trToCh \in Seq(Key) /\ trToCh' = Append(trToCh, k)
    BY <1>5 DEF Fire, TInv, TypeOK
  <2>8. /\ trToCh' \in Seq(Key)
        /\ DOMAIN trToCh' = DOMAIN trToCh \union {Len(trToCh) + 1}
        /\ trToCh'[Len(trToCh) + 1] = k
        /\ \A a \in DOMAIN trToCh : trToCh'[a] = trToCh[a]
    BY <2>7, AppendProperties
  <2>9. TimeoutsAreDue'
    <3> HIDE DEF e
    <3>1. \A a, b \in DOMAIN trToCh' : trToCh'[a] = trToCh'[b] => a = b
      BY <2>6, <2>8 DEF TInv, TimeoutsAreDue
    <3>2. ASSUME NEW a \in DOMAIN trToCh'
          PROVE  /\ trToCh'[a] \in Answered'
                 /\ rxTrans'[trToCh'[a]].fired
                 /\ rxTrans'[trToCh'[a]].timer = 0
      <4>1. CASE a = Len(trToCh) + 1
        BY <4>1, <2>1, <2>2, <2>4, <2>5, <2>8
      <4>2. CASE a \in DOMAIN trToCh
        BY <4>2, <2>4, <2>5, <2>6, <2>8 DEF TInv, TimeoutsAreDue, NeedDispatch
      <4> QED
        BY <4>1, <4>2, <2>8
    <3> QED
      BY <3>1, <3>2 DEF TimeoutsAreDue, NeedDispatch
  <2> QED
    BY <1>5, <2>4, <2>8, <2>9 DEF Fire, TInv, TypeOK
<1>6. CASE HandleTimeout
  <2> DEFINE k == Head(trToCh)
  <2>1. trToCh # << >> /\ trToCh \in Seq(Key)
    BY <1>6 DEF HandleTimeout, TInv, TypeOK
  <2>2. /\ k \in Key /\ k = trToCh[1] /\ 1 \in DOMAIN trToCh
        /\ Tail(trToCh) \in Seq(Key)
        /\ Len(Tail(trToCh)) = Len(trToCh) - 1
        /\ \A a \in 1..Len(Tail(trToCh)) :
             a + 1 \in DOMAIN trToCh /\ Tail(trToCh)[a] = trToCh[a + 1]
    BY <2>1
  <2>3. rxTrans' = [rxTrans EXCEPT ![k] = NoRx] /\ trToCh' = Tail(trToCh)
    BY <1>6 DEF HandleTimeout
  <2>4. /\ rxTrans' \in [Key -> Entry \union {NoRx}]
        /\ \A j \in Key \ {k} : rxTrans'[j] = rxTrans[j]
    <3> HIDE DEF k
    <3> QED
      BY <2>2, <2>3 DEF TInv, TypeOK
  <2>5. TimeoutsAreDue'
    <3> HIDE DEF k
    <3>1. DOMAIN trToCh' = 1..Len(Tail(trToCh))
      BY <2>2, <2>3
    <3>2. \A a \in DOMAIN trToCh' : trToCh'[a] = trToCh[a + 1] /\ a + 1 \in DOMAIN trToCh
      BY <3>1, <2>2, <2>3
    <3>3. \A a \in DOMAIN trToCh' : a \in Nat /\ a + 1 # 1
      BY <3>1
    <3>4. \A a \in DOMAIN trToCh' : trToCh'[a] \in Key \ {k}
      BY <3>2, <3>3, <2>1, <2>2 DEF TInv, TimeoutsAreDue
    <3>5. \A a, b \in DOMAIN trToCh' : trToCh'[a] = trToCh'[b] => a = b
      <4> SUFFICES ASSUME NEW a \in DOMAIN trToCh', NEW b \in DOMAIN trToCh',
                          trToCh'[a] = trToCh'[b]
                   PROVE  a = b
        OBVIOUS
      <4>1. a + 1 = b + 1
        BY <3>2 DEF TInv, TimeoutsAreDue
      <4> QED
        BY <4>1, <3>3
    <3>6. ASSUME NEW a \in DOMAIN trToCh'
          PROVE  /\ trToCh'[a] \in Answered'
                 /\ rxTrans'[trToCh'[a]].fired
                 /\ rxTrans'[trToCh'[a]].timer = 0
      <4>1. /\ trToCh[a + 1] \in Answered
            /\ rxTrans[trToCh[a + 1]].fired
            /\ rxTrans[trToCh[a + 1]].timer = 0
        BY <3>2 DEF TInv, TimeoutsAreDue, NeedDispatch
      <4> QED
        BY <4>1, <3>2, <3>4, <2>4 DEF Answered
    <3> QED
      BY <3>5, <3>6 DEF TimeoutsAreDue, NeedDispatch
  <2> QED
    BY <1>6, <2>2, <2>3, <2>4, <2>5 DEF HandleTimeout, TInv, TypeOK
<1>7. CASE Tick
  <2>1. net' \subseteq Copy
    BY <1>7 DEF Tick, TInv, TypeOK, Copy
  <2>2. left' \in [Req -> 0..(PeerWindow + 1)]
    BY <1>7 DEF Tick, TInv, TypeOK
  <2>3. \A k \in Key :
          /\ rxTrans'[k] \in Entry \union {NoRx}
          /\ k \in Answered =>
               /\ rxTrans'[k] # NoRx
               /\ rxTrans'[k].msgBuf = rxTrans[k].msgBuf
               /\ rxTrans'[k].fired = rxTrans[k].fired
               /\ rxTrans[k].timer = 0 => rxTrans'[k] = rxTrans[k]
    <3> TAKE k \in Key
    <3>1. rxTrans'[k] = IF k \notin Answered \/ rxTrans[k].timer = 0 THEN rxTrans[k]
                        ELSE [rxTrans[k] EXCEPT !.timer = rxTrans[k].timer - 1]
      BY <1>7 DEF Tick, NeedDispatch
    <3>2. CASE k \notin Answered \/ rxTrans[k].timer = 0
      BY <3>1, <3>2 DEF TInv, TypeOK, Answered
    <3>3. CASE k \in Answered /\ rxTrans[k].timer # 0
      <4>1. rxTrans[k] \in Entry
        BY <3>3 DEF TInv, TypeOK, Answered
      <4>2. rxTrans[k].timer - 1 \in 0..RxTimeout
        BY <3>3, <4>1 DEF Entry
      <4>3. rxTrans'[k] \in Entry
        BY <3>1, <3>3, <4>1, <4>2 DEF Entry
      <4> QED
        BY <3>1, <3>3, <4>1, <4>3 DEF Entry
    <3> QED
      BY <3>2, <3>3
  <2>4. rxTrans' \in [Key -> Entry \union {NoRx}]
    BY <1>7, <2>3 DEF Tick
  <2>5. UNCHANGED <<started, trToCh, done, again, wrong>>
    BY <1>7 DEF Tick
  <2>6. TimeoutsAreDue'
    BY <2>3, <2>5 DEF TInv, TypeOK, TimeoutsAreDue, NeedDispatch, Answered
  <2> QED
    BY <2>1, <2>2, <2>4, <2>5, <2>6 DEF TInv, TypeOK
<1>8. CASE UNCHANGED vars
  BY <1>8 DEF vars, TInv, TypeOK, TimeoutsAreDue, NeedDispatch, Answered
<1> QED
  BY <1>1, <1>2, <1>3, <1>4, <1>5, <1>6, <1>7, <1>8 DEF Next

(* Types and due timeouts hold in every reachable state.                   *)
LEMMA TInvariance == Spec => []TInv
<1>1. Init => TInv
  BY TInvInit
<1>2. TInv /\ [Next]_vars => TInv'
  BY TInvStep
<1> QED
  BY <1>1, <1>2, PTL DEF Spec

(* Types hold in every reachable state, for every configuration.           *)
THEOREM TypeCorrect == Spec => []TypeOK
<1>1. TInv => TypeOK
  BY DEF TInv
<1> QED
  BY <1>1, TInvariance, PTL

(* Main deletes a transaction only when its own timer has fired, whatever  *)
(* waits on trToCh: no stale key ever ends a younger transaction.          *)
THEOREM TimeoutsDue == Spec => []TimeoutsAreDue
<1>1. TInv => TimeoutsAreDue
  BY DEF TInv
<1> QED
  BY <1>1, TInvariance, PTL

-----------------------------------------------------------------------------
(* The transaction of q still holds the answer to q.                       *)
Covered(q) == rxTrans[KeyOf[q]] # NoRx /\ rxTrans[KeyOf[q]].msgBuf = q

Remaining(q) == rxTrans[KeyOf[q]].timer

(* After q was answered, its transaction outlives every copy of q that is  *)
(* under way (CopiesCovered) and every one the peer may still send         *)
(* (WindowCovered).                                                        *)
CopiesCovered ==
  \A c \in net : c.req \in done =>
    Covered(c.req) /\ Remaining(c.req) + c.age > MaxDelay

WindowCovered ==
  \A q \in done : left[q] > 0 =>
    Covered(q) /\ Remaining(q) + 1 > left[q] + MaxDelay

SentBefore ==
  /\ done \subseteq started
  /\ \A c \in net : c.req \in started
  /\ \A q \in Req : left[q] > 0 => q \in started

OnceInv == CopiesCovered /\ WindowCovered /\ SentBefore /\ AtMostOnce

(* Nothing has been executed when the server starts.                       *)
LEMMA OnceInit == Init => OnceInv
BY DEF Init, OnceInv, CopiesCovered, WindowCovered, SentBefore, AtMostOnce

(* A step that writes only a transaction without an answer, and makes no   *)
(* copies, keeps what is covered covered.                                  *)
LEMMA CoveredKept ==
  ASSUME TInv, OnceInv, NEW k \in Key, k \notin Answered, NEW e,
         rxTrans' = [rxTrans EXCEPT ![k] = e],
         NEW q \in done, Covered(q)
  PROVE  Covered(q)' /\ Remaining(q)' = Remaining(q) /\ KeyOf[q] # k
<1>1. q \in Req /\ KeyOf[q] \in Key
  BY KeyAssumption DEF TInv, TypeOK
<1>2. KeyOf[q] \in Answered
  BY <1>1, NoneAssumption DEF Answered, Covered
<1>3. rxTrans'[KeyOf[q]] = rxTrans[KeyOf[q]]
  BY <1>1, <1>2 DEF TInv, TypeOK
<1> QED
  BY <1>2, <1>3 DEF Covered, Remaining

(* No step, not even a tick, lets a copy outlive its transaction.          *)
LEMMA OnceStep ==
  ASSUME WindowFits, KeysDiffer
  PROVE  TInv /\ OnceInv /\ [Next]_vars => OnceInv'
<1> SUFFICES ASSUME TInv, OnceInv, [Next]_vars PROVE OnceInv'
  OBVIOUS
<1> USE NumberAssumption, KeyAssumption, NoneAssumption, RxTimeoutNat
<1>a. \A c \in net : c \in Copy /\ c.req \in Req /\ c.age \in 0..MaxDelay
  BY DEF TInv, TypeOK, Copy
<1>b. \A q \in Req : KeyOf[q] \in Key /\ left[q] \in 0..(PeerWindow + 1)
  BY DEF TInv, TypeOK
<1>c. done \subseteq Req
  BY DEF TInv, TypeOK
<1>d. \A q \in done : Covered(q) => /\ rxTrans[KeyOf[q]] \in Entry
                                    /\ KeyOf[q] \in Answered
                                    /\ Remaining(q) \in 0..RxTimeout
  BY <1>b, <1>c DEF Covered, Remaining, Answered, Entry, TInv, TypeOK
<1>1. ASSUME NEW q \in Req, PeerSend(q)
      PROVE  OnceInv'
  <2>1. /\ q \notin done
        /\ net' = net \union {[req |-> q, age |-> 0]}
        /\ left' = [left EXCEPT ![q] = PeerWindow + 1]
        /\ started' = started \union {q}
        /\ UNCHANGED <<rxTrans, done, again>>
    BY <1>1 DEF PeerSend, Send, OnceInv, SentBefore
  <2>2. \A p \in Req \ {q} : left'[p] = left[p]
    BY <2>1 DEF TInv, TypeOK
  <2>3. CopiesCovered'
    BY <2>1 DEF OnceInv, CopiesCovered, Covered, Remaining
  <2>4. WindowCovered'
    BY <2>1, <2>2, <1>c DEF OnceInv, WindowCovered, Covered, Remaining
  <2>5. SentBefore' /\ AtMostOnce'
    BY <2>1, <2>2 DEF OnceInv, SentBefore, AtMostOnce
  <2> QED
    BY <2>3, <2>4, <2>5 DEF OnceInv
<1>2. ASSUME NEW q \in Req, PeerResend(q)
      PROVE  OnceInv'
  <2>1. /\ left[q] > 0
        /\ net' = net \union {[req |-> q, age |-> 0]}
        /\ UNCHANGED <<left, started, rxTrans, done, again>>
    BY <1>2 DEF PeerResend, Send
  <2>2. q \in done => Covered(q) /\ Remaining(q) + 0 > MaxDelay
    BY <2>1, <1>b, <1>d DEF OnceInv, WindowCovered
  <2>3. CopiesCovered'
    BY <2>1, <2>2 DEF OnceInv, CopiesCovered, Covered, Remaining
  <2>4. WindowCovered' /\ SentBefore' /\ AtMostOnce'
    BY <2>1 DEF OnceInv, WindowCovered, SentBefore, AtMostOnce, Covered, Remaining
  <2> QED
    BY <2>3, <2>4 DEF OnceInv
<1>3. ASSUME NEW c \in net, RecvAnswered(c)
      PROVE  OnceInv'
  <2> DEFINE q == c.req
             k == KeyOf[q]
             e == [msgBuf |-> q, timer |-> RxTimeout, fired |-> FALSE]
  <2>1. q \in Req /\ k \in Key /\ k \notin Answered
    BY <1>3, <1>a, <1>b DEF RecvAnswered, NeedDispatch
  <2>2. q \notin done
    BY <2>1, <1>d DEF OnceInv, CopiesCovered
  <2>3. /\ net' \subseteq net
        /\ rxTrans' = [rxTrans EXCEPT ![k] = e]
        /\ done' = done \union {q}
        /\ again' = again \union (done \intersect {q})
        /\ UNCHANGED <<left, started>>
    BY <1>3 DEF RecvAnswered, Arrive
  <2>4. rxTrans'[k] = e
    BY <2>1, <2>3 DEF TInv, TypeOK
  <2>5. e \in Entry /\ e.msgBuf = q /\ e.timer = RxTimeout
    BY <2>1 DEF Entry
  <2>6. Covered(q)' /\ Remaining(q)' = RxTimeout
    <3> HIDE DEF e
    <3> QED
      BY <2>4, <2>5 DEF Covered, Remaining
  <2>7. \A p \in done : Covered(p) => Covered(p)' /\ Remaining(p)' = Remaining(p)
    <3> HIDE DEF k, e
    <3> QED
      BY <2>1, <2>3, CoveredKept
  <2>8. CopiesCovered'
    <3> SUFFICES ASSUME NEW d \in net', d.req \in done'
                 PROVE  (Covered(d.req) /\ Remaining(d.req) + d.age > MaxDelay)'
      BY DEF CopiesCovered
    <3>1. CASE d.req = q
      BY <3>1, <2>3, <2>6, <1>a DEF WindowFits
    <3>2. CASE d.req \in done
      BY <3>2, <2>3, <2>7 DEF OnceInv, CopiesCovered
    <3> QED
      BY <3>1, <3>2, <2>3
  <2>9. WindowCovered'
    <3> SUFFICES ASSUME NEW p \in done', left[p] > 0
                 PROVE  (Covered(p) /\ Remaining(p) + 1 > left[p] + MaxDelay)'
      BY <2>3 DEF WindowCovered
    <3>1. CASE p = q
      BY <3>1, <2>1, <2>3, <2>6, <1>b DEF WindowFits
    <3>2. CASE p \in done
      BY <3>2, <2>3, <2>7 DEF OnceInv, WindowCovered
    <3> QED
      BY <3>1, <3>2, <2>3
  <2>10. SentBefore' /\ AtMostOnce'
    BY <2>2, <2>3 DEF OnceInv, SentBefore, AtMostOnce
  <2> QED
    BY <2>8, <2>9, <2>10 DEF OnceInv
<1>4. ASSUME NEW c \in net, RecvUnanswered(c)
      PROVE  OnceInv'
  <2> DEFINE k == KeyOf[c.req]
             e == [msgBuf |-> NoAnswer, timer |-> RxTimeout, fired |-> FALSE]
  <2>1. k \in Key /\ k \notin Answered
    BY <1>4, <1>a, <1>b DEF RecvUnanswered, NeedDispatch
  <2>2. /\ net' \subseteq net
        /\ rxTrans' = [rxTrans EXCEPT ![k] = e]
        /\ UNCHANGED <<left, started, done, again>>
    BY <1>4 DEF RecvUnanswered, Arrive
  <2>3. \A p \in done : Covered(p) => Covered(p)' /\ Remaining(p)' = Remaining(p)
    <3> HIDE DEF k, e
    <3> QED
      BY <2>1, <2>2, CoveredKept
  <2>4. CopiesCovered'
    BY <2>2, <2>3 DEF OnceInv, CopiesCovered
  <2>5. WindowCovered'
    BY <2>2, <2>3 DEF OnceInv, WindowCovered
  <2>6. SentBefore' /\ AtMostOnce'
    BY <2>2 DEF OnceInv, SentBefore, AtMostOnce
  <2> QED
    BY <2>4, <2>5, <2>6 DEF OnceInv
<1>5. ASSUME NEW c \in net, RecvRepeat(c) \/ Lose(c)
      PROVE  OnceInv'
  <2>1. net' \subseteq net /\ UNCHANGED <<left, started, rxTrans, done, again>>
    BY <1>5 DEF RecvRepeat, Lose, Arrive
  <2> QED
    BY <2>1 DEF OnceInv, CopiesCovered, WindowCovered, SentBefore, AtMostOnce,
                Covered, Remaining
<1>6. ASSUME NEW k \in Key, Fire(k)
      PROVE  OnceInv'
  <2>1. /\ rxTrans[k] \in Entry
        /\ rxTrans' = [rxTrans EXCEPT ![k].fired = TRUE]
        /\ UNCHANGED <<left, started, net, done, again>>
    BY <1>6 DEF Fire, NeedDispatch, Answered, TInv, TypeOK
  <2>2. \A j \in Key : /\ rxTrans[j] # NoRx => rxTrans'[j] # NoRx
                       /\ rxTrans'[j].msgBuf = rxTrans[j].msgBuf
                       /\ rxTrans'[j].timer = rxTrans[j].timer
    <3> DEFINE e == [rxTrans[k] EXCEPT !.fired = TRUE]
    <3>1. /\ e \in Entry /\ e.msgBuf = rxTrans[k].msgBuf
          /\ e.timer = rxTrans[k].timer
      BY <2>1 DEF Entry
    <3>2. rxTrans' = [rxTrans EXCEPT ![k] = e]
      BY <2>1
    <3> HIDE DEF e
    <3> QED
      BY <3>1, <3>2 DEF TInv, TypeOK
  <2>3. \A q \in done : Covered(q) => Covered(q)' /\ Remaining(q)' = Remaining(q)
    BY <2>2, <1>b, <1>c DEF Covered, Remaining
  <2>4. CopiesCovered'
    BY <2>1, <2>3 DEF OnceInv, CopiesCovered
  <2>5. WindowCovered'
    BY <2>1, <2>3 DEF OnceInv, WindowCovered
  <2>6. SentBefore' /\ AtMostOnce'
    BY <2>1 DEF OnceInv, SentBefore, AtMostOnce
  <2> QED
    BY <2>4, <2>5, <2>6 DEF OnceInv
<1>7. CASE HandleTimeout
  <2> DEFINE k == Head(trToCh)
  <2>1. k \in Key /\ rxTrans[k].timer = 0
    <3>1. trToCh # << >> /\ trToCh \in Seq(Key)
      BY <1>7 DEF HandleTimeout, TInv, TypeOK
    <3>2. k = trToCh[1] /\ 1 \in DOMAIN trToCh /\ k \in Key
      BY <3>1
    <3> QED
      BY <3>2 DEF TInv, TimeoutsAreDue
  <2>2. /\ rxTrans' = [rxTrans EXCEPT ![k] = NoRx]
        /\ UNCHANGED <<left, started, net, done, again>>
    BY <1>7 DEF HandleTimeout
  <2>3. \A j \in Key \ {k} : rxTrans'[j] = rxTrans[j]
    <3> HIDE DEF k
    <3> QED
      BY <2>1, <2>2 DEF TInv, TypeOK
  <2>4. CopiesCovered'
    <3> SUFFICES ASSUME NEW c \in net, c.req \in done
                 PROVE  (Covered(c.req) /\ Remaining(c.req) + c.age > MaxDelay)'
      BY <2>2 DEF CopiesCovered
    <3>1. Covered(c.req) /\ Remaining(c.req) + c.age > MaxDelay
      BY DEF OnceInv, CopiesCovered
    <3>2. KeyOf[c.req] # k
      BY <3>1, <2>1, <1>a DEF Remaining
    <3>3. rxTrans'[KeyOf[c.req]] = rxTrans[KeyOf[c.req]]
      BY <3>2, <2>3, <1>a, <1>b
    <3> QED
      BY <3>1, <3>3 DEF Covered, Remaining
  <2>5. WindowCovered'
    <3> SUFFICES ASSUME NEW q \in done, left[q] > 0
                 PROVE  (Covered(q) /\ Remaining(q) + 1 > left[q] + MaxDelay)'
      BY <2>2 DEF WindowCovered
    <3>1. Covered(q) /\ Remaining(q) + 1 > left[q] + MaxDelay
      BY DEF OnceInv, WindowCovered
    <3>2. KeyOf[q] # k
      BY <3>1, <2>1, <1>b, <1>c DEF Remaining
    <3>3. rxTrans'[KeyOf[q]] = rxTrans[KeyOf[q]]
      BY <3>2, <2>3, <1>b, <1>c
    <3> QED
      BY <3>1, <3>3, <2>2 DEF Covered, Remaining
  <2>6. SentBefore' /\ AtMostOnce'
    BY <2>2 DEF OnceInv, SentBefore, AtMostOnce
  <2> QED
    BY <2>4, <2>5, <2>6 DEF OnceInv
<1>8. CASE Tick
  <2>1. /\ \A c \in net : c.age < MaxDelay
        /\ net' = {[req |-> c.req, age |-> c.age + 1] : c \in net}
        /\ left' = [q \in Req |-> IF left[q] > 0 THEN left[q] - 1 ELSE 0]
        /\ UNCHANGED <<started, done, again>>
    BY <1>8 DEF Tick
  <2>2. ASSUME NEW q \in done, Covered(q), Remaining(q) > 0
        PROVE  Covered(q)' /\ Remaining(q)' = Remaining(q) - 1
    <3> DEFINE k == KeyOf[q]
    <3>1. k \in Key /\ k \in Answered /\ rxTrans[k] \in Entry
      BY <2>2, <1>b, <1>c, <1>d
    <3>2. rxTrans'[k] = [rxTrans[k] EXCEPT !.timer = rxTrans[k].timer - 1]
      BY <1>8, <2>2, <3>1 DEF Tick, NeedDispatch, Remaining
    <3>3. /\ rxTrans[k].timer - 1 \in 0..RxTimeout
      BY <3>1, <2>2 DEF Entry, Remaining
    <3>4. rxTrans'[k] \in Entry /\ rxTrans'[k].msgBuf = rxTrans[k].msgBuf
          /\ rxTrans'[k].timer = rxTrans[k].timer - 1
      BY <3>1, <3>2, <3>3 DEF Entry
    <3> QED
      BY <3>4, <2>2 DEF Covered, Remaining
  <2>3. CopiesCovered'
    <3> SUFFICES ASSUME NEW d \in net', d.req \in done
                 PROVE  (Covered(d.req) /\ Remaining(d.req) + d.age > MaxDelay)'
      BY <2>1 DEF CopiesCovered
    <3>1. PICK c \in net : d = [req |-> c.req, age |-> c.age + 1]
      BY <2>1
    <3>2. d.req = c.req /\ d.age = c.age + 1 /\ c.age < MaxDelay
      BY <3>1, <2>1
    <3>3. Covered(c.req) /\ Remaining(c.req) + c.age > MaxDelay
      BY <3>2 DEF OnceInv, CopiesCovered
    <3>4. Remaining(c.req) \in Nat /\ c.age \in Nat
      BY <3>2, <3>3, <1>a, <1>d
    <3>5. Covered(c.req)' /\ Remaining(c.req)' = Remaining(c.req) - 1
      BY <2>2, <3>2, <3>3, <3>4
    <3> QED
      BY <3>2, <3>3, <3>4, <3>5
  <2>4. WindowCovered'
    <3> SUFFICES ASSUME NEW q \in done, left'[q] > 0
                 PROVE  Covered(q)' /\ Remaining(q)' + 1 > left'[q] + MaxDelay
      BY <2>1 DEF WindowCovered
    <3>1. left[q] \in Nat /\ left[q] > 0 /\ left'[q] = left[q] - 1
      BY <2>1, <1>b, <1>c
    <3>2. Covered(q) /\ Remaining(q) + 1 > left[q] + MaxDelay
      BY <3>1 DEF OnceInv, WindowCovered
    <3>3. Remaining(q) \in Nat
      BY <3>2, <1>d
    <3>4. Covered(q)' /\ Remaining(q)' = Remaining(q) - 1
      BY <2>2, <3>1, <3>2, <3>3
    <3> QED
      BY <3>1, <3>2, <3>3, <3>4
  <2>5. SentBefore' /\ AtMostOnce'
    <3>1. \A d \in net' : d.req \in started'
      BY <2>1 DEF OnceInv, SentBefore
    <3>2. \A q \in Req : left'[q] > 0 => left[q] > 0
      BY <2>1, <1>b
    <3> QED
      BY <2>1, <3>1, <3>2 DEF OnceInv, SentBefore, AtMostOnce
  <2> QED
    BY <2>3, <2>4, <2>5 DEF OnceInv
<1>9. CASE UNCHANGED vars
  BY <1>9 DEF vars, OnceInv, CopiesCovered, WindowCovered, SentBefore, AtMostOnce,
              Covered, Remaining
<1> QED
  BY <1>1, <1>2, <1>3, <1>4, <1>5, <1>6, <1>7, <1>8, <1>9 DEF Next

(* With requests of distinct keys, and a retransmission window that ends   *)
(* with all its copies before the transaction's timer, no request is       *)
(* executed twice: RetransTimeout * (MaxRetrans + 1) in NewRxTransaction   *)
(* is long enough for peers of the same configuration and delays below one *)
(* RetransTimeout, for a MaxRetrans up to 254 (NoWindowAt255).             *)
THEOREM ExecutedAtMostOnce ==
  ASSUME WindowFits, KeysDiffer
  PROVE  Spec => []AtMostOnce
<1>1. Init => OnceInv
  BY OnceInit
<1>2. TInv /\ OnceInv /\ [Next]_vars => OnceInv'
  BY OnceStep
<1>3. OnceInv => AtMostOnce
  BY DEF OnceInv
<1> QED
  BY <1>1, <1>2, <1>3, TInvariance, PTL DEF Spec

-----------------------------------------------------------------------------
(* A kept answer is the answer to an executed request of that key.         *)
Kept(k) == rxTrans[k].msgBuf \in done /\ KeyOf[rxTrans[k].msgBuf] = k

HandledInv == (\A k \in Answered : Kept(k)) /\ FalseMeansHandled

(* Each step leaves every kept answer under the key of its own request.    *)
LEMMA HandledStep ==
  ASSUME KeysDiffer
  PROVE  TInv /\ HandledInv /\ [Next]_vars => HandledInv'
<1> SUFFICES ASSUME TInv, HandledInv, [Next]_vars PROVE HandledInv'
  OBVIOUS
<1> USE KeyAssumption, NoneAssumption
<1>1. CASE \E q \in Req : PeerSend(q) \/ PeerResend(q)
  BY <1>1 DEF PeerSend, PeerResend, HandledInv, Kept, Answered, FalseMeansHandled
<1>2. ASSUME NEW c \in net, RecvAnswered(c)
      PROVE  HandledInv'
  <2>1. c.req \in Req /\ KeyOf[c.req] \in Key
    BY DEF TInv, TypeOK, Copy
  <2>2. /\ rxTrans'[KeyOf[c.req]].msgBuf = c.req
        /\ \A k \in Key \ {KeyOf[c.req]} : rxTrans'[k] = rxTrans[k]
        /\ done' = done \union {c.req} /\ wrong' = wrong
    BY <1>2, <2>1 DEF RecvAnswered, TInv, TypeOK
  <2> QED
    BY <2>1, <2>2 DEF HandledInv, Kept, Answered, FalseMeansHandled
<1>3. ASSUME NEW c \in net, RecvUnanswered(c)
      PROVE  HandledInv'
  <2>1. c.req \in Req /\ KeyOf[c.req] \in Key
    BY DEF TInv, TypeOK, Copy
  <2>2. /\ rxTrans'[KeyOf[c.req]].msgBuf = NoAnswer
        /\ \A k \in Key \ {KeyOf[c.req]} : rxTrans'[k] = rxTrans[k]
        /\ done' = done /\ wrong' = wrong
    BY <1>3, <2>1 DEF RecvUnanswered, TInv, TypeOK
  <2> QED
    BY <2>1, <2>2 DEF HandledInv, Kept, Answered, FalseMeansHandled
<1>4. ASSUME NEW c \in net, RecvRepeat(c)
      PROVE  HandledInv'
  <2>1. c.req \in Req /\ KeyOf[c.req] \in Answered
    BY <1>4 DEF RecvRepeat, NeedDispatch, TInv, TypeOK, Copy
  <2>2. Kept(KeyOf[c.req])
    BY <2>1 DEF HandledInv
  <2>3. rxTrans[KeyOf[c.req]].msgBuf = c.req
    BY <2>1, <2>2 DEF Kept, KeysDiffer, TInv, TypeOK
  <2> QED
    BY <1>4, <2>2, <2>3 DEF RecvRepeat, HandledInv, Kept, Answered, FalseMeansHandled
<1>5. CASE \E c \in net : Lose(c)
  BY <1>5 DEF Lose, HandledInv, Kept, Answered, FalseMeansHandled
<1>6. ASSUME NEW k \in Key, Fire(k)
      PROVE  HandledInv'
  <2>1. k \in Answered /\ rxTrans[k] \in Entry
    BY <1>6 DEF Fire, NeedDispatch, Answered, TInv, TypeOK
  <2>2. /\ rxTrans'[k].msgBuf = rxTrans[k].msgBuf
        /\ \A j \in Key \ {k} : rxTrans'[j] = rxTrans[j]
        /\ done' = done /\ wrong' = wrong
    BY <1>6, <2>1 DEF Fire, Entry, TInv, TypeOK
  <2> QED
    BY <2>1, <2>2 DEF HandledInv, Kept, Answered, FalseMeansHandled
<1>7. CASE HandleTimeout
  <2>1. Head(trToCh) \in Key
    BY <1>7 DEF HandleTimeout, TInv, TypeOK
  <2>2. /\ rxTrans'[Head(trToCh)] = NoRx
        /\ \A j \in Key \ {Head(trToCh)} : rxTrans'[j] = rxTrans[j]
        /\ done' = done /\ wrong' = wrong
    BY <1>7, <2>1 DEF HandleTimeout, TInv, TypeOK
  <2> QED
    BY <2>1, <2>2 DEF HandledInv, Kept, Answered, FalseMeansHandled
<1>8. CASE Tick
  <2>1. /\ \A k \in Key : k \in Answered' =>
             k \in Answered /\ rxTrans'[k].msgBuf = rxTrans[k].msgBuf
        /\ done' = done /\ wrong' = wrong
    BY <1>8 DEF Tick, NeedDispatch, Answered, Entry, TInv, TypeOK
  <2> QED
    BY <2>1 DEF HandledInv, Kept, Answered, FalseMeansHandled
<1>9. CASE UNCHANGED vars
  BY <1>9 DEF vars, HandledInv, Kept, Answered, FalseMeansHandled
<1> QED
  BY <1>1, <1>2, <1>3, <1>4, <1>5, <1>6, <1>7, <1>8, <1>9 DEF Next

(* recv refuses only requests that were executed, and the peer gets the    *)
(* answer to its own request: as long as two requests never share a key.   *)
THEOREM HandledOnFalse ==
  ASSUME KeysDiffer
  PROVE  Spec => []FalseMeansHandled
<1>1. Init => HandledInv
  BY DEF Init, HandledInv, Answered, FalseMeansHandled
<1>2. TInv /\ HandledInv /\ [Next]_vars => HandledInv'
  BY HandledStep
<1>3. HandledInv => FalseMeansHandled
  BY DEF HandledInv
<1> QED
  BY <1>1, <1>2, <1>3, TInvariance, PTL DEF Spec
=============================================================================
