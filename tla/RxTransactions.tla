--------------------------- MODULE RxTransactions ---------------------------
(***************************************************************************)
(* The server's side of PFCP request transactions: PfcpServer.rxTrans, the *)
(* branch of PfcpServer.main for requests, RxTransaction and its timer.    *)
(* The peer sends a request, sends it again while it waits, and the        *)
(* network loses, delays, duplicates and reorders the copies.  The server  *)
(* remembers the answer of a request until the transaction's timer has     *)
(* expired and answers further copies from memory.                         *)
(*                                                                         *)
(* Time is a number of ticks.  A copy is handled by main, or lost, within  *)
(* MaxDelay ticks of its sending, a bound on network and receive queue     *)
(* together; the peer sends copies for PeerWindow ticks.  The timer of the *)
(* transaction runs for RxTimeout ticks; then a goroutine puts the key on  *)
(* trToCh, and main deletes the transaction when it takes the key.         *)
(***************************************************************************)
EXTENDS Naturals, Sequences

CONSTANTS
  Req,             \* the requests the peer makes, each once
  Key,             \* keys of rxTrans: peer address and sequence number
  KeyOf,           \* the key of a request
  RetransTimeout, MaxRetrans,  \* configuration of this UPF
  PeerWindow,      \* how long the peer sends copies of a request
  MaxDelay,        \* how old a copy can be when main handles it
  TimeoutChanLen,  \* TRANS_TIMEOUT_CHANNEL_LEN
  NoRx, NoAnswer

VARIABLES
  left,     \* left[q]: ticks during which the peer may send q, 0 if it will not
  started,  \* the requests the peer has sent
  net,      \* copies on their way to main
  rxTrans,  \* the transactions
  trToCh,   \* keys whose timer has fired
  done,     \* history: requests that were executed and answered
  again,    \* history: requests executed after they had been answered
  wrong     \* history: requests refused, though not executed or not the one answered

vars == <<left, started, net, rxTrans, trToCh, done, again, wrong>>

(* Mutant: one retransmission interval less.                               *)
RxTimeoutShort == RetransTimeout * MaxRetrans

(* timeout in NewRxTransaction.  MaxRetrans is a uint8, and so is the sum: *)
(* a configuration with 255 keeps no answer for any time at all.           *)
Uint8 == 256
RxTimeout == RetransTimeout * ((MaxRetrans + 1) % Uint8)

Copy  == [req : Req, age : 0..MaxDelay]
Entry == [msgBuf : Req \union {NoAnswer}, timer : 0..RxTimeout, fired : BOOLEAN]

ASSUME NumberAssumption ==
  /\ RetransTimeout \in Nat /\ MaxRetrans \in 0..(Uint8 - 1)
  /\ PeerWindow \in Nat /\ MaxDelay \in Nat
  /\ TimeoutChanLen \in Nat \ {0}
ASSUME KeyAssumption == KeyOf \in [Req -> Key]
ASSUME NoneAssumption == NoAnswer \notin Req /\ NoRx \notin Entry

TypeOK ==
  /\ left \in [Req -> 0..(PeerWindow + 1)]
  /\ started \subseteq Req
  /\ net \subseteq Copy
  /\ rxTrans \in [Key -> Entry \union {NoRx}]
  /\ trToCh \in Seq(Key)
  /\ done \subseteq Req /\ again \subseteq Req /\ wrong \subseteq Req

Init ==
  /\ left = [q \in Req |-> 0]
  /\ started = {}
  /\ net = {}
  /\ rxTrans = [k \in Key |-> NoRx]
  /\ trToCh = << >>
  /\ done = {} /\ again = {} /\ wrong = {}

-----------------------------------------------------------------------------
(* The peer, and the network.                                              *)

Send(q) == net' = net \union {[req |-> q, age |-> 0]}

PeerSend(q) ==
  /\ q \notin started
  /\ started' = started \union {q}
  /\ left' = [left EXCEPT ![q] = PeerWindow + 1]
  /\ Send(q)
  /\ UNCHANGED <<rxTrans, trToCh, done, again, wrong>>

PeerResend(q) ==
  /\ left[q] > 0
  /\ Send(q)
  /\ UNCHANGED <<left, started, rxTrans, trToCh, done, again, wrong>>

Lose(c) ==
  /\ c \in net
  /\ net' = net \ {c}
  /\ UNCHANGED <<left, started, rxTrans, trToCh, done, again, wrong>>

(* The copy arrives; another one of the same age may still be on its way.  *)
Arrive(c) ==
  /\ c \in net
  /\ net' = net \ {c} \/ (c.age < MaxDelay /\ net' = net)

-----------------------------------------------------------------------------
(* RxTransaction.recv: without a transaction that has an answer, a request *)
(* needs dispatch.                                                         *)
Answered == {k \in Key : rxTrans[k] # NoRx /\ rxTrans[k].msgBuf # NoAnswer}
NeedDispatch(k) == k \notin Answered

(* Mutant: the answer is kept, the timer is not started.                   *)
RecvAnsweredNoTimer(c) ==
  LET k == KeyOf[c.req]
  IN  /\ Arrive(c)
      /\ NeedDispatch(k)
      /\ rxTrans' = [rxTrans EXCEPT ![k] =
                       [msgBuf |-> c.req, timer |-> RxTimeout, fired |-> TRUE]]
      /\ done' = done \union {c.req}
      /\ again' = again \union (done \intersect {c.req})
      /\ UNCHANGED <<left, started, trToCh, wrong>>

(* main dispatches the request and the handler answers it: send keeps the  *)
(* answer and starts the timer.                                            *)
RecvAnswered(c) ==
  LET k == KeyOf[c.req]
  IN  /\ Arrive(c)
      /\ NeedDispatch(k)
      /\ rxTrans' = [rxTrans EXCEPT ![k] =
                       [msgBuf |-> c.req, timer |-> RxTimeout, fired |-> FALSE]]
      /\ done' = done \union {c.req}
      /\ again' = again \union (done \intersect {c.req})
      /\ UNCHANGED <<left, started, trToCh, wrong>>

(* Mutant: a request that got no answer counts as handled.                 *)
RecvUnansweredAsHandled(c) ==
  LET k == KeyOf[c.req]
  IN  /\ Arrive(c)
      /\ NeedDispatch(k)
      /\ rxTrans' = [rxTrans EXCEPT ![k] =
                       [msgBuf |-> c.req, timer |-> RxTimeout, fired |-> FALSE]]
      /\ UNCHANGED <<left, started, trToCh, done, again, wrong>>

(* main dispatches the request and the handler returns early, without an   *)
(* answer: the transaction is there, without answer and without timer.     *)
RecvUnanswered(c) ==
  LET k == KeyOf[c.req]
  IN  /\ Arrive(c)
      /\ NeedDispatch(k)
      /\ rxTrans' = [rxTrans EXCEPT ![k] =
                       [msgBuf |-> NoAnswer, timer |-> RxTimeout, fired |-> FALSE]]
      /\ UNCHANGED <<left, started, trToCh, done, again, wrong>>

(* The kept answer is sent again, and the request is not dispatched.       *)
RecvRepeat(c) ==
  LET k == KeyOf[c.req]
  IN  /\ Arrive(c)
      /\ ~NeedDispatch(k)
      /\ wrong' = wrong \union ({c.req} \ ({rxTrans[k].msgBuf} \intersect done))
      /\ UNCHANGED <<left, started, rxTrans, trToCh, done, again>>

(* Mutant: the request goes on trToCh, not the key of the transaction.     *)
FireRequest(k) ==
  /\ ~NeedDispatch(k)
  /\ rxTrans[k].timer = 0
  /\ ~rxTrans[k].fired
  /\ Len(trToCh) < TimeoutChanLen
  /\ rxTrans' = [rxTrans EXCEPT ![k].fired = TRUE]
  /\ trToCh' = Append(trToCh, rxTrans[k].msgBuf)
  /\ UNCHANGED <<left, started, net, done, again, wrong>>

(* Mutant: the timer goes on like a time.Ticker.                           *)
FireRepeats(k) ==
  /\ ~NeedDispatch(k)
  /\ rxTrans[k].timer = 0
  /\ Len(trToCh) < TimeoutChanLen
  /\ rxTrans' = [rxTrans EXCEPT ![k].timer = RxTimeout]
  /\ trToCh' = Append(trToCh, k)
  /\ UNCHANGED <<left, started, net, done, again, wrong>>

(* The goroutine of an expired timer: NotifyTransTimeout.                  *)
Fire(k) ==
  /\ ~NeedDispatch(k)
  /\ rxTrans[k].timer = 0
  /\ ~rxTrans[k].fired
  /\ Len(trToCh) < TimeoutChanLen
  /\ rxTrans' = [rxTrans EXCEPT ![k].fired = TRUE]
  /\ trToCh' = Append(trToCh, k)
  /\ UNCHANGED <<left, started, net, done, again, wrong>>

(* main takes a key from trToCh: RxTransaction.handleTimeout, or a warning *)
(* when there is no such transaction.                                      *)
HandleTimeout ==
  /\ trToCh # << >>
  /\ rxTrans' = [rxTrans EXCEPT ![Head(trToCh)] = NoRx]
  /\ trToCh' = Tail(trToCh)
  /\ UNCHANGED <<left, started, net, done, again, wrong>>

(* A tick passes; no copy gets older than MaxDelay.                        *)
Tick ==
  /\ \A c \in net : c.age < MaxDelay
  /\ net' = {[req |-> c.req, age |-> c.age + 1] : c \in net}
  /\ left' = [q \in Req |-> IF left[q] > 0 THEN left[q] - 1 ELSE 0]
  /\ rxTrans' = [k \in Key |->
                   IF NeedDispatch(k) \/ rxTrans[k].timer = 0 THEN rxTrans[k]
                   ELSE [rxTrans[k] EXCEPT !.timer = @ - 1]]
  /\ UNCHANGED <<started, trToCh, done, again, wrong>>

Receive(c) == RecvAnswered(c) \/ RecvUnanswered(c) \/ RecvRepeat(c)

(* A copy of the greatest age is handled or lost.                          *)
Expire == \E c \in net : c.age = MaxDelay /\ (Receive(c) \/ Lose(c))

Next ==
  \/ \E q \in Req : PeerSend(q) \/ PeerResend(q)
  \/ \E c \in net : RecvAnswered(c) \/ RecvUnanswered(c) \/ RecvRepeat(c) \/ Lose(c)
  \/ \E k \in Key : Fire(k)
  \/ HandleTimeout
  \/ Tick

Spec == Init /\ [][Next]_vars

(* Time passes, copies arrive or get lost, runnable goroutines run, and    *)
(* main's select serves trToCh: it never blocks on anything else.          *)
Fairness ==
  /\ WF_vars(Tick) /\ WF_vars(Expire) /\ WF_vars(HandleTimeout)
  /\ \A k \in Key : WF_vars(Fire(k))

FairSpec == Spec /\ Fairness

-----------------------------------------------------------------------------
(* The transaction outlives every copy of its request.  With a peer of the *)
(* same configuration, PeerWindow = RetransTimeout * MaxRetrans, this is   *)
(* MaxDelay < RetransTimeout; for MaxRetrans = 255 it is false, whatever   *)
(* the peer and the network do.                                            *)
WindowFits == PeerWindow + MaxDelay < RxTimeout

(* No two requests of the peer share a key, as long as it does not start   *)
(* its sequence numbers over.                                              *)
KeysDiffer == \A p, q \in Req : KeyOf[p] = KeyOf[q] => p = q

(* A request is executed at most once, however its copies are delayed,     *)
(* duplicated and reordered: a second establishment would open a second    *)
(* session.  Needs KeysDiffer and WindowFits, so it is no promise about a  *)
(* MaxRetrans of 255: there the first copy after the answer is executed    *)
(* again as soon as the timer has been served.                             *)
AtMostOnce == again = {}

(* A key waits on trToCh once at most, and its transaction is the one      *)
(* whose timer fired: main never deletes a transaction before its time.    *)
TimeoutsAreDue ==
  /\ \A a, b \in DOMAIN trToCh : trToCh[a] = trToCh[b] => a = b
  /\ \A a \in DOMAIN trToCh :
       LET k == trToCh[a]
       IN  /\ ~NeedDispatch(k)
           /\ rxTrans[k].fired
           /\ rxTrans[k].timer = 0

(* An answered transaction is deleted in the end, and its key is free.     *)
AnsweredIsDeleted ==
  \A k \in Key : ~NeedDispatch(k) ~> rxTrans[k] = NoRx

(* transaction.go:159 says of recv: "False - req already handled".  A      *)
(* request that is refused was executed, and the answer the peer gets from *)
(* memory is the answer to it.  Needs KeysDiffer: an SMF that restarts and *)
(* numbers its requests from the start again gets the answer of an older   *)
(* request.                                                                *)
FalseMeansHandled == wrong = {}
=============================================================================
