--------------------------- MODULE TxTransactions ---------------------------
(***************************************************************************)
(* The server's own PFCP requests, the session reports: sendReqTo and      *)
(* PfcpServer.txTrans, TxTransaction with its retransmission timer, and    *)
(* the branches of PfcpServer.main for responses and for timeouts.         *)
(*                                                                         *)
(* A timer runs, then its goroutine blocks on trToCh until there is room,  *)
(* then main takes the sequence number from the channel.  A response may   *)
(* come at any of these moments: recv stops a timer that still runs, and   *)
(* cannot take back what has fired.                                        *)
(*                                                                         *)
(* Requests are numbered in the order in which they are sent.  All go to   *)
(* one peer, since the key of a transaction holds the peer's address.  A   *)
(* response may be lost, late or repeated: whatever was sent may be        *)
(* answered at any later moment, any number of times, or never.            *)
(***************************************************************************)
EXTENDS Naturals, Sequences

CONSTANTS
  SeqMod,      \* 2^32: txSeq is a uint32
  WireMod,     \* 2^24: the sequence number in a message has three bytes
  MaxReq,      \* bound: how many requests the server sends
  MaxRetrans,  \* configuration of this UPF
  TimeoutChanLen,  \* TRANS_TIMEOUT_CHANNEL_LEN
  NoTx

VARIABLES
  count,    \* how many requests have been sent
  txSeq,    \* the sequence number of the next one
  txTrans,  \* the transactions, by sequence number
  firing,   \* sequence numbers whose timer's goroutine is not done
  trToCh,   \* sequence numbers main has still to handle
  net,      \* history: what the peer may have received
  copies,   \* history: how often a request was written to the connection
  answered, \* history: responses given to a handler, with their request
  gaveUp    \* history: requests reported as timed out

vars == <<count, txSeq, txTrans, firing, trToCh, net, copies, answered, gaveUp>>

Request == 0..(MaxReq - 1)
Seq32   == 0..(SeqMod - 1)
Wire    == 0..(WireMod - 1)
Packet  == [req : Request, seq : Wire]
Entry   == [req : Request, retransCount : 0..MaxRetrans, timer : BOOLEAN]

ASSUME NumberAssumption ==
  /\ SeqMod \in Nat \ {0} /\ WireMod \in Nat \ {0} /\ WireMod <= SeqMod
  /\ MaxReq \in Nat \ {0} /\ MaxRetrans \in 0..255 /\ TimeoutChanLen \in Nat \ {0}
ASSUME SeqAssumption == MaxReq <= SeqMod
ASSUME NoneAssumption == NoTx \notin Entry

TypeOK ==
  /\ count \in 0..MaxReq
  /\ txSeq \in Seq32
  /\ txTrans \in [Seq32 -> Entry \union {NoTx}]
  /\ firing \subseteq Seq32
  /\ trToCh \in Seq(Seq32)
  /\ net \subseteq Packet
  /\ copies \in [Request -> Nat]
  /\ answered \subseteq Request \X Request
  /\ gaveUp \subseteq Request

Init ==
  /\ count = 0
  /\ txSeq = 0
  /\ txTrans = [s \in Seq32 |-> NoTx]
  /\ firing = {}
  /\ trToCh = << >>
  /\ net = {}
  /\ copies = [r \in Request |-> 0]
  /\ answered = {}
  /\ gaveUp = {}

Live == {s \in Seq32 : txTrans[s] # NoTx}

-----------------------------------------------------------------------------
(* setReqSeq and MarshalTo: three bytes of the sequence number are sent.   *)
WireSeq(s) == s % WireMod

(* Mutant: the sequence number does not move on.                           *)
SendReqSameSeq ==
  /\ count < MaxReq
  /\ txTrans' = [txTrans EXCEPT ![txSeq] =
                   [req |-> count, retransCount |-> 0, timer |-> TRUE]]
  /\ net' = net \union {[req |-> count, seq |-> WireSeq(txSeq)]}
  /\ copies' = [copies EXCEPT ![count] = 1]
  /\ count' = count + 1
  /\ UNCHANGED <<txSeq, firing, trToCh, answered, gaveUp>>

(* sendReqTo: a new transaction, sent, with its timer started.  An error   *)
(* of WriteTo is a loss, the timer runs all the same.                      *)
SendReq ==
  /\ count < MaxReq
  /\ txTrans' = [txTrans EXCEPT ![txSeq] =
                   [req |-> count, retransCount |-> 0, timer |-> TRUE]]
  /\ net' = net \union {[req |-> count, seq |-> WireSeq(txSeq)]}
  /\ copies' = [copies EXCEPT ![count] = 1]
  /\ count' = count + 1
  /\ txSeq' = (txSeq + 1) % SeqMod
  /\ UNCHANGED <<firing, trToCh, answered, gaveUp>>

(* sendReqTo when MarshalTo fails: the transaction is in txTrans already,  *)
(* nothing is sent and no timer runs.                                      *)
SendReqFails ==
  /\ count < MaxReq
  /\ txTrans' = [txTrans EXCEPT ![txSeq] =
                   [req |-> count, retransCount |-> 0, timer |-> FALSE]]
  /\ count' = count + 1
  /\ txSeq' = (txSeq + 1) % SeqMod
  /\ UNCHANGED <<firing, trToCh, net, copies, answered, gaveUp>>

(* Mutant: the transaction stays when its response is there.               *)
RecvRspKeepsTx(p) ==
  /\ p.seq \in Live
  /\ txTrans' = [txTrans EXCEPT ![p.seq].timer = FALSE]
  /\ answered' = answered \union {<<p.req, txTrans[p.seq].req>>}
  /\ UNCHANGED <<count, txSeq, firing, trToCh, net, copies, gaveUp>>

(* A response to p arrives and its transaction is found: recv stops the    *)
(* timer and deletes the transaction, the handler gets response and        *)
(* request.  Without a transaction the response is dropped.  A transaction *)
(* whose request was never sent has a nil timer, and a response with its   *)
(* number would end the process: no step, and with WireFits no peer that   *)
(* answers what it was sent has such a response.                           *)
RecvRsp(p) ==
  /\ p.seq \in Live
  /\ copies[txTrans[p.seq].req] > 0
  /\ txTrans' = [txTrans EXCEPT ![p.seq] = NoTx]
  /\ answered' = answered \union {<<p.req, txTrans[p.seq].req>>}
  /\ UNCHANGED <<count, txSeq, firing, trToCh, net, copies, gaveUp>>

(* The timer expires: time.AfterFunc starts its goroutine.                 *)
Fire(s) ==
  /\ s \in Live
  /\ txTrans[s].timer
  /\ txTrans' = [txTrans EXCEPT ![s].timer = FALSE]
  /\ firing' = firing \union {s}
  /\ UNCHANGED <<count, txSeq, trToCh, net, copies, answered, gaveUp>>

(* The goroutine: NotifyTransTimeout, which waits for room on the channel. *)
Notify(s) ==
  /\ s \in firing
  /\ Len(trToCh) < TimeoutChanLen
  /\ firing' = firing \ {s}
  /\ trToCh' = Append(trToCh, s)
  /\ UNCHANGED <<count, txSeq, txTrans, net, copies, answered, gaveUp>>

-----------------------------------------------------------------------------
(* main takes a sequence number from trToCh.                               *)
Take(s) ==
  /\ trToCh # << >>
  /\ s = Head(trToCh)
  /\ trToCh' = Tail(trToCh)

(* One retransmission more, and the timer started again.                   *)
Again(e) == [req |-> e.req, retransCount |-> e.retransCount + 1, timer |-> TRUE]

(* Mutant: the timer is not started again.                                 *)
RetransmitNoTimer ==
  \E s \in Live :
    /\ Take(s)
    /\ txTrans[s].retransCount < MaxRetrans
    /\ txTrans' = [txTrans EXCEPT ![s].retransCount = @ + 1]
    /\ copies' = [copies EXCEPT ![txTrans[s].req] = @ + 1]
    /\ UNCHANGED <<count, txSeq, firing, net, answered, gaveUp>>

(* Mutant: one retransmission more.                                        *)
RetransmitOnceMore ==
  \E s \in Live :
    /\ Take(s)
    /\ txTrans[s].retransCount <= MaxRetrans
    /\ txTrans' = [txTrans EXCEPT ![s] = Again(@)]
    /\ copies' = [copies EXCEPT ![txTrans[s].req] = @ + 1]
    /\ UNCHANGED <<count, txSeq, firing, net, answered, gaveUp>>

(* handleTimeout with retransmissions left.                                *)
Retransmit ==
  \E s \in Live :
    /\ Take(s)
    /\ txTrans[s].retransCount < MaxRetrans
    /\ txTrans' = [txTrans EXCEPT ![s] = Again(@)]
    /\ copies' = [copies EXCEPT ![txTrans[s].req] = @ + 1]
    /\ UNCHANGED <<count, txSeq, firing, net, answered, gaveUp>>

(* Mutant: the last retransmission is given up before it is made.          *)
GiveUpEarly ==
  \E s \in Live :
    /\ Take(s)
    /\ txTrans[s].retransCount + 1 >= MaxRetrans
    /\ txTrans' = [txTrans EXCEPT ![s] = NoTx]
    /\ gaveUp' = gaveUp \union {txTrans[s].req}
    /\ UNCHANGED <<count, txSeq, firing, net, copies, answered>>

(* handleTimeout with none left: the transaction is deleted and            *)
(* txtoDispacher gets the request.                                         *)
GiveUp ==
  \E s \in Live :
    /\ Take(s)
    /\ txTrans[s].retransCount >= MaxRetrans
    /\ txTrans' = [txTrans EXCEPT ![s] = NoTx]
    /\ gaveUp' = gaveUp \union {txTrans[s].req}
    /\ UNCHANGED <<count, txSeq, firing, net, copies, answered>>

(* The response was faster: main only warns.                               *)
TooLate ==
  \E s \in Seq32 \ Live :
    /\ Take(s)
    /\ UNCHANGED <<count, txSeq, txTrans, firing, net, copies, answered, gaveUp>>

HandleTimeout == Retransmit \/ GiveUp \/ TooLate

Next ==
  \/ SendReq
  \/ SendReqFails
  \/ \E p \in net : RecvRsp(p)
  \/ \E s \in Seq32 : Fire(s) \/ Notify(s)
  \/ HandleTimeout

Spec == Init /\ [][Next]_vars

(* Timers expire, their goroutines run, and main's select serves trToCh.   *)
Fairness ==
  /\ \A s \in Seq32 : WF_vars(Fire(s)) /\ WF_vars(Notify(s))
  /\ WF_vars(HandleTimeout)

FairSpec == Spec /\ Fairness

-----------------------------------------------------------------------------
Answered == {a[2] : a \in answered}

(* A transaction that was sent has its timer running, or fired and not yet *)
(* notified, or notified and not yet handled, and only one of the three:   *)
(* without one it would never end, with two it would be sent twice as fast *)
(* and given up twice.  A sequence number that lost its transaction to a   *)
(* response is notified once at most.                                      *)
OneTimer ==
  /\ \A s \in Live :
       LET e == txTrans[s]
           waiting == \E i \in DOMAIN trToCh : trToCh[i] = s
       IN  /\ copies[e.req] > 0 => e.timer \/ s \in firing \/ waiting
           /\ ~(e.timer /\ s \in firing)
           /\ ~(e.timer /\ waiting)
  /\ \A i \in DOMAIN trToCh : trToCh[i] \notin firing
  /\ \A i, j \in DOMAIN trToCh : trToCh[i] = trToCh[j] => i = j

(* A request is given up after exactly MaxRetrans retransmissions, and is  *)
(* never sent more often than that.                                        *)
RetransExact ==
  /\ \A r \in Request : copies[r] <= MaxRetrans + 1
  /\ \A r \in gaveUp : copies[r] = MaxRetrans + 1

(* A request has one end: the response and the timeout handler do not both *)
(* get it, and no transaction is left behind.                              *)
OneEnd ==
  /\ Answered \intersect gaveUp = {}
  /\ \A s \in Live : txTrans[s].req \notin Answered \union gaveUp

(* Of all timeouts, retransmissions and late responses there is one end:   *)
(* a response, or giving up after exactly MaxRetrans (transaction.go:92).  *)
EndsOnce == RetransExact /\ OneEnd

(* After its end a request is not sent again, whatever timeout was on its  *)
(* way to main.                                                            *)
QuietAfterEnd ==
  [][\A r \in Answered \union gaveUp : copies'[r] = copies[r]]_vars

(* Every request that was sent ends: answered or given up.                 *)
SentEnds ==
  \A r \in Request : copies[r] > 0 ~> r \in Answered \union gaveUp

(* The handler gets the request the response is an answer to.  Needs       *)
(* WireFits.                                                               *)
AnswerMatches == \A a \in answered : a[1] = a[2]

(* Fewer requests than sequence numbers on the wire.                       *)
WireFits == MaxReq <= WireMod
=============================================================================
