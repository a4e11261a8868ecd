-------------------------- MODULE BuffReportProofs --------------------------
(***************************************************************************)
(* Proofs about BuffReport, for every number of sessions, PDRs, datagrams  *)
(* and places in the channel and the queues.                               *)
(***************************************************************************)
EXTENDS BuffReport, TLAPS

(* What the counters say of the way from the socket to main.               *)
PipelineInOrder ==
  /\ got <= put /\ put <= read /\ read <= Len(log)
  /\ put - got <= ChLen
  /\ read = IF srv = Sending THEN put + 1 ELSE put

(* A queued packet was reported for its PDR, served, and came after the    *)
(* last drain.                                                             *)
QueueOK ==
  \A s \in SEID : \A e \in q[s] :
    /\ mark[s][e.pdr] < e.n /\ e.n <= got
    /\ log[e.n].seid = s /\ log[e.n].pdr = e.pdr

(* A packet that was written was served before the last drain of its PDR.  *)
OutOK ==
  \A n \in out :
    /\ 1 <= n /\ n <= got
    /\ n <= mark[log[n].seid][log[n].pdr]

MarkOK == \A s \in SEID, p \in PDR : mark[s][p] <= got

(* What Serve is reading is a datagram of the log.                         *)
ReadingOK == srv = Reading => read < Len(log)

Base == TypeOK /\ PipelineInOrder /\ ReadingOK
Inv  == Base /\ QueueOK /\ OutOK /\ MarkOK

-----------------------------------------------------------------------------
(* The types and the counters.                                             *)
LEMMA BaseInit == Init => Base
<1> SUFFICES ASSUME Init PROVE Base
  OBVIOUS
<1> USE DEF Init
<1>1. TypeOK
  BY ActionAssumption DEF TypeOK, Idle, Torn
<1>2. PipelineInOrder /\ ReadingOK
  BY LenAssumption DEF PipelineInOrder, ReadingOK, Idle, Reading, Sending
<1> QED
  BY <1>1, <1>2 DEF Base

LEMMA PushType ==
  ASSUME TypeOK, NEW s \in SEID, NEW n \in Nat, NEW p \in PDR
  PROVE  Push(s, n, p) \in [SEID -> SUBSET Packet]
<1>1. [n |-> n, pdr |-> p, intact |-> buf = n] \in Packet
  BY DEF Packet
<1>2. q[s] \union {[n |-> n, pdr |-> p, intact |-> buf = n]} \in SUBSET Packet
  BY <1>1 DEF TypeOK
<1>3. CASE Cardinality({e \in q[s] : e.pdr = p}) < QLen
  BY <1>2, <1>3 DEF TypeOK, Push
<1>4. CASE ~(Cardinality({e \in q[s] : e.pdr = p}) < QLen)
  BY <1>4 DEF TypeOK, Push
<1> QED
  BY <1>3, <1>4

(* What ApplyAction does: nothing, or the queues of a set of PDRs are      *)
(* emptied and their marks set, and their packets are written or lost.     *)
Drain(s, qs) ==
  /\ q' = [q EXCEPT ![s] = @ \ Drained(s, qs)]
  /\ mark' = [mark EXCEPT ![s] = [p \in PDR |-> IF p \in qs THEN got ELSE @[p]]]
  /\ out' = out \/ out' = out \union {e.n : e \in Drained(s, qs)}

LEMMA DrainSets ==
  ASSUME NEW s \in SEID, NEW a \in Action, NEW found \in BOOLEAN, NEW header \in BOOLEAN,
         NEW ps \in SUBSET PDR, ApplyAction(s, a, found, ps, header)
  PROVE  \E qs \in SUBSET PDR : UNCHANGED <<q, out, mark>> \/ Drain(s, qs)
<1> DEFINE qs == IF DROP \in a THEN PDR ELSE IF FORW \in a THEN ps ELSE {}
<1>1. qs \in SUBSET PDR
  OBVIOUS
<1>2. CASE ~found \/ BUFF \notin far[s]
  BY <1>2 DEF ApplyAction
<1>3. CASE ~(~found \/ BUFF \notin far[s])
  <2>1. Drain(s, qs)
    BY <1>3 DEF ApplyAction, Drain
  <2> QED
    BY <1>1, <2>1
<1> QED
  BY <1>2, <1>3

(* A report that main may serve is a datagram of the log.                  *)
LEMMA ReportType ==
  ASSUME Base, got < put
  PROVE  /\ got + 1 \in 1..Len(log)
         /\ log[got + 1] \in Datagram
         /\ log[got + 1].seid \in SEID /\ log[got + 1].pdr \in PDR
<1>1. got \in Nat /\ put \in Nat /\ read \in Nat /\ Len(log) \in Nat /\ log \in Seq(Datagram)
  BY DEF Base, TypeOK
<1>2. got + 1 \in 1..Len(log)
  BY <1>1 DEF Base, PipelineInOrder
<1>3. log[got + 1] \in Datagram
  BY <1>1, <1>2
<1> QED
  BY <1>2, <1>3 DEF Datagram

LEMMA BaseNext == Base /\ [Next]_vars => Base'
<1> SUFFICES ASSUME Base, [Next]_vars PROVE Base'
  OBVIOUS
<1> USE DEF Base
<1>1. ASSUME NEW s \in SEID, NEW p \in PDR, KernelBuffer(s, p) PROVE Base'
  <2>1. [seid |-> s, pdr |-> p, action |-> far[s]] \in Datagram
    BY DEF TypeOK, Datagram
  <2>2. TypeOK'
    BY <1>1, <2>1 DEF TypeOK, KernelBuffer
  <2>3. Len(log') = Len(log) + 1
    BY <1>1, <2>1 DEF TypeOK, KernelBuffer
  <2>4. PipelineInOrder'
    BY <1>1, <2>3 DEF TypeOK, KernelBuffer, PipelineInOrder
  <2> QED
    BY <2>2, <2>3, <2>4, <1>1 DEF KernelBuffer, ReadingOK, TypeOK
<1>2. CASE ReadBegin
  <2>1. TypeOK'
    BY <1>2 DEF TypeOK, ReadBegin, Reading, Torn
  <2>2. PipelineInOrder'
    BY <1>2 DEF TypeOK, ReadBegin, PipelineInOrder, Reading, Sending, Idle
  <2> QED
    BY <2>1, <2>2, <1>2 DEF ReadBegin, ReadingOK, Reading
<1>3. CASE ReadEnd
  <2>1. TypeOK'
    BY <1>3 DEF TypeOK, ReadEnd, Sending
  <2>2. PipelineInOrder'
    BY <1>3 DEF TypeOK, ReadEnd, PipelineInOrder, ReadingOK, Reading, Sending
  <2> QED
    BY <2>1, <2>2, <1>3 DEF ReadEnd, ReadingOK, Reading, Sending
<1>4. CASE NotifySessReport
  <2>1. TypeOK'
    BY <1>4 DEF TypeOK, NotifySessReport, Idle
  <2>2. PipelineInOrder'
    BY <1>4, LenAssumption DEF TypeOK, NotifySessReport, PipelineInOrder, Sending, Idle
  <2> QED
    BY <2>1, <2>2, <1>4 DEF NotifySessReport, ReadingOK, Idle, Reading
<1>5. CASE ServeReport
  <2>1. q' \in [SEID -> SUBSET Packet]
    BY <1>5, ReportType, PushType DEF TypeOK, ServeReport
  <2>2. TypeOK'
    BY <1>5, <2>1 DEF TypeOK, ServeReport
  <2>3. PipelineInOrder'
    BY <1>5, LenAssumption DEF TypeOK, ServeReport, PipelineInOrder
  <2> QED
    BY <2>2, <2>3, <1>5 DEF ServeReport, ReadingOK
<1>6. ASSUME NEW s \in SEID, CloseSess(s) PROVE Base'
  <2>1. TypeOK'
    BY <1>6 DEF TypeOK, CloseSess
  <2>2. PipelineInOrder'
    BY <1>6 DEF CloseSess, PipelineInOrder
  <2> QED
    BY <2>1, <2>2, <1>6 DEF CloseSess, ReadingOK
<1>7. ASSUME NEW s \in SEID, NEW a \in Action, OpenSess(s, a) PROVE Base'
  <2>1. TypeOK'
    BY <1>7 DEF TypeOK, OpenSess
  <2>2. PipelineInOrder'
    BY <1>7 DEF OpenSess, PipelineInOrder
  <2> QED
    BY <2>1, <2>2, <1>7 DEF OpenSess, ReadingOK
<1>8. ASSUME NEW s \in SEID, NEW a \in Action, NEW found \in BOOLEAN, NEW header \in BOOLEAN,
             NEW ps \in SUBSET PDR, UpdateFARBegin(s, a, found, ps, header)
      PROVE  Base'
  <2>0. PICK qs \in SUBSET PDR :
          \/ UNCHANGED <<q, out, mark>>
          \/ Drain(s, qs)
    BY <1>8, DrainSets DEF UpdateFARBegin
  <2>1. q' \in [SEID -> SUBSET Packet]
    BY <2>0 DEF TypeOK, Drain, Drained
  <2>2. mark' \in [SEID -> [PDR -> Nat]]
    <3>1. CASE UNCHANGED <<q, out, mark>>
      BY <3>1 DEF TypeOK
    <3>2. CASE Drain(s, qs)
      <4>1. mark[s] \in [PDR -> Nat] /\ got \in Nat
        BY DEF TypeOK
      <4>2. [p \in PDR |-> IF p \in qs THEN got ELSE mark[s][p]] \in [PDR -> Nat]
        BY <4>1
      <4>3. mark' = [mark EXCEPT ![s] = [p \in PDR |-> IF p \in qs THEN got ELSE mark[s][p]]]
        BY <3>2 DEF TypeOK, Drain
      <4> QED
        BY <4>2, <4>3 DEF TypeOK
    <3> QED
      BY <2>0, <3>1, <3>2
  <2>3. out' \subseteq Nat
    <3>1. {e.n : e \in Drained(s, qs)} \subseteq Nat
      BY DEF TypeOK, Drained, Packet
    <3> QED
      BY <2>0, <3>1 DEF TypeOK, Drain
  <2>4. upd' \in Update
    BY <1>8 DEF UpdateFARBegin, Update
  <2>5. TypeOK'
    BY <1>8, <2>1, <2>2, <2>3, <2>4 DEF TypeOK, UpdateFARBegin
  <2>6. PipelineInOrder'
    BY <1>8 DEF UpdateFARBegin, PipelineInOrder
  <2> QED
    BY <2>5, <2>6, <1>8 DEF UpdateFARBegin, ReadingOK
<1>9. ASSUME NEW ok \in BOOLEAN, UpdateFAREnd(ok) PROVE Base'
  <2>1. TypeOK'
    BY <1>9, NoneAssumption DEF TypeOK, UpdateFAREnd, Update
  <2>2. PipelineInOrder'
    BY <1>9 DEF UpdateFAREnd, PipelineInOrder
  <2> QED
    BY <2>1, <2>2, <1>9 DEF UpdateFAREnd, ReadingOK
<1>10. CASE UNCHANGED vars
  BY <1>10 DEF vars, TypeOK, PipelineInOrder, ReadingOK
<1> QED
  BY <1>1, <1>2, <1>3, <1>4, <1>5, <1>6, <1>7, <1>8, <1>9, <1>10 DEF Next

(* The variables keep their types, for every parameter.                    *)
THEOREM TypeCorrect == Spec => []TypeOK
<1>1. Base => TypeOK
  BY DEF Base
<1> QED
  BY <1>1, BaseInit, BaseNext, PTL DEF Spec

-----------------------------------------------------------------------------
(* The packets in the queues and those that left.                          *)
LEMMA InvInit == Init => Inv
<1> SUFFICES ASSUME Init PROVE Inv
  OBVIOUS
<1> QED
  BY BaseInit DEF Init, Inv, QueueOK, OutOK, MarkOK

(* A packet of a queue after a Push was there before, or was just served.  *)
LEMMA PushElements ==
  ASSUME TypeOK, NEW s \in SEID, NEW n \in Nat, NEW p \in PDR, q' = Push(s, n, p),
         NEW t \in SEID, NEW e \in q'[t], e \notin q[t]
  PROVE  t = s /\ e.n = n /\ e.pdr = p
<1>1. CASE Cardinality({f \in q[s] : f.pdr = p}) < QLen
  BY <1>1 DEF TypeOK, Push
<1>2. CASE ~(Cardinality({f \in q[s] : f.pdr = p}) < QLen)
  BY <1>2 DEF TypeOK, Push
<1> QED
  BY <1>1, <1>2

(* The numbers that the history variables speak of are those of the log.   *)
LEMMA InvUnchanged ==
  ASSUME Inv, UNCHANGED <<log, got, mark, out>>,
         \A s \in SEID : q'[s] \subseteq q[s]
  PROVE  QueueOK' /\ OutOK' /\ MarkOK'
BY DEF Inv, QueueOK, OutOK, MarkOK

LEMMA InvAppend ==
  ASSUME Inv, NEW s \in SEID, NEW p \in PDR, KernelBuffer(s, p)
  PROVE  QueueOK' /\ OutOK' /\ MarkOK'
<1>0. TypeOK /\ PipelineInOrder
  BY DEF Inv, Base
<1>1. [seid |-> s, pdr |-> p, action |-> far[s]] \in Datagram
  BY <1>0 DEF TypeOK, Datagram
<1>2. \A n \in 1..got : log'[n] = log[n]
  BY <1>0, <1>1 DEF TypeOK, PipelineInOrder, KernelBuffer
<1>3. QueueOK'
  <2> SUFFICES ASSUME NEW t \in SEID, NEW e \in q[t]
               PROVE  /\ mark[t][e.pdr] < e.n /\ e.n <= got
                      /\ log'[e.n].seid = t /\ log'[e.n].pdr = e.pdr
    BY DEF KernelBuffer, QueueOK
  <2>1. e.n \in Nat /\ e.pdr \in PDR /\ mark[t][e.pdr] \in Nat
    BY <1>0 DEF TypeOK, Packet
  <2>2. e.n \in 1..got
    BY <1>0, <2>1 DEF TypeOK, Inv, QueueOK
  <2> QED
    BY <1>2, <2>2 DEF Inv, QueueOK
<1>4. OutOK'
  <2>1. \A n \in out : n \in 1..got
    BY <1>0 DEF TypeOK, Inv, OutOK
  <2> QED
    BY <1>2, <2>1 DEF Inv, OutOK, KernelBuffer
<1>5. MarkOK'
  BY DEF Inv, MarkOK, KernelBuffer
<1> QED
  BY <1>3, <1>4, <1>5

LEMMA InvServe ==
  ASSUME Inv, ServeReport
  PROVE  QueueOK' /\ OutOK' /\ MarkOK'
<1>0. TypeOK /\ Base /\ got \in Nat /\ got < put /\ got' = got + 1
  BY DEF Inv, Base, TypeOK, ServeReport
<1>1. /\ log[got + 1].seid \in SEID /\ log[got + 1].pdr \in PDR
  BY <1>0, ReportType
<1>2. UNCHANGED <<log, mark, out>>
  BY DEF ServeReport
<1>3. QueueOK'
  <2> SUFFICES ASSUME NEW t \in SEID, NEW e \in q'[t]
               PROVE  /\ mark[t][e.pdr] < e.n /\ e.n <= got + 1
                      /\ log[e.n].seid = t /\ log[e.n].pdr = e.pdr
    BY <1>0, <1>2 DEF QueueOK
  <2>1. CASE e \in q[t]
    <3>1. e.n \in Nat
      BY <1>0, <2>1 DEF TypeOK, Packet
    <3>2. e.n <= got
      BY <2>1 DEF Inv, QueueOK
    <3>3. e.n <= got + 1
      BY <1>0, <3>1, <3>2
    <3> QED
      BY <2>1, <3>3 DEF Inv, QueueOK
  <2>2. CASE e \notin q[t]
    <3>1. q' = Push(log[got + 1].seid, got + 1, log[got + 1].pdr)
      BY <2>2 DEF ServeReport
    <3>2. t = log[got + 1].seid /\ e.n = got + 1 /\ e.pdr = log[got + 1].pdr
      BY <1>0, <1>1, <2>2, <3>1, PushElements
    <3>3. mark[t][e.pdr] \in Nat /\ mark[t][e.pdr] <= got
      BY <1>1, <3>2, <1>0 DEF Inv, MarkOK, TypeOK
    <3> QED
      BY <1>0, <3>2, <3>3
  <2> QED
    BY <2>1, <2>2
<1>4. OutOK'
  <2>1. \A n \in out : n \in Nat /\ n <= got
    BY <1>0 DEF Inv, OutOK, TypeOK
  <2>2. \A n \in out : n <= got + 1
    BY <1>0, <2>1
  <2> QED
    BY <1>0, <1>2, <2>2 DEF Inv, OutOK
<1>5. MarkOK'
  <2>1. \A s \in SEID, p \in PDR : mark[s][p] \in Nat /\ mark[s][p] <= got
    BY <1>0 DEF Inv, MarkOK, TypeOK
  <2> QED
    BY <1>0, <1>2, <2>1 DEF MarkOK
<1> QED
  BY <1>3, <1>4, <1>5

LEMMA InvDrain ==
  ASSUME Inv, NEW s \in SEID, NEW qs \in SUBSET PDR, Drain(s, qs), UNCHANGED <<log, got>>
  PROVE  QueueOK' /\ OutOK' /\ MarkOK'
<1>0. TypeOK /\ got \in Nat
  BY DEF Inv, Base, TypeOK
<1>1. \A t \in SEID, p \in PDR :
        mark'[t][p] = IF t = s /\ p \in qs THEN got ELSE mark[t][p]
  BY <1>0 DEF Drain, TypeOK
<1>2. \A t \in SEID : q'[t] = IF t = s THEN q[s] \ Drained(s, qs) ELSE q[t]
  BY <1>0 DEF Drain, TypeOK
<1>3. QueueOK'
  <2> SUFFICES ASSUME NEW t \in SEID, NEW e \in q'[t]
               PROVE  /\ mark'[t][e.pdr] < e.n /\ e.n <= got
                      /\ log[e.n].seid = t /\ log[e.n].pdr = e.pdr
    BY DEF QueueOK
  <2>1. e \in q[t] /\ (t = s => e.pdr \notin qs)
    BY <1>2 DEF Drained
  <2>2. e.pdr \in PDR
    BY <1>0, <2>1 DEF TypeOK, Packet
  <2>3. mark'[t][e.pdr] = mark[t][e.pdr]
    BY <1>1, <2>1, <2>2
  <2> QED
    BY <2>1, <2>3 DEF Inv, QueueOK
<1>4. OutOK'
  <2> SUFFICES ASSUME NEW n \in out'
               PROVE  /\ 1 <= n /\ n <= got
                      /\ n <= mark'[log[n].seid][log[n].pdr]
    BY DEF OutOK
  <2>1. CASE n \in out
    <3>1. n \in Nat /\ 1 <= n /\ n <= got /\ n <= mark[log[n].seid][log[n].pdr]
      BY <1>0, <2>1 DEF Inv, OutOK, TypeOK
    <3>2. n \in 1..Len(log) /\ log \in Seq(Datagram)
      BY <1>0, <3>1 DEF Inv, Base, PipelineInOrder, TypeOK
    <3>3. log[n] \in Datagram
      BY <3>2
    <3>4. log[n].seid \in SEID /\ log[n].pdr \in PDR
      BY <3>3 DEF Datagram
    <3> QED
      BY <1>1, <3>1, <3>4
  <2>2. CASE n \notin out
    <3>1. n \in {e.n : e \in Drained(s, qs)}
      BY <2>2 DEF Drain
    <3>2. PICK e \in q[s] : e.pdr \in qs /\ n = e.n
      BY <3>1 DEF Drained
    <3>3. /\ e.n \in Nat /\ e.pdr \in PDR
          /\ mark[s][e.pdr] \in Nat /\ mark[s][e.pdr] < e.n /\ e.n <= got
          /\ log[e.n].seid = s /\ log[e.n].pdr = e.pdr
      BY <1>0 DEF Inv, QueueOK, TypeOK, Packet
    <3> QED
      BY <1>0, <1>1, <3>2, <3>3
  <2> QED
    BY <2>1, <2>2
<1>5. MarkOK'
  BY <1>0, <1>1 DEF Inv, MarkOK
<1> QED
  BY <1>3, <1>4, <1>5

LEMMA InvNext == Inv /\ [Next]_vars => Inv'
<1> SUFFICES ASSUME Inv, [Next]_vars PROVE Inv'
  OBVIOUS
<1>0. Base' /\ TypeOK
  BY BaseNext DEF Inv, Base
<1> SUFFICES QueueOK' /\ OutOK' /\ MarkOK'
  BY <1>0 DEF Inv
<1>1. ASSUME NEW s \in SEID, NEW p \in PDR, KernelBuffer(s, p)
      PROVE  QueueOK' /\ OutOK' /\ MarkOK'
  BY <1>1, InvAppend
<1>2. CASE ReadBegin \/ ReadEnd \/ NotifySessReport \/ UNCHANGED vars
  BY <1>2, InvUnchanged DEF ReadBegin, ReadEnd, NotifySessReport, vars
<1>3. CASE ServeReport
  BY <1>3, InvServe
<1>4. ASSUME NEW s \in SEID, CloseSess(s)
      PROVE  QueueOK' /\ OutOK' /\ MarkOK'
  BY <1>0, <1>4, InvUnchanged DEF CloseSess, TypeOK
<1>5. ASSUME NEW s \in SEID, NEW a \in Action, OpenSess(s, a)
      PROVE  QueueOK' /\ OutOK' /\ MarkOK'
  BY <1>5, InvUnchanged DEF OpenSess
<1>6. ASSUME NEW s \in SEID, NEW a \in Action, NEW found \in BOOLEAN, NEW header \in BOOLEAN,
             NEW ps \in SUBSET PDR, UpdateFARBegin(s, a, found, ps, header)
      PROVE  QueueOK' /\ OutOK' /\ MarkOK'
  <2>1. UNCHANGED <<log, got>>
    BY <1>6 DEF UpdateFARBegin
  <2>2. PICK qs \in SUBSET PDR : UNCHANGED <<q, out, mark>> \/ Drain(s, qs)
    BY <1>6, DrainSets DEF UpdateFARBegin
  <2> QED
    BY <2>1, <2>2, InvUnchanged, InvDrain
<1>7. ASSUME NEW ok \in BOOLEAN, UpdateFAREnd(ok)
      PROVE  QueueOK' /\ OutOK' /\ MarkOK'
  BY <1>7, InvUnchanged DEF UpdateFAREnd
<1> QED
  BY <1>1, <1>2, <1>3, <1>4, <1>5, <1>6, <1>7 DEF Next

(* What a drain took from a queue, or dropped, never comes back to it.     *)
THEOREM DrainCorrect == Spec => []NothingOlderThanDrain
<1>1. Inv => NothingOlderThanDrain
  BY DEF Inv, QueueOK, NothingOlderThanDrain
<1> QED
  BY <1>1, InvInit, InvNext, PTL DEF Spec

(* The packets of a PDR leave in the order in which they were buffered.    *)
THEOREM OrderCorrect == Spec => []LeavesInOrder
<1>1. ASSUME Inv PROVE LeavesInOrder
  <2> SUFFICES ASSUME NEW n \in out, NEW s \in SEID, NEW e \in q[s],
                      log[n].seid = s, log[n].pdr = e.pdr
               PROVE  n < e.n
    BY DEF LeavesInOrder
  <2>1. n \in Nat /\ e.n \in Nat /\ e.pdr \in PDR
    BY <1>1 DEF Inv, Base, TypeOK, Packet
  <2>2. mark[s][e.pdr] \in Nat
    BY <1>1, <2>1 DEF Inv, Base, TypeOK
  <2>3. n <= mark[s][e.pdr] /\ mark[s][e.pdr] < e.n
    BY <1>1 DEF Inv, OutOK, QueueOK
  <2> QED
    BY <2>1, <2>2, <2>3
<1> QED
  BY <1>1, InvInit, InvNext, PTL DEF Spec
=============================================================================
