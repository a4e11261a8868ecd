----------------------------- MODULE BuffReport -----------------------------
(***************************************************************************)
(* Downlink packets that the kernel hands over to be buffered: datagrams   *)
(* to buff.Server, reports on srCh to main, queues of the sessions, and    *)
(* their way out when an Update FAR ends the buffering.                    *)
(*                                                                         *)
(* Three actors: the kernel, the goroutine of buff.Server.Serve, and main. *)
(* Datagrams are numbered in the order in which the kernel sends them; the *)
(* socket and srCh keep that order, so the place of each datagram follows  *)
(* from three counters: 1..got were served by main, got+1..put are on      *)
(* srCh, put+1..read is with the server, the others are in the socket.     *)
(*                                                                         *)
(* Serve reads every datagram into one buffer, and the report on srCh is a *)
(* slice of it.  buf is the number of the datagram whose packet the slice  *)
(* shows, or Torn while Serve is reading: datagrams are taken to be of one *)
(* length.  Those shorter than a header leave the slice alone and are left *)
(* out.  A session has one FAR, to which all its PDRs refer.               *)
(***************************************************************************)
EXTENDS Naturals, FiniteSets, Sequences

CONSTANTS
  SEID,     \* local SEIDs
  PDR,      \* IDs of the PDRs of a session
  Action,   \* what a FAR may say: sets of DROP, FORW, BUFF and NOCP
  ChLen,    \* REPORT_CHANNEL_LEN
  QLen,     \* BUFFQ_LEN
  MaxPkt,   \* bound: datagrams
  NoUpdate  \* main is not in an Update FAR

VARIABLES
  log,    \* the datagrams, by number
  srv,    \* what Serve does: Reading, Sending, or Idle
  buf,    \* the contents of the buffer of Serve
  read, put, got, \* how far the datagrams have come
  open,   \* the SEIDs that have a session
  far,    \* the FAR of each session in the kernel
  q,      \* Sess.q: the packets of each session
  upd,    \* the Update FAR main is in, or NoUpdate
  out,    \* history: the packets that WritePacket has written
  mark    \* history: by PDR, the last datagram served when it was drained

vars == <<log, srv, buf, read, put, got, open, far, q, upd, out, mark>>

Torn    == 0
Idle    == 0
Reading == 1
Sending == 2

(* report.go: the bits of an Apply Action.                                 *)
DROP == 1
FORW == 2
BUFF == 4
NOCP == 8

Datagram == [seid : SEID, pdr : PDR, action : Action]
Packet   == [n : Nat, pdr : PDR, intact : BOOLEAN]
Update   == [seid : SEID, action : Action]

ASSUME LenAssumption == ChLen \in Nat \ {0} /\ QLen \in Nat
ASSUME BoundAssumption == MaxPkt \in Nat
ASSUME ActionAssumption == Action \subseteq SUBSET {DROP, FORW, BUFF, NOCP} /\ {DROP} \in Action
ASSUME NoneAssumption == NoUpdate \notin Update

TypeOK ==
  /\ log \in Seq(Datagram)
  /\ srv \in {Idle, Reading, Sending}
  /\ {buf, read, put, got} \subseteq Nat
  /\ open \subseteq SEID
  /\ far \in [SEID -> Action]
  /\ q \in [SEID -> SUBSET Packet]
  /\ upd \in Update \union {NoUpdate}
  /\ out \subseteq Nat
  /\ mark \in [SEID -> [PDR -> Nat]]

Init ==
  /\ log = <<>> /\ srv = Idle /\ buf = Torn
  /\ read = 0 /\ put = 0 /\ got = 0
  /\ open = {}
  /\ far = [s \in SEID |-> {DROP}]
  /\ q = [s \in SEID |-> {}]
  /\ upd = NoUpdate
  /\ out = {}
  /\ mark = [s \in SEID |-> [p \in PDR |-> 0]]

-----------------------------------------------------------------------------
(* The kernel meets a packet for PDR p, whose FAR says BUFF.               *)
KernelBuffer(s, p) ==
  /\ Len(log) < MaxPkt
  /\ s \in open /\ BUFF \in far[s]
  /\ log' = Append(log, [seid |-> s, pdr |-> p, action |-> far[s]])
  /\ UNCHANGED <<srv, buf, read, put, got, open, far, q, upd, out, mark>>

(* Server.Serve: ReadFrom(b), during which b holds parts of two datagrams. *)
ReadBegin ==
  /\ srv = Idle /\ read < Len(log)
  /\ srv' = Reading
  /\ buf' = Torn
  /\ UNCHANGED <<log, read, put, got, open, far, q, upd, out, mark>>

ReadEnd ==
  /\ srv = Reading
  /\ srv' = Sending
  /\ read' = read + 1
  /\ buf' = read + 1
  /\ UNCHANGED <<log, put, got, open, far, q, upd, out, mark>>

(* NotifySessReport: waits for room on srCh.                               *)
NotifySessReport ==
  /\ srv = Sending /\ put - got < ChLen
  /\ srv' = Idle
  /\ put' = put + 1
  /\ UNCHANGED <<log, buf, read, got, open, far, q, upd, out, mark>>

(* Mutant: SEID and PDR ID are swapped.                                    *)
PushSwapped(s, n, p) == [q EXCEPT ![s] = @ \union {[n |-> n, pdr |-> s, intact |-> buf = n]}]

(* Sess.Push copies what the slice holds now; a full queue drops it.       *)
Push(s, n, p) ==
  IF Cardinality({e \in q[s] : e.pdr = p}) < QLen
  THEN [q EXCEPT ![s] = @ \union {[n |-> n, pdr |-> p, intact |-> buf = n]}]
  ELSE q

(* Mutant: the report of a session that is gone stays on srCh.             *)
ServeReportKeeps ==
  /\ upd = NoUpdate /\ got < put
  /\ log[got + 1].seid \in open
  /\ got' = got + 1
  /\ q' \in {q, Push(log[got + 1].seid, got + 1, log[got + 1].pdr)}
  /\ UNCHANGED <<log, srv, buf, read, put, open, far, upd, out, mark>>

(* ServeReport.  The report ends here if its SEID has no session or the    *)
(* Node ID of the SMF does not resolve.  With NOCP a report to the SMF     *)
(* follows (TxTransactions!SendReq).                                       *)
ServeReport ==
  /\ upd = NoUpdate /\ got < put
  /\ got' = got + 1
  /\ LET r == log[got + 1]
     IN  \/ q' = q
         \/ /\ r.seid \in open /\ BUFF \in r.action
            /\ q' = Push(r.seid, got + 1, r.pdr)
  /\ UNCHANGED <<log, srv, buf, read, put, open, far, upd, out, mark>>

-----------------------------------------------------------------------------
(* A session is established with its FAR; NewSess gives it no queue.       *)
OpenSess(s, a) ==
  /\ upd = NoUpdate /\ s \notin open
  /\ open' = open \union {s}
  /\ far' = [far EXCEPT ![s] = a]
  /\ UNCHANGED <<log, srv, buf, read, put, got, q, upd, out, mark>>

(* Sess.Close removes the rules and closes the queues, which are lost with *)
(* the Sess.  Reports of the session that are still on their way go to the *)
(* next session of the same SEID.                                          *)
CloseSess(s) ==
  /\ upd = NoUpdate /\ s \in open
  /\ open' = open \ {s}
  /\ q' = [q EXCEPT ![s] = {}]
  /\ UNCHANGED <<log, srv, buf, read, put, got, far, upd, out, mark>>

(* Mutants: all but the last packet, or only the last one, leave a queue.  *)
DrainedButLast(s, ps) ==
  {e \in q[s] : e.pdr \in ps /\ \E f \in q[s] : f.pdr = e.pdr /\ f.n > e.n}
DrainedNewest(s, ps) ==
  {e \in q[s] : e.pdr \in ps /\ \A f \in q[s] : f.pdr = e.pdr => f.n <= e.n}

(* The packets that leave the queues of the PDRs ps.                       *)
Drained(s, ps) == {e \in q[s] : e.pdr \in ps}

(* applyAction, with the FAR the kernel still has.  It does nothing if the *)
(* FAR ID came after the ApplyAction (the FAR is then looked for under ID  *)
(* 0), if GetFAROID fails, or if the FAR did not buffer.  ps are the PDRs  *)
(* whose PDR and QER the kernel returns; DROP needs neither.  WritePacket  *)
(* writes all packets or loses all: this FAR has an outer header or not.   *)
ApplyAction(s, a, found, ps, header) ==
  IF ~found \/ BUFF \notin far[s]
  THEN UNCHANGED <<q, out, mark>>
  ELSE LET qs == IF DROP \in a THEN PDR ELSE IF FORW \in a THEN ps ELSE {}
       IN  /\ q' = [q EXCEPT ![s] = @ \ Drained(s, qs)]
           /\ out' = IF DROP \in a \/ ~header THEN out
                     ELSE out \union {e.n : e \in Drained(s, qs)}
           /\ mark' = [mark EXCEPT ![s] = [p \in PDR |-> IF p \in qs THEN got ELSE @[p]]]

(* UpdateFAR up to the request to the kernel, and from its answer.         *)
UpdateFARBegin(s, a, found, ps, header) ==
  /\ upd = NoUpdate /\ s \in open
  /\ ApplyAction(s, a, found, ps, header)
  /\ upd' = [seid |-> s, action |-> a]
  /\ UNCHANGED <<log, srv, buf, read, put, got, open, far>>

UpdateFAREnd(ok) ==
  /\ upd # NoUpdate
  /\ far' = IF ok THEN [far EXCEPT ![upd.seid] = upd.action] ELSE far
  /\ upd' = NoUpdate
  /\ UNCHANGED <<log, srv, buf, read, put, got, open, q, out, mark>>

Next ==
  \/ \E s \in SEID, p \in PDR : KernelBuffer(s, p)
  \/ ReadBegin \/ ReadEnd \/ NotifySessReport \/ ServeReport
  \/ \E s \in SEID :
       \/ CloseSess(s)
       \/ \E a \in Action : OpenSess(s, a)
       \/ \E a \in Action, found, header \in BOOLEAN, ps \in SUBSET PDR :
            UpdateFARBegin(s, a, found, ps, header)
  \/ \E ok \in BOOLEAN : UpdateFAREnd(ok)

(* Serve and main run; main's select picks at random, so a report that     *)
(* waits is taken even if requests never stop coming.                      *)
Fairness ==
  /\ WF_vars(ReadBegin) /\ WF_vars(ReadEnd) /\ WF_vars(NotifySessReport)
  /\ SF_vars(ServeReport)
  /\ WF_vars(\E ok \in BOOLEAN : UpdateFAREnd(ok))

Spec == Init /\ [][Next]_vars /\ Fairness

-----------------------------------------------------------------------------
(* gtp5g.go:630, :1192: a drain takes all that main has put into the queue *)
(* before it, and nothing of that comes back.  What is left in the queue   *)
(* of a FAR that forwards came by main after the drain.                    *)
NothingOlderThanDrain ==
  \A s \in SEID : \A e \in q[s] : mark[s][e.pdr] < e.n /\ e.n <= got

(* The packets of a PDR leave in the order in which they were buffered,    *)
(* each once, over all the drains, also those of an earlier session that   *)
(* had the same SEID (gtp5g.go:1221).                                      *)
LeavesInOrder ==
  \A n \in out, s \in SEID : \A e \in q[s] : log[n].seid = s /\ log[n].pdr = e.pdr => n < e.n

(* Every datagram is served in the end: Serve, blocked on srCh, and main   *)
(* never wait for each other.                                              *)
ReportsServed == \A n \in 1..MaxPkt : (n <= Len(log)) ~> (n <= got)

(* node.go:238 says of Push: p is the contents of a packet of that PDR.    *)
(* The queue of a PDR holds the packets that were reported for it.         *)
ContentsKept == \A s \in SEID : \A e \in q[s] : e.intact
=============================================================================
