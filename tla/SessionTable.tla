---------------------------- MODULE SessionTable ----------------------------
(***************************************************************************)
(* The tables of internal/pfcp that tie a PFCP session to its SMF:         *)
(*                                                                         *)
(*   sess, free   LocalNode: one slot per local SEID (slot i serves SEID   *)
(*                i) and the stack of SEIDs to be used again;              *)
(*   nodes        the RemoteNode objects, each with the SEIDs it owns;     *)
(*   rnodes       PfcpServer.rnodes, the associated node of a Node ID;     *)
(*   txTrans      the Session Report Requests waiting for a response (what *)
(*                a response handler reads back from its transaction);     *)
(*   halt         Running, or the panic that has stopped the server.       *)
(*                                                                         *)
(* One action per message handler.  PfcpServer.main runs the handlers one  *)
(* at a time, so a handler is one step.  Objects are reached by reference: *)
(* a NodeRef stands for a *RemoteNode, and a new object takes a reference  *)
(* that nothing reaches any more.  What the rules inside a session do to   *)
(* the data plane is the matter of other modules; what they do to the      *)
(* tables (a Create URR or Create BAR stops the server) is here.           *)
(***************************************************************************)
EXTENDS Naturals, Sequences

CONSTANTS
  NodeID,    \* Node IDs of the SMFs; also the address a Node ID resolves to
  NodeRef,   \* references to RemoteNode objects
  RSeid,     \* SEIDs chosen by the SMFs
  TxID,      \* keys of txTrans
  MaxSess,   \* bound: number of slots LocalNode.sess may grow to
  Takeover,  \* TRUE iff a modification may bring the Node ID of another SMF
  NoNode, NoSess, NoTx,
  Running, NilMap, NilSlot, BadIndex   \* what the server is doing: see halt

VARIABLES sess, free, nodes, rnodes, txTrans, halt

tables == <<sess, free, nodes, rnodes, txTrans>>
vars   == <<sess, free, nodes, rnodes, txTrans, halt>>

SEID    == 1..MaxSess
Session == [LocalID : SEID, RemoteID : RSeid, rnode : NodeRef]
Node    == [ID : NodeID, addr : NodeID, sess : SUBSET SEID]
Report  == [SEID : RSeid, raddr : NodeID]

ASSUME MaxSessAssumption == MaxSess \in Nat
ASSUME TakeoverAssumption == Takeover \in BOOLEAN
ASSUME NilAssumption ==
  /\ NoSess \notin Session
  /\ NoNode \notin NodeRef
  /\ NoTx \notin Report
ASSUME HaltAssumption == Running \notin {NilMap, NilSlot, BadIndex}
ASSUME SomeNode == NodeID # {}

TypeOK ==
  /\ sess \in Seq(Session \union {NoSess})
  /\ Len(sess) <= MaxSess
  /\ free \in Seq(SEID)
  /\ nodes \in [NodeRef -> Node]
  /\ rnodes \in [NodeID -> NodeRef \union {NoNode}]
  /\ txTrans \in [TxID -> Report \union {NoTx}]
  /\ halt \in {Running, NilMap, NilSlot, BadIndex}

-----------------------------------------------------------------------------
NewRemoteNode(n, addr) == [ID |-> n, addr |-> addr, sess |-> {}]

(* The tables of a server that has just been made, by NewPfcpServer.  What *)
(* a reference that nothing reaches holds is no matter: one of its values. *)
EmptyTables(s, f, ns, rs, tx) ==
  /\ s = << >>
  /\ f = << >>
  /\ \E n \in NodeID : ns = [r \in NodeRef |-> NewRemoteNode(n, n)]
  /\ rs = [n \in NodeID |-> NoNode]
  /\ tx = [t \in TxID |-> NoTx]

Init == EmptyTables(sess, free, nodes, rnodes, txTrans) /\ halt = Running

up == halt = Running

(* LocalNode.Sess finds a session exactly for these SEIDs; another one up  *)
(* to 2^63 is an error, and for a larger one see SeidTooLarge.             *)
Live == {i \in DOMAIN sess : sess[i] # NoSess}

(* Nothing points at the object any more: its reference may be used again. *)
Unreachable(r) ==
  /\ \A n \in NodeID : rnodes[n] # r
  /\ \A i \in Live : sess[i].rnode # r

(* A recovered panic of the server's goroutine: Fatalf ends the process,   *)
(* and with it everything the server kept in memory.                       *)
Exit(panic) ==
  /\ EmptyTables(sess', free', nodes', rnodes', txTrans')
  /\ halt' = panic

(* The process is started again; no table survives, no peer is told.       *)
Start == ~up /\ halt' = Running /\ UNCHANGED tables

-----------------------------------------------------------------------------
(* Mutant: the stack keeps the SEID that was taken from it.                *)
NewSessKeepsFree(id, s) ==
  \/ /\ free # << >>
     /\ id = free[Len(free)]
     /\ sess' = [sess EXCEPT ![id] = s]
     /\ UNCHANGED free
  \/ /\ free = << >>
     /\ Len(sess) < MaxSess
     /\ id = Len(sess) + 1
     /\ sess' = Append(sess, s)
     /\ UNCHANGED free

(* LocalNode.NewSess: the last SEID given back, else a new slot.           *)
NewSess(id, s) ==
  \/ /\ free # << >>
     /\ id = free[Len(free)]
     /\ free' = SubSeq(free, 1, Len(free) - 1)
     /\ sess' = [sess EXCEPT ![id] = s]
  \/ /\ free = << >>
     /\ Len(sess) < MaxSess
     /\ id = Len(sess) + 1
     /\ sess' = Append(sess, s)
     /\ UNCHANGED free

(* The orders in which a Go range over the map S can meet its keys.        *)
RangeOrders(S) ==
  UNION { {p \in [1..n -> S] : /\ \A a, b \in 1..n : p[a] = p[b] => a = b
                               /\ \A x \in S : \E a \in 1..n : p[a] = x}
          : n \in 0..MaxSess }

(* Mutant: the index of the slot is pushed instead of the SEID.            *)
DeleteSessPushesIndex(S) ==
  /\ sess' = [i \in DOMAIN sess |-> IF i \in S THEN NoSess ELSE sess[i]]
  /\ \E p \in RangeOrders({i - 1 : i \in S \intersect Live}) : free' = free \o p

(* LocalNode.DeleteSess for the SEIDs in S, in any order: a live session   *)
(* is closed, its slot becomes nil and its SEID is pushed on the stack; an *)
(* SEID without a session is an error that changes nothing.                *)
DeleteSess(S) ==
  /\ sess' = [i \in DOMAIN sess |-> IF i \in S THEN NoSess ELSE sess[i]]
  /\ \E p \in RangeOrders(S \intersect Live) : free' = free \o p

(* Mutant: the old node is dropped without Reset.                          *)
SessOfNone(n) == {}

(* The SEIDs that RemoteNode.Reset deletes when Node ID n is set up again. *)
SessOf(n) == IF rnodes[n] = NoNode THEN {} ELSE nodes[rnodes[n]].sess

(* handleAssociationSetupRequest: the node registered under the Node ID is *)
(* reset and dropped, a new object r takes its place.                      *)
AssociationSetup(n, addr, r) ==
  /\ up
  /\ r = rnodes[n] \/ Unreachable(r)
  /\ DeleteSess(SessOf(n))
  /\ nodes' = [m \in NodeRef |->
                 IF m = r THEN NewRemoteNode(n, addr)
                 ELSE IF m = rnodes[n] THEN [nodes[m] EXCEPT !.sess = {}]
                 ELSE nodes[m]]
  /\ rnodes' = [rnodes EXCEPT ![n] = r]
  /\ UNCHANGED <<txTrans, halt>>

(* RemoteNode.NewSess: a session of node r, listed by the node.            *)
NodeNewSess(r, rseid) ==
  \E id \in SEID :
    /\ NewSess(id, [LocalID |-> id, RemoteID |-> rseid, rnode |-> r])
    /\ nodes' = [nodes EXCEPT ![r].sess = @ \union {id}]

(* Mutant: the node still lists the SEID it deletes.                       *)
NodeDeleteSessStaysListed(r, id) ==
  DeleteSess(nodes[r].sess \intersect {id}) /\ UNCHANGED nodes

(* RemoteNode.DeleteSess: nothing happens for an SEID r does not list.     *)
NodeDeleteSess(r, id) ==
  LET mine == nodes[r].sess \intersect {id}
  IN  /\ DeleteSess(mine)
      /\ nodes' = [nodes EXCEPT ![r].sess = @ \ mine]

(* handleSessionEstablishmentRequest, for a Node ID that has a node.  The  *)
(* request is dropped without an answer otherwise.                         *)
Establish(n, rseid) ==
  /\ up
  /\ rnodes[n] # NoNode
  /\ NodeNewSess(rnodes[n], rseid)
  /\ UNCHANGED <<rnodes, txTrans, halt>>

(* The same handler when the request holds a Create URR or a Create BAR    *)
(* the driver accepts: NewSess made no map for their IDs, and the write to *)
(* the nil map panics.                                                     *)
EstablishWithURR(n) ==
  /\ up
  /\ rnodes[n] # NoNode
  /\ free # << >> \/ Len(sess) < MaxSess
  /\ Exit(NilMap)

(* Mutant: the node stays registered under the ID it had.                  *)
UpdateNodeIDKeepsOld(r, n) ==
  /\ nodes' = [nodes EXCEPT ![r].ID = n]
  /\ rnodes' = [rnodes EXCEPT ![n] = r]

(* PfcpServer.UpdateNodeID gives the node object a new ID and registers it *)
(* there, whatever was registered under either ID before.                  *)
UpdateNodeID(r, n) ==
  LET dropped == [rnodes EXCEPT ![nodes[r].ID] = NoNode]
  IN  /\ nodes' = [nodes EXCEPT ![r].ID = n]
      /\ rnodes' = [dropped EXCEPT ![n] = r]

(* handleSessionModificationRequest with a Node ID, of another SMF or of   *)
(* the same.  Without one the handler changes no table.                    *)
Modify(id, n) ==
  /\ up
  /\ id \in Live
  /\ Takeover \/ n = nodes[sess[id].rnode].ID
  /\ UpdateNodeID(sess[id].rnode, n)
  /\ UNCHANGED <<sess, free, txTrans, halt>>

(* The same handler with an accepted Create URR or Create BAR.             *)
ModifyWithURR(id) == up /\ id \in Live /\ Exit(NilMap)

(* handleSessionDeletionRequest, through the node the session points to.   *)
Delete(id) ==
  /\ up
  /\ id \in Live
  /\ NodeDeleteSess(sess[id].rnode, id)
  /\ UNCHANGED <<rnodes, txTrans, halt>>

(* A modification or deletion request, or a report response, for an SEID   *)
(* above 2^63: int(lSeid) is negative, LocalNode.Sess compares the index   *)
(* with len(n.sess) only, and the slice is indexed out of its range.       *)
SeidTooLarge == up /\ Exit(BadIndex)

-----------------------------------------------------------------------------
(* ServeReport: a report of the data plane about a live session goes to    *)
(* the address the Node ID of its node resolves to.                        *)
ServeReport(id, t) ==
  /\ up
  /\ id \in Live
  /\ txTrans[t] = NoTx
  /\ txTrans' = [txTrans EXCEPT ![t] = [SEID  |-> sess[id].RemoteID,
                                        raddr |-> nodes[sess[id].rnode].ID]]
  /\ UNCHANGED <<sess, free, nodes, rnodes, halt>>

(* The transaction ends with a response for a non-zero SEID, or by timeout *)
(* after the last retransmission: neither changes a session.               *)
TxDone(t) ==
  /\ up
  /\ txTrans[t] # NoTx
  /\ txTrans' = [txTrans EXCEPT ![t] = NoTx]
  /\ UNCHANGED <<sess, free, nodes, rnodes, halt>>

(* What the loop of LocalNode.RemoteSess compares in slot i.               *)
RemoteMatch(i, q) ==
  /\ sess[i].RemoteID = q.SEID
  /\ nodes[sess[i].rnode].addr = q.raddr

(* The loop of RemoteSess arrives at slot i without having matched.        *)
Reaches(i, q) ==
  \A j \in 1..(i - 1) : sess[j] # NoSess /\ ~RemoteMatch(j, q)

(* handleSessionReportResponse with SEID 0: the SMF does not know the      *)
(* session, the first one that matches the request is deleted.             *)
ReportResponse(t) ==
  /\ up
  /\ txTrans[t] # NoTx
  /\ \E i \in Live :
       /\ Reaches(i, txTrans[t]) /\ RemoteMatch(i, txTrans[t])
       /\ NodeDeleteSess(sess[i].rnode, i)
  /\ txTrans' = [txTrans EXCEPT ![t] = NoTx]
  /\ UNCHANGED <<rnodes, halt>>

(* The same response when the loop meets a nil slot before a match.        *)
ReportResponseAtNil(t) ==
  /\ up
  /\ txTrans[t] # NoTx
  /\ \E i \in DOMAIN sess : sess[i] = NoSess /\ Reaches(i, txTrans[t])
  /\ Exit(NilSlot)

-----------------------------------------------------------------------------
Next ==
  \/ \E n \in NodeID, addr \in NodeID, r \in NodeRef : AssociationSetup(n, addr, r)
  \/ \E n \in NodeID, rseid \in RSeid : Establish(n, rseid)
  \/ \E n \in NodeID : EstablishWithURR(n)
  \/ \E id \in SEID, n \in NodeID : Modify(id, n)
  \/ \E id \in SEID : ModifyWithURR(id)
  \/ \E id \in SEID : Delete(id)
  \/ SeidTooLarge
  \/ \E id \in SEID, t \in TxID : ServeReport(id, t)
  \/ \E t \in TxID : TxDone(t) \/ ReportResponse(t) \/ ReportResponseAtNil(t)
  \/ Start

Spec == Init /\ [][Next]_vars

-----------------------------------------------------------------------------
(* The stack of SEIDs to be used again holds every nil slot exactly once:  *)
(* no SEID can be given to two sessions, and none is lost (NewSess and     *)
(* DeleteSess of LocalNode, whatever handler calls them).                  *)
FreeListExact ==
  /\ \A a, b \in DOMAIN free : free[a] = free[b] => a = b
  /\ {free[a] : a \in DOMAIN free} = DOMAIN sess \ Live

(* The two records of ownership agree: a node lists an SEID iff that slot  *)
(* is live, knows its own SEID, and points back at the node.  DeleteSess,  *)
(* Reset and the deletion handler each rely on it.                         *)
OwnershipAgrees ==
  /\ \A i \in Live : sess[i].LocalID = i
  /\ \A r \in NodeRef : nodes[r].sess = {i \in Live : sess[i].rnode = r}

(* An entry of rnodes leads to a node of that ID, so that no node object   *)
(* is registered twice, also after UpdateNodeID renamed some.              *)
RegistryConsistent ==
  \A n \in NodeID : rnodes[n] # NoNode => nodes[rnodes[n]].ID = n

(* From a Node ID to a node, from a node to its sessions and back: no two  *)
(* tables contradict each other after a takeover, a reset or a deletion    *)
(* (node.go:306, pfcp.go:242).                                             *)
NodesAgree == OwnershipAgrees /\ RegistryConsistent

(* A slot never changes from one session to another, nor does a session    *)
(* change its SEIDs or its node object: it has to be deleted first.        *)
SlotStable ==
  [][\A i \in Live : i \in Live' => sess'[i] = sess[i]]_vars

(* Every session can be found from the Node ID of its SMF: rnodes has the  *)
(* node the session belongs to.                                            *)
SessionsReachable ==
  \A i \in Live : rnodes[nodes[sess[i].rnode].ID] = sess[i].rnode

-----------------------------------------------------------------------------
(* What the table promises to the SMFs: the abstract specification, with   *)
(* the SMF of a session read from the ID of its node.                      *)
assocBar == {n \in NodeID : rnodes[n] # NoNode}
ctxBar   == [i \in SEID |->
               IF i \in Live
               THEN {[smf |-> nodes[sess[i].rnode].ID, seid |-> sess[i].RemoteID]}
               ELSE {}]

Service == INSTANCE PfcpService WITH assoc <- assocBar, ctx <- ctxBar

(* Without takeovers the tables implement the service.                     *)
ServiceSpec == Service!Spec

-----------------------------------------------------------------------------
(* session.go:328 on a report response with SEID 0: "no this session on    *)
(* remote; delete it on local".  If some session matches the request, the  *)
(* server deletes one that does, and goes on.                              *)
Seid0DeletesOnLocal ==
  [][\A t \in TxID :
       LET known == {i \in Live : txTrans[t] # NoTx /\ RemoteMatch(i, txTrans[t])}
       IN  known # {} /\ (ReportResponse(t) \/ ReportResponseAtNil(t))
             => up' /\ \E i \in known : i \notin Live']_vars

(* session.go:49 says of the establishment that it creates the rules of    *)
(* every kind for the session: one that names a URR or a BAR ends with the *)
(* session in place and the server running.                                *)
RulesOfEveryKind ==
  [][\A n \in NodeID :
       EstablishWithURR(n) => up' /\ \E id \in Live' : id \notin Live]_vars
=============================================================================
