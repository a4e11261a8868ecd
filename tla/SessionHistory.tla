--------------------------- MODULE SessionHistory ---------------------------
(***************************************************************************)
(* SessionTable with a history variable that no handler reads: the session *)
(* each waiting report is about, while that session lives.  The code keeps *)
(* the request instead, with the SEID and the address of the SMF as they   *)
(* were when the report was made, and a response finds the session again   *)
(* by these two (node.go:377).                                             *)
(***************************************************************************)
EXTENDS SessionTable

VARIABLE about

hvars == <<vars, about>>

HInit == Init /\ about = [t \in TxID |-> {}]

(* The session of a report is forgotten when it or the report ends.        *)
Keep == about' = [t \in TxID |-> {i \in about[t] : i \in Live' /\ txTrans'[t] # NoTx}]

Reported(id, t) == about' = [about EXCEPT ![t] = {id}]

HNext ==
  \/ \E n \in NodeID, addr \in NodeID, r \in NodeRef :
       AssociationSetup(n, addr, r) /\ Keep
  \/ \E n \in NodeID, rseid \in RSeid : Establish(n, rseid) /\ Keep
  \/ \E n \in NodeID : EstablishWithURR(n) /\ Keep
  \/ \E id \in SEID, n \in NodeID : Modify(id, n) /\ Keep
  \/ \E id \in SEID : ModifyWithURR(id) /\ Keep
  \/ \E id \in SEID : Delete(id) /\ Keep
  \/ SeidTooLarge /\ Keep
  \/ \E id \in SEID, t \in TxID : ServeReport(id, t) /\ Reported(id, t)
  \/ \E t \in TxID : TxDone(t) /\ Keep
  \/ \E t \in TxID : ReportResponse(t) /\ Keep
  \/ \E t \in TxID : ReportResponseAtNil(t) /\ Keep
  \/ Start /\ Keep

HSpec == HInit /\ [][HNext]_hvars

-----------------------------------------------------------------------------
(* The address the SMF of session i associated from.                       *)
AddrOf(i) == nodes[sess[i].rnode].addr

(* A report leads back to its session: what the request carries is still   *)
(* what the session has, whatever became of its node since.                *)
ReportsKnowTheirSession ==
  \A t \in TxID : \A i \in about[t] :
    i \in Live /\ txTrans[t] # NoTx /\ sess[i].RemoteID = txTrans[t].SEID

(* Whose sessions a message ends.  A new association of SMF n ends only    *)
(* sessions that are n's at that time: not those another SMF took over     *)
(* from n, although the SEIDs were given out under n (pfcp.go:242).  A     *)
(* report response with SEID 0 ends the session the report was about, if   *)
(* that session lives, its SMF associated from the address the report was  *)
(* sent to, and it alone has its remote SEID there; takeovers, deletions   *)
(* and SEIDs used again since the report do not lead it to another session.*)
EndsOwnSessions ==
  [][up' =>
       /\ \A n, addr \in NodeID, r \in NodeRef :
            AssociationSetup(n, addr, r)
              => \A i \in Live \ Live' : nodes[sess[i].rnode].ID = n
       /\ \A t \in TxID :
            ReportResponse(t)
              => \A i \in about[t] :
                   /\ AddrOf(i) = txTrans[t].raddr
                   /\ \A j \in Live \ {i} :
                        sess[j].RemoteID = sess[i].RemoteID => AddrOf(j) # AddrOf(i)
                   => Live \ Live' = {i}]_hvars
=============================================================================
