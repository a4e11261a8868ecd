---------------------------- MODULE PfcpDispatch ----------------------------
(***************************************************************************)
(* From a datagram to its handler, and from the handler's answer to the    *)
(* peer.  What a message is, is asked in four places that have each a list *)
(* of message types of their own.                                          *)
(*                                                                         *)
(* A datagram is [type, nodeID, FSEID, seid, rules, pending]: the IEs are  *)
(* "missing", "bad" (cannot be read), "unknown" (no association of that    *)
(* Node ID) or "good"; its SEID is that of a "live" session, of "none", or *)
(* above 2^63, "huge"; pending: a request of the UPF waits under its       *)
(* address and sequence number.  Its rules are "plain", or one of them     *)
(* makes the handler panic: a URR or a BAR that the driver accepts, or a   *)
(* filter with two ranges of ports (FlowDesc).                             *)
(***************************************************************************)
EXTENDS Naturals

HeartbeatRequest             == 1
HeartbeatResponse            == 2
AssociationSetupRequest      == 5
AssociationSetupResponse     == 6
SessionEstablishmentRequest  == 50
SessionEstablishmentResponse == 51
SessionModificationRequest   == 52
SessionModificationResponse  == 53
SessionDeletionRequest       == 54
SessionDeletionResponse      == 55
SessionReportRequest         == 56
SessionReportResponse        == 57

(* PFD management, node reports and session set deletions are known too.   *)
IsRequest(type) == type \in {1, 3, 5, 7, 9, 12, 14, 50, 52, 54, 56}

(* Mutant: responses to modifications are not on the list.                 *)
IsResponseNoModification(type) == type \in {2, 4, 6, 8, 10, 13, 15, 51, 55, 57}

IsResponse(type) == type \in {2, 4, 6, 8, 10, 13, 15, 51, 53, 55, 57}

NoAnswer == [type |-> 0, cause |-> "none"]
Answer(type, cause) == [type |-> type, cause |-> cause]

(* The process ends instead.                                               *)
Panic == [type |-> 0, cause |-> "panic"]
Panicking == {"URR", "BAR", "ports"}

(* sendRspTo: only what is a response leaves.                              *)
SendRspTo(answer) == IF IsResponse(answer.type) THEN answer ELSE NoAnswer

-----------------------------------------------------------------------------
(* The handlers' answers.                                                  *)
HandleHeartbeat == SendRspTo(Answer(HeartbeatResponse, "none"))

HandleAssociationSetup(d) ==
  IF d.nodeID \in {"missing", "bad"} THEN NoAnswer
  ELSE SendRspTo(Answer(AssociationSetupResponse, "accepted"))

HandleSessionEstablishment(d) ==
  CASE d.nodeID # "good" \/ d.FSEID # "good" -> NoAnswer
    [] d.nodeID = "good" /\ d.FSEID = "good" /\ d.rules \in Panicking -> Panic
    [] OTHER -> SendRspTo(Answer(SessionEstablishmentResponse, "accepted"))

(* LocalNode.Sess takes an SEID above 2^63 for a negative index.           *)
HandleSessionModification(d) ==
  CASE d.seid = "huge" -> Panic
    [] d.seid = "none" -> SendRspTo(Answer(SessionModificationResponse, "not found"))
    [] d.seid = "live" /\ d.nodeID = "bad" -> NoAnswer
    [] d.seid = "live" /\ d.nodeID # "bad" /\ d.rules \in Panicking -> Panic
    [] OTHER -> SendRspTo(Answer(SessionModificationResponse, "accepted"))

HandleSessionDeletion(d) ==
  IF d.seid = "huge" THEN Panic
  ELSE SendRspTo(Answer(SessionDeletionResponse,
                        IF d.seid = "live" THEN "accepted" ELSE "not found"))

(* reqDispacher; updates and releases of an association are not supported. *)
ReqDispacher(d) ==
  CASE d.type = HeartbeatRequest -> HandleHeartbeat
    [] d.type = AssociationSetupRequest -> HandleAssociationSetup(d)
    [] d.type = SessionEstablishmentRequest -> HandleSessionEstablishment(d)
    [] d.type = SessionModificationRequest -> HandleSessionModification(d)
    [] d.type = SessionDeletionRequest -> HandleSessionDeletion(d)
    [] OTHER -> NoAnswer

(* rspDispacher and txtoDispacher: whether there is a handler.             *)
RspDispacher(type)  == type = SessionReportResponse
TxtoDispacher(type) == type = SessionReportRequest

(* sendReqTo: only what is a request leaves.                               *)
SendReqTo(type) == IsRequest(type)

(* main, for the first copy of a datagram: the answer; whether the UPF's   *)
(* pending request ends; whether its response is handled.  (A response to  *)
(* a report may panic as well: SessionTable.)                              *)
Received(d) ==
  CASE IsRequest(d.type) -> [answer |-> ReqDispacher(d), ends |-> FALSE, handled |-> FALSE]
    [] ~IsRequest(d.type) /\ IsResponse(d.type) ->
         [answer |-> NoAnswer, ends |-> d.pending, handled |-> d.pending /\ RspDispacher(d.type)]
    [] OTHER -> [answer |-> NoAnswer, ends |-> FALSE, handled |-> FALSE]

-----------------------------------------------------------------------------
Complete(d) == d.nodeID = "good" /\ d.FSEID = "good"
Supported == {HeartbeatRequest, AssociationSetupRequest, SessionEstablishmentRequest,
              SessionModificationRequest, SessionDeletionRequest}

(* The complete requests that end the process: node.go:184, :216, :366,    *)
(* gtp5g.go:167.                                                           *)
EndsProcess(d) ==
  \/ d.type \in {SessionModificationRequest, SessionDeletionRequest} /\ d.seid = "huge"
  \/ d.type = SessionEstablishmentRequest /\ d.rules \in Panicking
  \/ d.type = SessionModificationRequest /\ d.seid = "live" /\ d.rules \in Panicking

(* pfcp.go:275, :307, :336, dispacher.go:10: the lists of types agree.     *)
(* A supported and complete request gets an answer of its own kind, unless *)
(* it is one of those that end the process; nothing else gets an answer;   *)
(* the one request the UPF sends can leave, and its response and its       *)
(* timeout have their handlers.                                            *)
AnswersInKind(d) ==
  LET r == Received(d)
  IN  /\ r.answer \notin {NoAnswer, Panic} => d.type \in Supported /\ r.answer.type = d.type + 1
      /\ r.answer = Panic => d.type \in Supported
      /\ d.type \in Supported /\ Complete(d) =>
           r.answer # NoAnswer /\ (r.answer = Panic <=> EndsProcess(d))
      /\ r.ends => ~IsRequest(d.type)
      /\ d.type = SessionReportResponse /\ d.pending => r.handled
      /\ SendReqTo(SessionReportRequest) /\ TxtoDispacher(SessionReportRequest)
=============================================================================
