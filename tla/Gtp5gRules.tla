----------------------------- MODULE Gtp5gRules -----------------------------
(***************************************************************************)
(* How the kernel driver turns the IEs of a rule into an OID and a list of *)
(* netlink attributes.  Every function of the driver is a loop over IEs    *)
(* with a switch; here the switch is a table: which attribute an IE        *)
(* becomes, which IE holds the rule's ID, and which IEs end the loop with  *)
(* an error if they cannot be read (the others are passed over).           *)
(*                                                                         *)
(* An attribute is <<name, value>>.  IDs, addresses, TEIDs, gates and the  *)
(* like are opaque and go through unchanged.                               *)
(***************************************************************************)
EXTENDS PfcpIE, Integers, FiniteSets, SequencesExt

SOCKPATH == "/tmp/free5gc_unix_sock"
UpfGtpDefaultPort == 2152

Attrs(name, list) == IF list = <<>> THEN <<>> ELSE << <<name, list>> >>

-----------------------------------------------------------------------------
(* newSdfFilter.  A filter is [fd, ttc, spi, fl, bid]: fd is "none", or    *)
(* what ParseFlowDesc makes of it, "good" or "bad"; the others are flags.  *)
SdfAttrs(f) ==
  (IF f.fd = "good" THEN << <<"FLOW_DESCRIPTION", "good">> >> ELSE <<>>)
  \o (IF f.ttc THEN << <<"TOS_TRAFFIC_CLASS", 29>> >> ELSE <<>>)
  \o (IF f.spi THEN << <<"SECURITY_PARAMETER_INDEX", 30>> >> ELSE <<>>)
  \o (IF f.fl THEN << <<"FLOW_LABEL", 31>> >> ELSE <<>>)
  \o (IF f.bid THEN << <<"SDF_FILTER_ID", "id">> >> ELSE <<>>)

(* newPdi: what cannot be read is passed over, also an SDF filter whose    *)
(* flow description cannot be parsed.                                      *)
PdiAttr(i) ==
  CASE Readable(i) /\ Type(i) = "FTEID" ->
         << <<"F_TEID", << <<"I_TEID", Val(i).teid>>, <<"GTPU_ADDR_IPV4", Val(i).addr>> >> >> >>
    [] Readable(i) /\ Type(i) = "UEIPAddress" -> << <<"UE_ADDR_IPV4", Val(i)>> >>
    [] Readable(i) /\ Type(i) = "SDFFilter" ->
         IF Val(i).fd = "bad" THEN <<>> ELSE << <<"SDF_FILTER", SdfAttrs(Val(i))>> >>
    [] OTHER -> <<>>

Pdi(ies) == FlattenSeq([k \in DOMAIN ies |-> PdiAttr(ies[k])])

(* newForwardingParameter.  The port of a tunnel is the one of GTP-U.      *)
CreationAttrs(c) ==
  << <<"DESCRIPTION", c.description>> >>
  \o (IF c.hasTEID THEN << <<"O_TEID", c.teid>>, <<"PORT", UpfGtpDefaultPort>> >>
                   ELSE << <<"PORT", c.port>> >>)
  \o (IF c.hasIPv4 THEN << <<"PEER_ADDR_IPV4", c.addr>> >> ELSE <<>>)

ParameterAttr(i) ==
  CASE Readable(i) /\ Type(i) = "OuterHeaderCreation" ->
         << <<"OUTER_HEADER_CREATION", CreationAttrs(Val(i))>> >>
    [] Readable(i) /\ Type(i) = "ForwardingPolicy" -> << <<"FORWARDING_POLICY", Val(i)>> >>
    [] Readable(i) /\ Type(i) = "PFCPSMReqFlags" -> << <<"PFCPSM_REQ_FLAGS", Val(i)>> >>
    [] OTHER -> <<>>

NewForwardingParameter(ies) == FlattenSeq([k \in DOMAIN ies |-> ParameterAttr(ies[k])])

(* A rate of 40 bits goes as its upper 32 and its lower 8.                 *)
RateAttrs(r) ==
  << <<"UL_HIGH32", r.ul \div 256>>, <<"UL_LOW8", r.ul % 256>>,
     <<"DL_HIGH32", r.dl \div 256>>, <<"DL_LOW8", r.dl % 256>> >>

(* The delay is n times 50 ms, as a time.Duration in ns, cut to one byte.  *)
DelayByte(n) == (n * (50000000 % 256)) % 256

-----------------------------------------------------------------------------
(* The tables: of every IE its attribute.                                  *)
PdrNames ==
  [Precedence |-> "PRECEDENCE", PDI |-> "PDI", OuterHeaderRemoval |-> "OUTER_HEADER_REMOVAL",
   FARID |-> "FAR_ID", QERID |-> "QER_ID", URRID |-> "URR_ID"]
UpdatePdrNames ==
  [Precedence |-> "PRECEDENCE", PDI |-> "PDI", OuterHeaderRemoval |-> "OUTER_HEADER_REMOVAL",
   FARID |-> "FAR_ID", QERID |-> "QER_ID", URRID |-> "URR_ID"]

FarNames ==
  [ApplyAction |-> "APPLY_ACTION", ForwardingParameters |-> "FORWARDING_PARAMETER",
   BARID |-> "BAR_ID"]
UpdateFarNames ==
  [ApplyAction |-> "APPLY_ACTION", UpdateForwardingParameters |-> "FORWARDING_PARAMETER",
   BARID |-> "BAR_ID"]

QerNames ==
  [QERCorrelationID |-> "CORR_ID", GateStatus |-> "GATE", MBR |-> "MBR", GBR |-> "GBR",
   QFI |-> "QFI", RQI |-> "RQI", PagingPolicyIndicator |-> "PPI"]
(* Mutant: the update does not know the gate.                              *)
UpdateQerNamesNoGate ==
  [QERCorrelationID |-> "CORR_ID", MBR |-> "MBR", GBR |-> "GBR",
   QFI |-> "QFI", RQI |-> "RQI", PagingPolicyIndicator |-> "PPI"]

UpdateQerNames ==
  [QERCorrelationID |-> "CORR_ID", GateStatus |-> "GATE", MBR |-> "MBR", GBR |-> "GBR",
   QFI |-> "QFI", RQI |-> "RQI", PagingPolicyIndicator |-> "PPI"]

UrrNames ==
  [MeasurementMethod |-> "METHOD", ReportingTriggers |-> "TRIGGER",
   MeasurementPeriod |-> "PERIOD", MeasurementInformation |-> "INFO"]
UpdateUrrNames ==
  [MeasurementMethod |-> "METHOD", ReportingTriggers |-> "TRIGGER",
   MeasurementPeriod |-> "PERIOD", MeasurementInformation |-> "INFO"]

BarNames ==
  [DownlinkDataNotificationDelay |-> "DELAY", SuggestedBufferingPacketsCount |-> "COUNT"]
UpdateBarNames ==
  [DownlinkDataNotificationDelay |-> "DELAY", SuggestedBufferingPacketsCount |-> "COUNT"]

(* id: the IE with the rule's ID; strict: the IEs whose errors are         *)
(* returned; drains: an ApplyAction calls applyAction at once.             *)
CreatePDR == [id |-> "PDRID", names |-> PdrNames, strict |-> {}, drains |-> FALSE]
UpdatePDR == [id |-> "PDRID", names |-> UpdatePdrNames, strict |-> {}, drains |-> FALSE]
CreateFAR == [id |-> "FARID", names |-> FarNames, drains |-> FALSE,
              strict |-> {"FARID", "ApplyAction", "ForwardingParameters"}]
UpdateFAR == [id |-> "FARID", names |-> UpdateFarNames, drains |-> TRUE,
              strict |-> {"FARID", "ApplyAction", "UpdateForwardingParameters"}]
CreateQER == [id |-> "QERID", names |-> QerNames, strict |-> {}, drains |-> FALSE]
UpdateQER == [id |-> "QERID", names |-> UpdateQerNames, strict |-> {}, drains |-> FALSE]
CreateURR == [id |-> "URRID", names |-> UrrNames, drains |-> FALSE,
              strict |-> {"URRID"} \union DOMAIN UrrNames]
UpdateURR == [id |-> "URRID", names |-> UpdateUrrNames, drains |-> FALSE,
              strict |-> {"URRID"} \union DOMAIN UpdateUrrNames]
CreateBAR == [id |-> "BARID", names |-> BarNames, drains |-> FALSE,
              strict |-> {"BARID"} \union DOMAIN BarNames]
UpdateBAR == [id |-> "BARID", names |-> UpdateBarNames, drains |-> FALSE,
              strict |-> {"BARID"} \union DOMAIN UpdateBarNames]

Creates == [PDR |-> CreatePDR, FAR |-> CreateFAR, QER |-> CreateQER,
            URR |-> CreateURR, BAR |-> CreateBAR]
Updates == [PDR |-> UpdatePDR, FAR |-> UpdateFAR, QER |-> UpdateQER,
            URR |-> UpdateURR, BAR |-> UpdateBAR]

Attr(name, i) ==
  CASE name = "PDI" -> Attrs(name, Pdi(Val(i)))
    [] name = "FORWARDING_PARAMETER" -> Attrs(name, NewForwardingParameter(Val(i)))
    [] name \in {"MBR", "GBR"} -> << <<name, RateAttrs(Val(i))>> >>
    [] name = "DELAY" -> << <<name, DelayByte(Val(i))>> >>
    [] OTHER -> << <<name, Val(i)>> >>

(* Mutant: every attribute of an update empties the queues.                *)
TakeDrainsAll(f, acc, i) ==
  IF acc.err \/ Type(i) \notin {f.id} \union DOMAIN f.names THEN acc
  ELSE CASE ~Readable(i) -> [acc EXCEPT !.err = Type(i) \in f.strict]
         [] Readable(i) /\ Type(i) = f.id -> [acc EXCEPT !.oid = Val(i)]
         [] OTHER ->
              [acc EXCEPT !.attrs = @ \o Attr(f.names[Type(i)], i),
                          !.drained = IF f.drains THEN Append(@, acc.oid) ELSE @]

(* One IE of the loop.                                                     *)
Take(f, acc, i) ==
  IF acc.err \/ Type(i) \notin {f.id} \union DOMAIN f.names THEN acc
  ELSE CASE ~Readable(i) -> [acc EXCEPT !.err = Type(i) \in f.strict]
         [] Readable(i) /\ Type(i) = f.id -> [acc EXCEPT !.oid = Val(i)]
         [] OTHER ->
              [acc EXCEPT !.attrs = @ \o Attr(f.names[Type(i)], i),
                          !.drained = IF f.drains /\ Type(i) = "ApplyAction"
                                      THEN Append(@, acc.oid) ELSE @]

(* The loop, after each IE.  A rule without an ID gets 0.                  *)
Start == [err |-> FALSE, oid |-> 0, attrs |-> <<>>, drained |-> <<>>]
Loop(f, ies) ==
  LET acc[k \in 0..Len(ies)] == IF k = 0 THEN Start ELSE Take(f, acc[k - 1], ies[k])
  IN  acc
Translate(f, ies) == Loop(f, ies)[Len(ies)]

(* CreatePDR adds the socket of the buff server.                           *)
SocketAttr == <<"UNIX_SOCKET_PATH", SOCKPATH>>
Created(kind, ies) ==
  LET t == Translate(Creates[kind], ies)
  IN  IF kind = "PDR" THEN [t EXCEPT !.attrs = Append(@, SocketAttr)] ELSE t

Updated(kind, ies) == Translate(Updates[kind], ies)

NoID == -1

(* The accessor of a grouped IE: its first IE with the ID.                 *)
FirstID(kind, ies) ==
  LET ids == {k \in DOMAIN ies : Type(ies[k]) = Creates[kind].id}
  IN  IF ids = {} \/ ~Readable(ies[Min(ids)]) THEN NoID ELSE Val(ies[Min(ids)])

(* RemovePDR and the others: an error without an ID.                       *)
Removed(kind, ies) == FirstID(kind, ies)

(* Sess.CreatePDR and the others record under the accessor's ID, if the    *)
(* driver returned nil.                                                    *)
Recorded(kind, ies) == IF Created(kind, ies).err THEN NoID ELSE FirstID(kind, ies)

-----------------------------------------------------------------------------
(* The order of IEs is not fixed by the protocol.  Whatever it is, a rule  *)
(* has the same attributes: one for every IE that can be read and says     *)
(* something; and the rule is refused for the same errors.  For rules that *)
(* name every IE once.                                                     *)
OrderIrrelevant(kind, ies) ==
  LET t    == Updated(kind, ies)
      f    == Updates[kind]
      read == {i \in Range(ies) : Readable(i)}
      said == {i \in read : Type(i) \in DOMAIN f.names}
  IN  /\ t.err = \E i \in Range(ies) \ read : Type(i) \in f.strict
      /\ ~t.err => /\ Range(t.attrs) = UNION {Range(Attr(f.names[Type(i)], i)) : i \in said}
                   /\ IsInjective(t.attrs)
                   /\ t.oid = IF \E i \in read : Type(i) = f.id
                              THEN Val(CHOOSE i \in read : Type(i) = f.id) ELSE 0

AsUpdate(i) == IF Type(i) = "ForwardingParameters"
               THEN <<"UpdateForwardingParameters", Val(i), Readable(i)>> ELSE i

(* Create and Update are separate loops over the same IEs (gtp5g.go:671,   *)
(* :807): what can be created can be updated, to the same attributes under *)
(* the same ID; only the socket is given once.                             *)
UpdateLikeCreate(kind, ies) ==
  LET c == Created(kind, ies)
      u == Updated(kind, [k \in DOMAIN ies |-> AsUpdate(ies[k])])
  IN  (\A k \in DOMAIN ies : Type(ies[k]) # "UpdateForwardingParameters") =>
        /\ u.err = c.err /\ u.oid = c.oid
        /\ c.attrs = IF kind = "PDR" THEN Append(u.attrs, SocketAttr) ELSE u.attrs

(* node.go:116: the driver and Sess read the ID each for itself.  A rule   *)
(* that is recorded was made under that ID and can be removed by it; one   *)
(* that was made and not recorded is under ID 0.                           *)
RecordedAsMade(kind, ies) ==
  LET c == Created(kind, ies)
      r == Recorded(kind, ies)
  IN  ~c.err => IF r = NoID THEN c.oid = 0
                ELSE c.oid = r /\ Removed(kind, ies) = c.oid

(* gtp5g.go:630: an update empties queues once, for its ApplyAction, and   *)
(* those of its own FAR if the ID came first; otherwise those of FAR 0.    *)
(* Nothing else empties any.                                               *)
DrainsOwnFar(kind, ies) ==
  LET u    == Updated(kind, ies)
      read == {k \in DOMAIN ies : Readable(ies[k])}
      id   == {k \in read : Type(ies[k]) = "FARID"}
      act  == {k \in read : Type(ies[k]) = "ApplyAction"}
  IN  /\ Created(kind, ies).drained = <<>>
      /\ kind # "FAR" => u.drained = <<>>
      /\ kind = "FAR" /\ ~u.err =>
           /\ Len(u.drained) = Cardinality(act)
           /\ \A a \in act :
                u.drained[1] = IF \E k \in id : k < a THEN FirstID(kind, ies) ELSE 0
=============================================================================
