---------------------------- MODULE MCTranslation ----------------------------
(***************************************************************************)
(* Inputs of the translations, one part after the other: the IEs of a rule,*)
(* the words of a flow description, the bytes of a packet; or all at once: *)
(* a configuration, a datagram, a packet of the switch with its tables.  A *)
(* state is the input so far; every property is about one kind of input.   *)
(***************************************************************************)
EXTENDS Gtp5gRules, FlowDesc, P4Rules, GtpMessage, PfcpDispatch

CONSTANTS
  MaxIEs,     \* bound on the IEs of a rule
  MaxBytes    \* bound on the bytes of a packet

(* A packet leaves room in its datagram for the headers of the tunnel.     *)
ASSUME BytesAssumption == MaxBytes \in Nat /\ MaxBytes <= 65491

VARIABLES
  kind,   \* what is translated
  env,    \* what is fixed: a configuration, or the header of a message
  parts   \* what is translated, so far

vars == <<kind, env, parts>>

-----------------------------------------------------------------------------
MCBits == (4 :> 2) @@ (6 :> 3)

N3  == <<1, 1, 1>>
N6  == <<2, 1, 1>>
GNB == <<1, 1, 2>>
UE  == <<3, 1, 7>>

Sections == {"pfcp", "gnb", "upfc", "gtpu", "logger"}
If(type, addr) == [type |-> type, addr |-> addr]
Pool(len) == [ip |-> UE, len |-> len]

Cfgs ==
  {[present |-> s, forwarder |-> f, ifList |-> l, gnb |-> g, dnnList |-> d] :
     s \in {Sections} \union {Sections \ {x} : x \in {"gnb", "upfc", "gtpu"}},
     f \in {"gtp5g", "p4gtp5g", "other"},
     l \in {<<>>, <<If("N3", N3)>>, <<If("N3", N3), If("N6", N6)>>, <<If("N5", N3)>>},
     g \in {N3, GNB}, d \in {<<>>, <<Pool(16)>>, <<Pool(24)>>, <<Pool(32)>>, <<BadPool, Pool(24)>>}}
Systems == [kernel : BOOLEAN, route : BOOLEAN, dial : BOOLEAN, bind : BOOLEAN]

(* The configurations the P4 driver runs with.                             *)
P4Cfgs == {c \in Cfgs : /\ c.present = Sections /\ c.forwarder = "p4gtp5g"
                        /\ c.dnnList # <<>> /\ c.dnnList[1] # BadPool /\ Len(c.ifList) = 2}

IE(type, val) == <<type, val, TRUE>>
Unreadable(i) == <<Type(i), Val(i), FALSE>>

Filter(fd) == [fd |-> fd, ttc |-> fd = "none", spi |-> FALSE, fl |-> TRUE, bid |-> FALSE]
PdiIEs ==
  << IE("SourceInterface", 0), IE("FTEID", [teid |-> 5, addr |-> N3]), IE("UEIPAddress", UE) >>
KernelPdis == {Append(PdiIEs, IE("SDFFilter", Filter("good"))),
               << IE("SDFFilter", Filter("bad")) >>,
               << Unreadable(PdiIEs[2]), IE("SDFFilter", Filter("none")) >>}
Creation(teid) ==
  IE("OuterHeaderCreation",
     [description |-> 256, hasTEID |-> teid # NoTEID, teid |-> teid, port |-> 9,
      hasIPv4 |-> TRUE, addr |-> GNB])
Params == {<<>>, <<Creation(8), IE("ForwardingPolicy", 4)>>, <<Creation(NoTEID)>>,
           <<Unreadable(Creation(8)), IE("PFCPSMReqFlags", 1)>>}

IEsOf(types, val) == {IE(t, val) : t \in types}
KernelIEs ==
  [PDR |-> IEsOf({"PDRID", "Precedence", "OuterHeaderRemoval", "FARID", "QERID", "URRID"}, 3)
             \union {IE("PDI", p) : p \in KernelPdis},
   FAR |-> IEsOf({"FARID", "ApplyAction", "BARID", "Other"}, 2)
             \union {IE(t, p) : t \in {"ForwardingParameters", "UpdateForwardingParameters"}, p \in Params},
   QER |-> IEsOf({"QERID", "QERCorrelationID", "GateStatus", "QFI", "RQI", "PagingPolicyIndicator"}, 6)
             \union {IE("MBR", [ul |-> 300, dl |-> 7]), IE("GBR", [ul |-> 0, dl |-> 512])},
   URR |-> IEsOf({"URRID", "Other"} \union DOMAIN UrrNames, 9),
   BAR |-> IEsOf({"BARID", "Other", "SuggestedBufferingPacketsCount"}, 1)
             \union IEsOf({"DownlinkDataNotificationDelay"}, 3)]

P4Pdis ==
  {PdiIEs, << PdiIEs[2], PdiIEs[3], IE("SDFFilter", Filter("good")) >>,
   << IE("SourceInterface", 2), PdiIEs[3] >>,
   << IE("SourceInterface", 1), PdiIEs[3] >>,
   << PdiIEs[1], IE("FTEID", [teid |-> 6, addr |-> GNB]), IE("UEIPAddress", <<3, 2, 7>>) >>,
   << IE("SourceInterface", 2), Unreadable(PdiIEs[2]), IE("UEIPAddress", <<3, 2, 7>>) >>}
P4IEs ==
  [P4PDR |-> {IE("PDRID", 1), IE("FARID", 4), IE("OuterHeaderRemoval", 0), IE("QERID", 2)}
               \union {IE("PDI", p) : p \in P4Pdis},
   P4FAR |-> IEsOf({"FARID", "BARID"}, 2) \union {IE("ApplyAction", a) : a \in {1, 2, 4, 12}}
               \union {IE("ForwardingParameters", p) : p \in Params}]

(* A word at a place of the first five, and at those after them.           *)
List(ps) == <<"list", ps>>
Net(v, ip, len) == <<"net", [v |-> v, ip |-> ip, len |-> len]>>
Nets == {Word("any"), Net(4, 3, Host), Net(4, 3, 1)}
Words ==
  << {Word("permit"), Word("deny")}, {Word("in"), Word("to")},
     {Word("ip"), List(<< <<17>> >>), List(<< <<17, 18>> >>), List(<< <<256>> >>)},
     {Word("from"), Word("to")}, Nets \union {Net(6, 5, 2), Net(4, 1, 3), Word("assigned")} >>
LaterWords ==
  {Word("to"), Word("any"), Net(4, 3, 1), Word("frag"), Word("assigned"),
   List(<< <<80>> >>), List(<< <<80, 90>> >>), List(<< <<80, 90>>, <<7>> >>), List(<< <<80, NaN>> >>)}

Headers ==
  {[Flags |-> 48 + f, Type |-> MsgTypeTPDU, TEID |-> <<0, 1, 2, 3>>,
    SequenceNumber |-> <<9, 8>>, NPDUNumber |-> 7, Exts |-> x] :
   f \in 0..7, x \in {<<>>, << [PDUType |-> 0, QoSFlowID |-> 9] >>,
                      << [PDUType |-> 1, QoSFlowID |-> 15], [PDUType |-> 0, QoSFlowID |-> 20] >>,
                      << [PDUType |-> 1, QoSFlowID |-> 1], [PDUType |-> 0, QoSFlowID |-> 2] >>}}
Leaves ==
  {[far |-> [Creation |-> c], qer |-> q] :
     c \in {<<>>, << [TEID |-> <<0, 0, 1, 0>>, PeerAddr |-> GNB, Port |-> 2152] >>},
     q \in {<<>>, << [QFI |-> 9] >>, << [QFI |-> 25] >>}}

Types == 1..15 \union 50..57
Datagrams ==
  {[type |-> t, nodeID |-> n, FSEID |-> f, seid |-> o, rules |-> r, pending |-> w] :
     t \in Types, n \in {"missing", "bad", "unknown", "good"},
     f \in {"missing", "bad", "good"}, o \in {"live", "none", "huge"}, r \in {"plain", "URR"},
     w \in BOOLEAN}

(* Tables of the switch with the PDRs of one session, one for each         *)
(* direction, and a FAR; and packets.                                      *)
SwitchInit ==
  InitParameters([present |-> Sections, forwarder |-> "p4gtp5g", gnb |-> GNB,
                  ifList |-> <<If("N3", N3), If("N6", N6)>>, dnnList |-> <<Pool(24)>>])
SwitchPdrs ==
  {{[key |-> PdrEntry(SwitchInit, 21, << IE("PDI", pdi) >>).key,
     data |-> [farId |-> 4, fseid |-> 21, decap |-> d, push |-> p, qfi |-> 9]] :
      pdi \in {PdiIEs, << IE("SourceInterface", 2), PdiIEs[3] >>}} : d \in BOOLEAN, p \in BOOLEAN}
SwitchFars ==
  {{[key |-> [fseid |-> 21, farId |-> id], action |-> a, data |-> Tunnel(SwitchInit, flags, type, 8)]} :
     id \in {4, 9}, a \in {"load_normal_far_attributes", "load_tunnel_far_attributes"},
     flags \in {1, 2, 4, 5, 8, 13}, type \in {0, GTPU}}

(* What a packet carries: ports, none, or a port 0.                        *)
Carried == {Udp(80, 53), Portless, Tcp(0, 80)}
Outer(ttl, port) == Ip(GNB, N3, ttl, 136, Udp(7, port))
Inner(ttl) == Ip(UE, N3, ttl, 100, Tcp(80, 90))
Gpdus ==
  { << Gtpu("GPDU", FALSE, 5, 100) >>, << Gtpu("GPDU", FALSE, 6, 100) >>,
    << Gtpu("GPDU", TRUE, 5, 104), <<"opts", "none">> >>,
    << Gtpu("GPDU", TRUE, 5, 108), <<"opts", "psc">>, Psc(9, FALSE) >>,
    << Gtpu("GPDU", TRUE, 5, 112), <<"opts", "psc">>, Psc(9, TRUE) >> }
TunnelOf(outer, gtp, ttl) == << Outer(outer, GTP_GPDU) >> \o gtp \o << Inner(ttl) >>
SwitchPackets ==
  {<< Ip(N3, dst, ttl, 100, Udp(90, 80)) >> : dst \in {UE, N6, GNB, <<9, 9, 9>>}, ttl \in 0..2}
    \union {<< Ip(N3, UE, 2, 100, l4) >> : l4 \in Carried}
    \union {TunnelOf(outer, gtp, ttl) : outer \in 1..2, ttl \in 0..2, gtp \in Gpdus}
    \union {<< Ip(N3, dst, 2, 136, Udp(7, IPV4_IN_UDP)), Ip(N3, UE, ttl, 100, Udp(90, 80)) >> :
              dst \in {UE, N6}, ttl \in 0..2}
    \union {<< Ip(N3, GNB, 2, 36, Udp(7, GTP_GPDU)), Gtpu("EndMarker", FALSE, 5, 0) >>}
Passages ==
  {[t |-> Tables(SwitchInit, pdrs, fars), hs |-> hs, mac |-> m, cpu |-> c] :
     pdrs \in SwitchPdrs, fars \in SwitchFars, hs \in SwitchPackets,
     m \in {"N3Mac", "OtherMac"}, c \in BOOLEAN}

KernelKinds == {"PDR", "FAR", "QER", "URR", "BAR"}
P4Kinds     == {"P4PDR", "P4FAR"}

-----------------------------------------------------------------------------
Init ==
  /\ parts = <<>>
  /\ \/ kind \in KernelKinds \union {"flow"} /\ env = "none"
     \/ kind \in P4Kinds /\ env \in P4Cfgs
     \/ kind = "config" /\ env \in Cfgs
     \/ kind = "datagram" /\ env \in Datagrams
     \/ kind = "message" /\ env \in Headers
     \/ kind = "packet" /\ env \in Leaves
     \/ kind = "switch" /\ env \in Passages

IEChoices == IF kind \in P4Kinds THEN P4IEs[kind] ELSE KernelIEs[kind]

(* Another IE of a rule, in any order; at most one cannot be read.         *)
AddIE ==
  /\ kind \in KernelKinds \union P4Kinds /\ Len(parts) < MaxIEs
  /\ \E i \in IEChoices :
       /\ \A k \in DOMAIN parts : Type(parts[k]) # Type(i)
       /\ \/ parts' = Append(parts, i)
          \/ /\ \A k \in DOMAIN parts : Readable(parts[k])
             /\ parts' = Append(parts, Unreadable(i))
  /\ UNCHANGED <<kind, env>>

(* Another word; what follows a wrong beginning makes no difference.       *)
AddWord ==
  /\ kind = "flow" /\ Len(parts) < 9
  /\ \E w \in IF Len(parts) < 5 THEN Words[Len(parts) + 1] ELSE LaterWords :
       parts' = Append(parts, w)
  /\ Len(parts) >= 5 =>
       /\ parts[2] = Word("in") /\ parts[4] = Word("from") /\ parts[3] = Word("ip")
       /\ \/ parts[1] = Word("permit") /\ parts[5] \in Nets \union {Word("assigned")}
          \/ parts[1] = Word("deny") /\ parts[5] = Word("any")
  /\ UNCHANGED <<kind, env>>

AddByte ==
  /\ kind \in {"message", "packet"} /\ Len(parts) < MaxBytes
  /\ \E b \in {0, 133} : parts' = Append(parts, b)
  /\ UNCHANGED <<kind, env>>

(* The next input.                                                         *)
Again == parts # <<>> /\ parts' = <<>> /\ UNCHANGED <<kind, env>>

AnotherConfig == kind = "config" /\ env' \in Cfgs /\ UNCHANGED <<kind, parts>>
(* Another message with the same IEs.                                      *)
NextDatagram ==
  /\ kind = "datagram" /\ \E t \in Types : env' = [env EXCEPT !.type = t]
  /\ UNCHANGED <<kind, parts>>
(* The packet of the same tables on another way in.                        *)
OtherWayIn ==
  /\ kind = "switch"
  /\ \E m \in {"N3Mac", "OtherMac"}, c \in BOOLEAN : env' = [env EXCEPT !.mac = m, !.cpu = c]
  /\ UNCHANGED <<kind, parts>>

Next ==
  AddIE \/ AddWord \/ AddByte \/ Again \/ AnotherConfig \/ NextDatagram \/ OtherWayIn

Spec == Init /\ [][Next]_vars

-----------------------------------------------------------------------------
(* gtp5g.go:306, :807: what the kernel is told depends on the IEs of a     *)
(* rule, not on their order, nor on which of the two loops reads them.     *)
KernelRuleOfIEs ==
  kind \in KernelKinds => OrderIrrelevant(kind, parts) /\ UpdateLikeCreate(kind, parts)
(* node.go:116, gtp5g.go:630: a rule is recorded under the ID it was made  *)
(* with, and an update empties the queues of its own FAR.                  *)
KernelOwnID == kind \in KernelKinds => RecordedAsMade(kind, parts) /\ DrainsOwnFar(kind, parts)

(* flowdesc.go:38, gtp5g.go:165: the parser accepts the grammar but for    *)
(* 'deny' and 'assigned', and nothing else; a second range of ports stops  *)
(* the driver, and a single number is written over its end.                *)
FlowDescAccepted == kind = "flow" => FlowParsed(parts) /\ OneRangeIsSafe(parts)

(* factory.go:44: a valid configuration makes a driver or an error.        *)
ConfigStarts == kind = "config" => \A sys \in Systems : ValidConfigStarts(<<env>>, sys)

(* p4gtp5g.go:375, :449, :622: a packet with ports finds the entry of its  *)
(* PDR, a packet of another tunnel or UE does not; an entry of another     *)
(* interface takes none; and the switch does with a FAR what its action    *)
(* lets it do.                                                             *)
SwitchEntriesRight ==
  /\ kind = "P4PDR" =>
       \A l4 \in Carried :
         /\ PacketFindsRule(env, 21, parts, l4)
         /\ StrangersMiss(env, parts, 7, <<9, 9, 9>>, l4)
         /\ OtherInterfacesMiss(env, parts, << Ip(N3, UE, 64, 100, l4) >>)
  /\ kind = "P4FAR" =>
       FarDoesWhatItSays(env, 21, parts, [Unmatched EXCEPT !.fseid = 21 % Uint32, !.farId = 2])

(* main.p4:196, :334, :455: what goes into a tunnel, comes out of one, or  *)
(* belongs to no PDR arrives whole, by its own route.                      *)
SwitchForwardsWhole ==
  kind = "switch" =>
    /\ TunnelledWhole(env.t, env.mac, env.hs)
    /\ DecapsulatedWhole(env.t, env.mac, env.hs)
    /\ Unprocessed(env.t, env.cpu, env.mac, env.hs)
(* main.p4:270: a packet is dropped, buffered and notified as its FAR says.*)
SwitchObeysFar == kind = "switch" => FarObeyed(env.t, env.mac, env.hs)

(* pfcp.go:275, node.go:184: requests are answered in kind, or are one of  *)
(* those that end the process.                                             *)
RequestsAnswered == kind = "datagram" => AnswersInKind(env)

(* msg.go:52, gtp5g.go:1237: a receiver reads what was encoded, and a      *)
(* packet that leaves a queue arrives whole.                               *)
MessagesRead ==
  /\ kind = "message" =>
       ReceiverReads([Payload |-> parts, Flags |-> env.Flags, Type |-> env.Type,
                      TEID |-> env.TEID, SequenceNumber |-> env.SequenceNumber,
                      NPDUNumber |-> env.NPDUNumber, Exts |-> env.Exts])
  /\ kind = "packet" => PacketArrives(env.far, env.qer, parts)
=============================================================================
