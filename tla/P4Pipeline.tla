----------------------------- MODULE P4Pipeline -----------------------------
(***************************************************************************)
(* What main.p4 does with one packet: parser, ingress and deparser, for    *)
(* given entries of the tables.                                            *)
(*                                                                         *)
(* A packet is addressed to a mac, comes from a port or from the CPU, and  *)
(* is a sequence of headers behind Ethernet: <<"ip", [src, dst, ttl, len,  *)
(* l4]>> with the header l4 = <<protocol, sport, dport>> that follows it,  *)
(* <<"gtpu", [msg, flagged, teid, len]>> (flagged: one of its three flags  *)
(* is set), <<"opts", next>> and <<"psc", [qfi, more]>> (more: another     *)
(* extension follows).  Left out: packets that are not IPv4 (behind UDP    *)
(* port 9875 too), the protocol, which no entry of the driver tells apart, *)
(* counters and checksums, and the ACL table, which nobody fills.          *)
(***************************************************************************)
EXTENDS P4Setup

UNKNOWN == 9
GTPU == 3            \* TunnelType
DEFAULT_IPV4_TTL == 64
GTP_GPDU == 2152     \* L4Port
IPV4_IN_UDP == 9875
NoTEID == 0
NoTunnel == 0        \* the mask of a tunnel nobody asks for

Udp(sport, dport) == <<"udp", sport, dport>>
Tcp(sport, dport) == <<"tcp", sport, dport>>
Portless == <<"other", 0, 0>>    \* ICMP, or a protocol the parser does not know
Ip(src, dst, ttl, len, l4) ==
  <<"ip", [src |-> src, dst |-> dst, ttl |-> ttl, len |-> len, l4 |-> l4]>>
Gtpu(msg, flagged, teid, len) ==
  <<"gtpu", [msg |-> msg, flagged |-> flagged, teid |-> teid, len |-> len]>>
Psc(qfi, more) == <<"psc", [qfi |-> qfi, more |-> more]>>

UdpTo(ip, port) == ip.l4[1] = "udp" /\ ip.l4[3] = port

(* The parser: an inner packet is reached through a G-PDU without options, *)
(* or with a PDU session container and nothing after it; or through UDP to *)
(* the port of IPv4 in UDP.  Other GTP messages are payload.               *)
Parse(hs) ==
  LET next(name) == Len(hs) > 1 /\ hs[2][1] = name
      gpdu    == UdpTo(hs[1][2], GTP_GPDU) /\ next("gtpu") /\ hs[2][2].msg = "GPDU"
      flagged == gpdu /\ hs[2][2].flagged
      psc     == flagged /\ hs[3] = <<"opts", "psc">>
      bare    == UdpTo(hs[1][2], IPV4_IN_UDP) /\ next("ip")
      read    == CASE psc -> IF hs[4][2].more THEN 4 ELSE 5
                   [] gpdu /\ ~psc -> 3
                   [] OTHER -> IF bare THEN 2 ELSE 1
      inner   == bare \/ (gpdu /\ ~flagged) \/ (psc /\ ~hs[4][2].more)
      if(p, k) == IF p THEN <<hs[k][2]>> ELSE <<>>
  IN  [outer |-> <<>>, gtpu |-> if(gpdu, 2), opts |-> if(flagged, 3), psc |-> if(psc, 4),
       ip |-> hs[1][2], inner |-> if(inner, read), rest |-> SubSeq(hs, read + 1, Len(hs))]

(* The deparser, which knows no inner headers.                             *)
Deparse(h) ==
  LET emit(name, f) == IF f = <<>> THEN <<>> ELSE << <<name, f[1]>> >>
  IN  emit("ip", h.outer) \o emit("gtpu", h.gtpu) \o emit("opts", h.opts) \o emit("psc", h.psc)
        \o emit("ip", <<h.ip>>) \o h.rest

-----------------------------------------------------------------------------
(* The UE's header is always ip.                                           *)
Normalize(h) ==
  IF h.inner = <<>> THEN h
  ELSE [h EXCEPT !.outer = <<h.ip>>, !.ip = h.inner[1], !.inner = <<>>]

(* The ports the parser read last: an ICMP packet in a tunnel is taken to  *)
(* have those of the tunnel, one in none has 0.                            *)
L4Ports(h) ==
  IF h.outer # <<>> /\ h.ip.l4[1] \notin {"udp", "tcp"} THEN h.outer[1].l4 ELSE h.ip.l4

(* What the pdrs table matches on; the interface is told by the outermost  *)
(* destination.                                                            *)
Seen(t, hs) ==
  LET h    == Normalize(Parse(hs))
      from == Lookup(t.source_iface, hs[1][2].dst)
      f    == IF from = {} THEN [iface |-> UNKNOWN, direction |-> UNKNOWN]
              ELSE CHOOSE d \in from : TRUE
      told(up, down, none) ==
        CASE f.direction = UPLINK -> up [] f.direction = DOWNLINK -> down [] OTHER -> none
  IN  [iface |-> f.iface,
       outer |-> IF h.outer = <<>> THEN None ELSE h.outer[1].dst,
       teid  |-> IF h.gtpu = <<>> THEN NoTEID ELSE h.gtpu[1].teid,
       ue    |-> told(h.ip.src, h.ip.dst, None),
       inet  |-> told(h.ip.dst, h.ip.src, None),
       uePort   |-> told(L4Ports(h)[2], L4Ports(h)[3], 0),
       inetPort |-> told(L4Ports(h)[3], L4Ports(h)[2], 0)]

InRange(port, range) == range[1] <= port /\ port <= range[2]

Matches(key, p) ==
  /\ key.src = p.iface /\ key.ue = p.ue /\ key.inet = p.inet
  /\ key.tunnel # NoTunnel => key.teid = p.teid /\ key.dst = p.outer
  /\ InRange(p.uePort, key.uePorts) /\ InRange(p.inetPort, key.inetPorts)

(* The metadata of a packet that no entry matches.                         *)
Unmatched == [farId |-> 0, fseid |-> 0, decap |-> FALSE, push |-> FALSE, qfi |-> 0]

(* The PDRs a packet may be given: entries of one priority are not ordered.*)
Pdrs(t, hs) ==
  LET hits == {e.data : e \in {d \in t.pdrs : Matches(d.key, Seen(t, hs))}}
  IN  IF hits = {} THEN {Unmatched} ELSE hits

GtpuDecap(h) == [h EXCEPT !.outer = <<>>, !.gtpu = <<>>, !.opts = <<>>, !.psc = <<>>]

(* load_far_attributes: only the action of tunnels knows of buffering.     *)
NoFar == [tunnel |-> FALSE, drop |-> FALSE, buffer |-> FALSE, notify |-> FALSE]
LoadFar(t, pdr) ==
  LET hits == {e \in t.fars : e.key = [fseid |-> pdr.fseid, farId |-> pdr.farId]}
      e    == CHOOSE x \in hits : TRUE
  IN  CASE hits = {} -> NoFar
        [] hits # {} /\ e.action = "load_normal_far_attributes" ->
             [NoFar EXCEPT !.drop = e.data.drop, !.notify = e.data.notify]
        [] OTHER -> [tunnel |-> TRUE, drop |-> e.data.drop, buffer |-> e.data.buffer,
                     notify |-> e.data.notify, type |-> e.data.type, src |-> e.data.src,
                     dst |-> e.data.dst, teid |-> e.data.teid, sport |-> e.data.port]

(* Mutant: the container is not counted in the length of the message.      *)
GtpuTunnelShort(h, far, pdr) ==
  LET more == IF pdr.push THEN 8 ELSE 0
  IN  [h EXCEPT
         !.outer = <<Ip(far.src, far.dst, DEFAULT_IPV4_TTL, (h.ip.len + 36 + more) % 65536,
                         Udp(far.sport, GTP_GPDU))[2]>>,
         !.gtpu  = <<Gtpu("GPDU", pdr.push, far.teid, h.ip.len)[2]>>,
         !.opts  = IF pdr.push THEN <<"psc">> ELSE @,
         !.psc   = IF pdr.push THEN <<Psc(pdr.qfi, FALSE)[2]>> ELSE @]

(* gtpu_only and gtpu_with_psc: 20 + 8 + 8 bytes of headers, and 4 + 4 of  *)
(* options and container.  Without a container those of the arriving       *)
(* packet stay.                                                            *)
GtpuTunnel(h, far, pdr) ==
  LET more == IF pdr.push THEN 8 ELSE 0
  IN  [h EXCEPT
         !.outer = <<Ip(far.src, far.dst, DEFAULT_IPV4_TTL, (h.ip.len + 36 + more) % 65536,
                         Udp(far.sport, GTP_GPDU))[2]>>,
         !.gtpu  = <<Gtpu("GPDU", pdr.push, far.teid, (h.ip.len + more) % 65536)[2]>>,
         !.opts  = IF pdr.push THEN <<"psc">> ELSE @,
         !.psc   = IF pdr.push THEN <<Psc(pdr.qfi, FALSE)[2]>> ELSE @]

-----------------------------------------------------------------------------
(* What becomes of a packet: what is sent through which port, the digests  *)
(* for the control plane, the clone to it.                                 *)
Nothing == [sent |-> <<>>, port |-> 0, digest |-> <<>>, clone |-> FALSE]

(* Routing: the outermost TTL counts down, in 8 bits, and the innermost    *)
(* one decides; a packet without a route keeps port 0.                     *)
Routing(t, h) ==
  LET down(ip) == [ip EXCEPT !.ttl = (@ + 255) % 256]
      r   == IF h.outer # <<>> THEN [h EXCEPT !.outer = <<down(@[1])>>]
             ELSE [h EXCEPT !.ip = down(@)]
      out == Lookup(t.routes, IF h.outer # <<>> THEN h.outer[1].dst ELSE h.ip.dst)
  IN  IF r.ip.ttl = 0 THEN Nothing
      ELSE [Nothing EXCEPT !.sent = <<Deparse(r)>>,
                           !.port = IF out = {} THEN 0 ELSE (CHOOSE o \in out : TRUE).port]

(* Mutant: dropping comes before buffering.                                *)
ExecuteFarDropFirst(t, h, far, pdr) ==
  CASE far.drop -> [Nothing EXCEPT !.clone = far.notify]
    [] ~far.drop /\ far.buffer -> [Nothing EXCEPT !.clone = far.notify, !.digest = <<pdr.fseid>>]
    [] OTHER ->
         [Routing(t, IF far.tunnel /\ far.type = GTPU THEN GtpuTunnel(h, far, pdr) ELSE h)
            EXCEPT !.clone = far.notify]

(* ExecuteFar: buffering, which is a digest and the end of the packet,     *)
(* comes before dropping.                                                  *)
ExecuteFar(t, h, far, pdr) ==
  CASE far.buffer -> [Nothing EXCEPT !.clone = far.notify, !.digest = <<pdr.fseid>>]
    [] ~far.buffer /\ far.drop -> [Nothing EXCEPT !.clone = far.notify]
    [] OTHER ->
         [Routing(t, IF far.tunnel /\ far.type = GTPU THEN GtpuTunnel(h, far, pdr) ELSE h)
            EXCEPT !.clone = far.notify]

(* The tables at the start, with entries for PDRs and FARs.           *)
Tables(init, pdrs, fars) ==
  [source_iface |-> SetupTables(init).source_iface, my_station |-> SetupTables(init).my_station,
   routes |-> SetupTables(init).routes, pdrs |-> pdrs, fars |-> fars]

(* The ingress: what may become of a packet.  One that is not for the      *)
(* switch keeps port 0; one from the CPU is only routed.                   *)
Ingress(t, cpu, mac, hs) ==
  LET h == Normalize(Parse(hs))
  IN  CASE cpu -> {Routing(t, Parse(hs))}
        [] ~cpu /\ mac \notin t.my_station -> {[Nothing EXCEPT !.sent = <<Deparse(Parse(hs))>>]}
        [] OTHER -> {ExecuteFar(t, IF pdr.decap THEN GtpuDecap(h) ELSE h, LoadFar(t, pdr), pdr) :
                       pdr \in Pdrs(t, hs)}

-----------------------------------------------------------------------------
(* Whether the parser sees the headers of a G-PDU as its sender meant them.*)
Reached(hs) == Parse(hs).gtpu = <<>> \/ Parse(hs).inner # <<>>

UePacket(hs) == Normalize(Parse(hs)).ip

(* The PDR and the FAR of a packet that has one PDR, with what becomes of  *)
(* it, when the FAR forwards.                                              *)
Forwarded(t, mac, hs) ==
  {f \in {[pdr |-> pdr, far |-> LoadFar(t, pdr), out |-> o] :
            pdr \in Pdrs(t, hs), o \in Ingress(t, FALSE, mac, hs)} :
     ~f.far.drop /\ ~f.far.buffer /\ mac \in t.my_station /\ Pdrs(t, hs) = {f.pdr}}

(* What is read at the end of a tunnel: the packet, under the TEID and the *)
(* ends of the FAR and the QFI of the PDR; both lengths are those of what  *)
(* follows, of which extra are options and container.                      *)
Extra(p) == 4 * (Len(p.opts) + Len(p.psc))
ReadWhole(p, far, pdr, ip, rest) ==
  /\ p.inner = <<ip>> /\ p.rest = rest
  /\ p.gtpu[1].teid = far.teid /\ <<p.ip.src, p.ip.dst>> = <<far.src, far.dst>>
  /\ p.gtpu[1].len = Extra(p) + ip.len /\ p.ip.len = 36 + Extra(p) + ip.len
  /\ p.psc = IF pdr.push THEN <<Psc(pdr.qfi, FALSE)[2]>> ELSE <<>>

(* main.p4:196, :206: what a FAR puts into a tunnel, having come in none   *)
(* or without it, is read at the other end as the same packet.  A packet   *)
(* that came in UDP loses that header in any case.                         *)
TunnelledWhole(t, mac, hs) ==
  \A f \in Forwarded(t, mac, hs) :
    /\ f.far.tunnel /\ f.far.type = GTPU /\ UePacket(hs).ttl > 0
    /\ Reached(hs) /\ (f.pdr.decap \/ Parse(hs).gtpu = <<>>)
    => /\ f.out.sent # <<>>
       /\ ReadWhole(Parse(f.out.sent[1]), f.far, f.pdr, UePacket(hs), Parse(hs).rest)

(* main.p4:334, :124: a packet whose header is removed and that goes into  *)
(* no tunnel leaves as the packet that was inside, one TTL less, by the    *)
(* route of its own destination.                                           *)
DecapsulatedWhole(t, mac, hs) ==
  \A f \in Forwarded(t, mac, hs) :
    /\ f.pdr.decap /\ Reached(hs) /\ ~(f.far.tunnel /\ f.far.type = GTPU) /\ UePacket(hs).ttl > 1
    => /\ f.out.sent = << << <<"ip", [UePacket(hs) EXCEPT !.ttl = @ - 1]>> >> \o Parse(hs).rest >>
       /\ \A r \in Lookup(t.routes, UePacket(hs).dst) : f.out.port = r.port

(* main.p4:270: a packet that a FAR with a tunnel buffers is reported under*)
(* its session and does not leave, dropped or not; one that is dropped does*)
(* not leave; the control plane gets a copy if the FAR notifies; any other *)
(* packet of the FAR leaves unless it is too old.                          *)
FarObeyed(t, mac, hs) ==
  \A pdr \in Pdrs(t, hs), e \in t.fars, o \in Ingress(t, FALSE, mac, hs) :
    /\ Pdrs(t, hs) = {pdr} /\ e.key = [fseid |-> pdr.fseid, farId |-> pdr.farId]
    /\ mac \in t.my_station
    => LET buffers == e.data.buffer /\ e.action = "load_tunnel_far_attributes"
       IN  /\ o.digest = IF buffers THEN <<pdr.fseid>> ELSE <<>>
           /\ o.clone = e.data.notify
           /\ buffers \/ e.data.drop => o.sent = <<>>
           /\ ~buffers /\ ~e.data.drop /\ UePacket(hs).ttl > 1 => o.sent # <<>>

(* main.p4:455: a packet that has no PDR keeps its headers but for one TTL *)
(* of the outermost, the inner ones too.  So does one from the CPU, but    *)
(* only if the parser finds no inner header, which a packet that is not    *)
(* normalized would leave without.                                         *)
Unprocessed(t, cpu, mac, hs) ==
  /\ IF cpu THEN Parse(hs).gtpu = <<>> /\ Parse(hs).inner = <<>>
     ELSE mac \in t.my_station /\ Pdrs(t, hs) = {Unmatched}
  /\ Reached(hs) /\ hs[1][2].ttl > 1 /\ UePacket(hs).ttl > 0
  => \A o \in Ingress(t, cpu, mac, hs) :
       o.sent = << << <<"ip", [hs[1][2] EXCEPT !.ttl = @ - 1]>> >> \o Tail(hs) >>
=============================================================================
