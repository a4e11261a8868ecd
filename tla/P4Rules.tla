------------------------------- MODULE P4Rules -------------------------------
(***************************************************************************)
(* How the P4 driver turns the IEs of a PDR or a FAR into an entry of the  *)
(* switch, and whether a packet of the rule finds it.  IEs are taken one   *)
(* after the other, and some are used when the next ones come: what an     *)
(* entry says depends on their order.  Rules of other kinds, updates and   *)
(* removals do nothing (SessionRules!DriverUpdate, DriverRemove).          *)
(*                                                                         *)
(* Port ranges are the default, 1..65535, since SDF filters are parsed and *)
(* not used; protocol and QFI are not matched.                             *)
(***************************************************************************)
EXTENDS PfcpIE, P4Pipeline

(* The numbers of a uint32, 2^32 of them; fewer for TLC.                   *)
CONSTANT Uint32
ASSUME Uint32Assumption == Uint32 \in Nat \ {0}

(* newSdfFilter: an error if the flow description cannot be parsed.        *)
SdfFilter(f) ==
  IF f.fd = "bad" THEN <<>>
  ELSE <<[FD |-> f.fd, TTC |-> IF f.ttc THEN 29 ELSE 0, SPI |-> IF f.spi THEN 30 ELSE 0,
          FL |-> IF f.fl THEN 31 ELSE 0, BID |-> f.bid]>>

(* newPdi: what cannot be read keeps its zero value; an interface that is  *)
(* not given is 0, access.                                                 *)
PdiTake(pdi, i) ==
  CASE ~Readable(i) -> pdi
    [] Readable(i) /\ Type(i) = "SourceInterface" -> [pdi EXCEPT !.src = Val(i)]
    [] Readable(i) /\ Type(i) = "FTEID" ->
         [pdi EXCEPT !.teid = Val(i).teid, !.addr = Val(i).addr]
    [] Readable(i) /\ Type(i) = "UEIPAddress" -> [pdi EXCEPT !.ue = Val(i)]
    [] Readable(i) /\ Type(i) = "SDFFilter" /\ SdfFilter(Val(i)) # <<>> ->
         [pdi EXCEPT !.sdf = SdfFilter(Val(i))]
    [] OTHER -> pdi
NoPdi == [src |-> ACCESS, teid |-> NoTEID, addr |-> None, ue |-> None, sdf |-> <<>>]
NewPdi(ies) ==
  LET pdi[k \in 0..Len(ies)] == IF k = 0 THEN NoPdi ELSE PdiTake(pdi[k - 1], ies[k])
  IN  pdi[Len(ies)]

NoAttr == [pdrId |-> 0, fseid |-> 0, farId |-> 0, decap |-> FALSE]
NoRange == <<0, 0>>
NoKey  == [src |-> ACCESS, teid |-> NoTEID, tunnel |-> NoTunnel, dst |-> None, ue |-> None,
           inet |-> None, uePorts |-> NoRange, inetPorts |-> NoRange]

(* Mutant: an uplink PDR without its tunnel.                               *)
PdrKeyNoTunnel(init, key, up, pdi) ==
  [key EXCEPT !.src = pdi.src, !.ue = pdi.ue, !.inet = IF up THEN pdi.addr ELSE init.N3IPAddr]

(* The key: uplink packets by their tunnel, all by the UE's address; the   *)
(* other end is the address of N3.                                         *)
PdrKey(init, key, up, pdi) ==
  IF up
  THEN [key EXCEPT !.src = pdi.src, !.teid = pdi.teid, !.tunnel = 1, !.dst = pdi.addr,
                   !.ue = pdi.ue, !.inet = pdi.addr]
  ELSE [key EXCEPT !.src = pdi.src, !.ue = pdi.ue, !.inet = init.N3IPAddr]

(* OuterHeaderRemoval and FARID go to the parameters of the direction that *)
(* is known so far.                                                        *)
SetAttr(acc, field, v) ==
  IF acc.up THEN [acc EXCEPT !.attr[field] = v] ELSE [acc EXCEPT !.qos[field] = v]

(* An interface that is neither leaves the direction that is known so far. *)
Uplink(up, src) == src = ACCESS \/ (src # CORE /\ up)

(* The precedence is asked of the PDRID, which has none: the priority of   *)
(* every entry is 0.                                                       *)
PdrTake(init, lseid, acc, i) ==
  CASE Type(i) = "PDRID" -> [acc EXCEPT !.pdrId = IF Readable(i) THEN Val(i) ELSE 0]
    [] Type(i) = "PDI" /\ Readable(i) ->
         LET pdi == NewPdi(Val(i))
             up  == Uplink(acc.up, pdi.src)
             key == PdrKey(init, acc.key, up, pdi)
             with(a) == [a EXCEPT !.pdrId = acc.pdrId, !.fseid = lseid % Uint32]
         IN  CASE pdi.src = ACCESS ->
                    [acc EXCEPT !.key = key, !.up = up,
                                !.action = "set_pdr_attributes", !.attr = with(@)]
               [] pdi.src = CORE ->
                    [acc EXCEPT !.key = key, !.up = up,
                                !.action = "set_pdr_attributes_qos", !.qos = with(@)]
               [] OTHER -> [acc EXCEPT !.key = key, !.up = up]
    [] Type(i) = "OuterHeaderRemoval" /\ Readable(i) -> SetAttr(acc, "decap", TRUE)
    [] Type(i) = "FARID" /\ Readable(i) -> SetAttr(acc, "farId", Val(i))
    [] OTHER -> acc

(* CreatePDR.  The zero value of the action is set_pdr_attributes.         *)
NoPdr ==
  [pdrId |-> 0, up |-> FALSE, key |-> NoKey, action |-> "set_pdr_attributes",
   attr |-> NoAttr, qos |-> NoAttr]
PdrLoop(init, lseid, ies) ==
  LET acc[k \in 0..Len(ies)] ==
        IF k = 0 THEN NoPdr ELSE PdrTake(init, lseid, acc[k - 1], ies[k])
  IN  acc
AllPorts == <<1, 65535>>
PdrEntry(init, lseid, ies) ==
  LET end == PdrLoop(init, lseid, ies)[Len(ies)]
  IN  [key |-> [end.key EXCEPT !.uePorts = AllPorts, !.inetPorts = AllPorts], priority |-> 0, action |-> end.action,
       with |-> IF end.up THEN "attr" ELSE "qos",
       data |-> IF end.up THEN end.attr ELSE end.qos]

-----------------------------------------------------------------------------
(* One bit of the flags, by its value.                                     *)
IsBitSet(n, bit) == (n \div bit) % 2 = 1

(* newForwardingParameter, of which the driver uses two fields.            *)
ParamTake(p, i) ==
  IF Type(i) = "OuterHeaderCreation" /\ Readable(i)
  THEN [type |-> Val(i).description, teid |-> IF Val(i).hasTEID THEN Val(i).teid ELSE p.teid]
  ELSE p
NoParam == [type |-> 0, teid |-> NoTEID]
ForwardingParameter(ies) ==
  LET p[k \in 0..Len(ies)] == IF k = 0 THEN NoParam ELSE ParamTake(p[k - 1], ies[k])
  IN  p[Len(ies)]

Tunnel(init, flags, type, teid) ==
  [drop |-> IsBitSet(flags, 1), buffer |-> IsBitSet(flags, 4), notify |-> IsBitSet(flags, 8),
   type |-> type, src |-> init.N3IPAddr, dst |-> init.gNBAddr, teid |-> teid, port |-> 2152]

(* The flags known so far go into the tunnel.                              *)
FarTake(init, acc, i) ==
  CASE acc.err \/ Type(i) \notin {"FARID", "ApplyAction", "ForwardingParameters"} -> acc
    [] ~acc.err /\ ~Readable(i) /\ Type(i) \in {"FARID", "ApplyAction", "ForwardingParameters"} ->
         [acc EXCEPT !.err = TRUE]
    [] ~acc.err /\ Readable(i) /\ Type(i) = "FARID" -> [acc EXCEPT !.id = Val(i)]
    [] ~acc.err /\ Readable(i) /\ Type(i) = "ApplyAction" -> [acc EXCEPT !.flags = Val(i)]
    [] OTHER -> LET p == ForwardingParameter(Val(i))
                IN  [acc EXCEPT !.tunnel = <<Tunnel(init, acc.flags, p.type, p.teid)>>]

(* CreateFAR: an error, or the entry.  Without forwarding parameters it    *)
(* still names a tunnel, of TEID 1; the name of the action is that of the  *)
(* other case.                                                             *)
NoFarYet == [err |-> FALSE, id |-> 0, flags |-> 0, tunnel |-> <<>>]
FarLoop(init, ies) ==
  LET acc[k \in 0..Len(ies)] ==
        IF k = 0 THEN NoFarYet ELSE FarTake(init, acc[k - 1], ies[k])
  IN  acc
FarEntry(init, lseid, ies) ==
  LET end == FarLoop(init, ies)[Len(ies)]
  IN  [err |-> end.err, key |-> [fseid |-> lseid % Uint32, farId |-> end.id],
       action |-> IF end.tunnel # <<>> THEN "load_normal_far_attributes"
                  ELSE "load_tunnel_far_attributes",
       data |-> IF end.tunnel # <<>> THEN end.tunnel[1] ELSE Tunnel(init, end.flags, 3, 1)]

-----------------------------------------------------------------------------
(* A packet from a UE through a tunnel to addr, and one to it from the     *)
(* data network, which answers under the address of N3; l4 is what they    *)
(* carry.                                                                  *)
UplinkPacket(init, addr, teid, ue, l4) ==
  << Ip(init.gNBAddr, addr, 64, 136, Udp(GTP_GPDU, GTP_GPDU)),
     Gtpu("GPDU", FALSE, teid, 100), Ip(ue, init.N3IPAddr, 64, 100, l4) >>
DownlinkPacket(init, ue, l4) == << Ip(init.N3IPAddr, ue, 64, 100, l4) >>

Finds(init, key, hs) == Matches(key, Seen(Tables(init, {}, {}), hs))

(* Ports that the default range has.                                       *)
HasPorts(l4) == InRange(l4[2], AllPorts) /\ InRange(l4[3], AllPorts)

(* The order in which TS 29.244 lists the IEs of a PDR.                    *)
PdrInOrder(ies) ==
  /\ Once(ies) /\ Ordered(ies, {"PDRID"}, {"PDI"})
  /\ Ordered(ies, {"PDI"}, {"OuterHeaderRemoval", "FARID"})

(* p4gtp5g.go:396, :497, driver.go:130: a PDR whose IEs come in that order,*)
(* of a UE in a pool of 24 bits or more, reached over the address of N3:   *)
(* its packets are told to come from its interface and match its key, but  *)
(* for those without ports, which match from the UE (under the ports of    *)
(* their tunnel) and not to it; and they get its PDR, session, FAR and     *)
(* decapsulation by the action of its direction.                           *)
PacketFindsRule(cfg, lseid, ies, l4) ==
  LET init == InitParameters(cfg)
      e    == PdrEntry(init, lseid, ies)
      pdi  == NewPdi(Val(CHOOSE i \in Given(ies, "PDI") : TRUE))
      pool == cfg.dnnList[1]
  IN  /\ PdrInOrder(ies) /\ Given(ies, "PDI") # {}
      /\ pool.len >= 24 /\ Within(pdi.ue, pool.ip, pool.len)
      /\ pdi.ue \notin {init.N3IPAddr, init.N6IPAddr} /\ init.N3IPAddr # None
      /\ pdi.src = ACCESS => pdi.addr = init.N3IPAddr
      /\ pdi.src \in {ACCESS, CORE} /\ l4[3] # IPV4_IN_UDP
      => /\ pdi.src = ACCESS =>
              (Finds(init, e.key, UplinkPacket(init, pdi.addr, pdi.teid, pdi.ue, l4))
                <=> HasPorts(l4) \/ l4 = Portless)
         /\ pdi.src = CORE =>
              (Finds(init, e.key, DownlinkPacket(init, pdi.ue, l4)) <=> HasPorts(l4))
         /\ e.action = IF e.with = "attr" THEN "set_pdr_attributes" ELSE "set_pdr_attributes_qos"
         /\ e.data.fseid = lseid % Uint32
         /\ \A i \in Given(ies, "PDRID") : e.data.pdrId = Val(i)
         /\ \A i \in Given(ies, "FARID") : e.data.farId = Val(i)
         /\ e.data.decap <=> Given(ies, "OuterHeaderRemoval") # {}

(* p4gtp5g.go:415, define.p4:130: the table of interfaces only ever tells  *)
(* 0 and 2, so that a PDR of another interface takes no packet: one of     *)
(* interface 1 for instance, which is the core in TS 29.244 and in the     *)
(* switch's own InterfaceType (and in gtp5g_test.go:100).                  *)
OtherInterfacesMiss(cfg, ies, hs) ==
  LET init == InitParameters(cfg)
      pdi  == NewPdi(Val(CHOOSE i \in Given(ies, "PDI") : TRUE))
  IN  /\ Once(ies) /\ Given(ies, "PDI") # {} /\ pdi.src \notin {ACCESS, CORE, UNKNOWN}
      => ~Finds(init, PdrEntry(init, 0, ies).key, hs)

(* p4gtp5g.go:449: an uplink PDR takes no packet that comes through        *)
(* another tunnel or from another UE, a downlink PDR none for another UE   *)
(* and none from the gNB.                                                  *)
StrangersMiss(cfg, ies, teid, other, l4) ==
  LET init == InitParameters(cfg)
      key  == PdrEntry(init, 0, ies).key
      pdi  == NewPdi(Val(CHOOSE i \in Given(ies, "PDI") : TRUE))
      n3   == init.N3IPAddr
  IN  /\ Once(ies) /\ Given(ies, "PDI") # {} /\ pdi.src \in {ACCESS, CORE}
      /\ teid # pdi.teid /\ other \notin {pdi.ue, n3}
      => /\ pdi.src = ACCESS => ~Finds(init, key, UplinkPacket(init, pdi.addr, teid, pdi.ue, l4))
         /\ ~Finds(init, key, UplinkPacket(init, pdi.addr, pdi.teid, other, l4))
         /\ ~Finds(init, key, DownlinkPacket(init, other, l4))
         /\ pdi.src = CORE => ~Finds(init, key, UplinkPacket(init, n3, pdi.teid, pdi.ue, l4))

(* p4gtp5g.go:672, :700, :216: what the switch does with an accepted FAR   *)
(* whose ApplyAction comes before its parameters: it drops and notifies as *)
(* the FAR says.  With forwarding parameters it neither buffers nor uses a *)
(* tunnel, whatever they say, since they come under the action of a normal *)
(* FAR; without, it buffers as the FAR says, and what it does not drop goes*)
(* through a tunnel of TEID 1 to the configured gNB, for which there is one*)
(* route, from N3, unless N3 has the gNB's address.                        *)
FarDoesWhatItSays(cfg, lseid, ies, pdr) ==
  LET init == InitParameters(cfg)
      e    == FarEntry(init, lseid, ies)
      far  == LoadFar(Tables(init, {}, {e}), pdr)
      told == Given(ies, "ApplyAction")
  IN  /\ Once(ies) /\ Ordered(ies, {"ApplyAction"}, {"ForwardingParameters"}) /\ ~e.err
      /\ pdr.fseid = lseid % Uint32 /\ \A i \in Given(ies, "FARID") : pdr.farId = Val(i)
      /\ Given(ies, "FARID") # {}
      => /\ \A i \in told : /\ far.drop <=> Val(i) % 2 = 1
                           /\ far.notify <=> Val(i) >= 8
         /\ Given(ies, "ForwardingParameters") # {} => ~far.tunnel /\ ~far.buffer
         /\ Given(ies, "ForwardingParameters") = {} =>
              /\ \A i \in told : far.buffer <=> Val(i) \in {4, 5, 6, 7, 12, 13, 14, 15}
              /\ far.tunnel /\ far.type = GTPU /\ far.teid = 1
              /\ <<far.src, far.dst>> = <<init.N3IPAddr, init.gNBAddr>>
              /\ init.gNBAddr # init.N3IPAddr =>
                   Lookup(SetupTables(init).routes, far.dst)
                     = {[src |-> "N3Mac", dst |-> "gNBMac", port |-> 65]}
=============================================================================
