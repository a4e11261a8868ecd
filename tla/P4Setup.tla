------------------------------- MODULE P4Setup -------------------------------
(***************************************************************************)
(* From the configuration file to a driver, and to the tables of the       *)
(* switch that are filled once: the interface a packet comes from, the     *)
(* switch's own MACs, and the routes.                                      *)
(*                                                                         *)
(* A configuration is [present, forwarder, ifList, gnb, dnnList]: present  *)
(* names the sections that are there, ifList has [type, addr], dnnList has *)
(* [ip, len].  An address is <<net16, net24, host>>: prefixes of 16, 24    *)
(* and 32 bits tell addresses apart.  None is an address not configured.   *)
(***************************************************************************)
EXTENDS Naturals, Sequences, SequencesExt, FiniteSets, FiniteSetsExt

None == <<>>

(* The network of an address: len bits are kept.                           *)
Network(ip, len) ==
  IF ip = None THEN None
  ELSE <<ip[1], IF len >= 24 THEN ip[2] ELSE 0, IF len = 32 THEN ip[3] ELSE 0>>
Within(ip, net, len) == ip # None /\ net # None /\ Network(ip, len) = Network(net, len)

(* net.ParseCIDR reads a pool unless it is BadPool.                        *)
BadPool == [ip |-> None, len |-> 0]

(* Mutant: an empty list of data networks passes.                          *)
ValidWithoutDnn(cfg) ==
  /\ {"pfcp", "gnb", "upfc", "gtpu", "logger"} \subseteq cfg.present
  /\ \A k \in DOMAIN cfg.dnnList : cfg.dnnList[k] # BadPool
  /\ \A k \in DOMAIN cfg.ifList : cfg.ifList[k].type \in {"N3", "N6", "N9"}

(* The struct tags.                                                        *)
Valid(cfg) ==
  /\ {"pfcp", "gnb", "upfc", "gtpu", "logger"} \subseteq cfg.present
  /\ cfg.dnnList # <<>>
  /\ \A k \in DOMAIN cfg.dnnList : cfg.dnnList[k] # BadPool
  /\ \A k \in DOMAIN cfg.ifList : cfg.ifList[k].type \in {"N3", "N6", "N9"}

(* ReadConfig: file has the configuration, unless it cannot be read or is  *)
(* not YAML; an error is <<>> as well.                                     *)
ReadConfig(file) == IF file # <<>> /\ Valid(file[1]) THEN file ELSE <<>>

(* What the system answers, sys = [kernel, route, dial, bind]: OpenGtp5g   *)
(* gets its link, its netlink socket and its buffer server; a route can be *)
(* added; grpc.Dial takes the address; the buffer server can be bound.     *)
(* Outcomes: a driver, "error", "panic" (a nil pointer or an index), or    *)
(* "fatal": log.Fatal ends the process.                                    *)
OpenGtp5g(sys) == IF sys.kernel THEN "gtp5g" ELSE "error"

(* The first data network that can be read gets a route.                   *)
AddDnnRoute(cfg, sys) ==
  IF (\E k \in DOMAIN cfg.dnnList : cfg.dnnList[k] # BadPool) /\ ~sys.route
  THEN "error" ELSE "gtp5g"

OpenP4Gtp5g(sys) ==
  CASE ~sys.dial -> "fatal"
    [] sys.dial /\ ~sys.bind -> "error"
    [] OTHER -> "p4gtp5g"

(* TofinoDriver takes the first data network and the UPFC section as given.*)
TofinoDriver(cfg, sys) ==
  CASE "gnb" \notin cfg.present -> "error"
    [] "gnb" \in cfg.present /\ cfg.dnnList = <<>> -> "panic"
    [] "gnb" \in cfg.present /\ cfg.dnnList # <<>> /\ cfg.dnnList[1] = BadPool -> "error"
    [] OTHER -> IF "upfc" \notin cfg.present THEN "panic" ELSE OpenP4Gtp5g(sys)

(* NewDriver.                                                              *)
NewDriver(cfg, sys) ==
  CASE "gtpu" \in cfg.present /\ cfg.forwarder = "gtp5g" /\ cfg.ifList # <<>> ->
         IF OpenGtp5g(sys) = "error" THEN "error" ELSE AddDnnRoute(cfg, sys)
    [] "gtpu" \in cfg.present /\ cfg.forwarder = "p4gtp5g" -> TofinoDriver(cfg, sys)
    [] OTHER -> "error"

(* The last interface of a type.                                           *)
IfAddr(cfg, type) ==
  LET ifs == {k \in DOMAIN cfg.ifList : cfg.ifList[k].type = type}
  IN  IF ifs = {} THEN None ELSE cfg.ifList[Max(ifs)].addr

InitParameters(cfg) ==
  [N3IPAddr |-> IfAddr(cfg, "N3"), N6IPAddr |-> IfAddr(cfg, "N6"), gNBAddr |-> cfg.gnb,
   UEIPNet |-> Network(cfg.dnnList[1].ip, cfg.dnnList[1].len)]

-----------------------------------------------------------------------------
(* Entries of a table in the order of their creation; the switch answers   *)
(* ALREADY_EXISTS to a key it has, and the driver goes on.                 *)
Entry(ip, len, data) == [ip |-> ip, len |-> len, data |-> data]
Fill(entries) ==
  {entries[k] : k \in {j \in DOMAIN entries :
                       \A i \in 1..(j - 1) : <<entries[i].ip, entries[i].len>> # <<entries[j].ip, entries[j].len>>}}

(* What the driver calls core; TS 29.244 and InterfaceType say 1.          *)
CORE   == 2
ACCESS == 0
UPLINK == 1
DOWNLINK == 2

(* source_iface_lookup: the UE pool always with 24 bits.                   *)
SourceIface(init) ==
  Fill(<< Entry(init.N3IPAddr, 32, [iface |-> ACCESS, direction |-> UPLINK]),
          Entry(init.N6IPAddr, 32, [iface |-> CORE, direction |-> DOWNLINK]),
          Entry(init.UEIPNet, 24, [iface |-> CORE, direction |-> DOWNLINK]) >>)

(* my_station: the switch's own addresses.                                 *)
MyStation == {"N3Mac", "N6Mac"}

(* routes_v4: the data network answers under the address of N3.            *)
Routes(init) ==
  Fill(<< Entry(init.N3IPAddr, 32, [src |-> "N6Mac", dst |-> "DNNMac", port |-> 64]),
          Entry(init.gNBAddr, 32, [src |-> "N3Mac", dst |-> "gNBMac", port |-> 65]),
          Entry(init.UEIPNet, 24, [src |-> "N3Mac", dst |-> "gNBMac", port |-> 65]) >>)

(* The tables OpenP4Gtp5g fills, whatever the switch answered.             *)
SetupTables(init) ==
  [source_iface |-> SourceIface(init), my_station |-> MyStation, routes |-> Routes(init)]

(* The switch: the entry with the longest prefix.                          *)
Hits(table, ip) == {e \in table : Within(ip, e.ip, e.len)}
Lookup(table, ip) ==
  {e.data : e \in {f \in Hits(table, ip) : \A d \in Hits(table, ip) : d.len <= f.len}}

-----------------------------------------------------------------------------
(* factory.go:44, driver.go:122, p4gtp5g.go:34: a file makes a driver or an*)
(* error whatever the system answers, and never a panic; only the P4       *)
(* driver ends the process, and only when the switch cannot be dialled.    *)
(* When every call succeeds, a valid file gives the driver it names.       *)
ValidConfigStarts(file, sys) ==
  \A k \in DOMAIN ReadConfig(file) :
    LET cfg == ReadConfig(file)[k]
        d   == NewDriver(cfg, sys)
    IN  /\ d # "panic"
        /\ d = "fatal" => cfg.forwarder = "p4gtp5g" /\ ~sys.dial
        /\ /\ sys.kernel /\ sys.route /\ sys.dial /\ sys.bind
           /\ cfg.forwarder = "p4gtp5g" \/ (cfg.forwarder = "gtp5g" /\ cfg.ifList # <<>>)
           => d = cfg.forwarder
=============================================================================
