------------------------------ MODULE FlowDesc ------------------------------
(***************************************************************************)
(* Flow descriptions: ParseFlowDesc, which walks over the words of a       *)
(* description, against the grammar in the comment at flowdesc.go:11; and  *)
(* what the kernel driver makes of the result (newFlowDesc, convertSlice). *)
(*                                                                         *)
(* A word is <<class, content>>:                                           *)
(*   <<"word", w>>   a keyword, or a word that is nothing else             *)
(*   <<"list", ps>>  numbers: comma-separated parts, each a sequence of    *)
(*                   numbers separated by dashes; 17 is <<<<17>>>>         *)
(*   <<"net", n>>    [v, ip, len]: a host or a network of IP version v     *)
(* An address has Bits[v] bits.  A number that is none is NaN.             *)
(***************************************************************************)
EXTENDS Naturals, SequencesExt

CONSTANTS
  Bits,  \* [4 |-> bits of an IPv4 address, 6 |-> bits of an IPv6 address]
  Host,  \* the length of an address without a prefix
  NaN    \* a word where a number is expected

ASSUME WordsAssumption == Bits \in [{4, 6} -> Nat] /\ Host \notin Nat /\ NaN \notin Nat

Class(w) == w[1]
Content(w) == w[2]
Word(w) == <<"word", w>>

Has(token, pos) == pos <= Len(token)
Is(token, pos, w) == Has(token, pos) /\ token[pos] = Word(w)

(* 2 ^ n, in steps.                                                        *)
PowerOfTwo(n) ==
  LET p[k \in 0..n] == IF k = 0 THEN 1 ELSE 2 * p[k - 1]
  IN  p[n]

-----------------------------------------------------------------------------
(* ParseFlowDescIPNet: any, a network without its host bits, or a host.    *)
NoNet == [v |-> 0, ip |-> 0, len |-> 0]
ParseFlowDescIPNet(w) ==
  CASE w = Word("any") -> [v |-> 6, ip |-> 0, len |-> 0]
    [] Class(w) = "net" ->
         LET n == Content(w)
         IN  CASE n.len = Host -> [v |-> n.v, ip |-> n.ip, len |-> Bits[n.v]]
               [] n.len # Host /\ n.len <= Bits[n.v] ->
                    [n EXCEPT !.ip = @ - (@ % PowerOfTwo(Bits[n.v] - n.len))]
               [] OTHER -> NoNet
    [] OTHER -> NoNet

(* ParseFlowDescPorts: SplitN leaves the second dash in the second number. *)
IsUint16(n) == n # NaN /\ n < 65536
NoPorts == << <<NaN>> >>
ParseFlowDescPorts(w) ==
  IF Class(w) = "list" /\ \A k \in DOMAIN Content(w) :
       Len(Content(w)[k]) \in {1, 2} /\ \A j \in DOMAIN Content(w)[k] : IsUint16(Content(w)[k][j])
  THEN Content(w) ELSE NoPorts

ParseProto(w) ==
  CASE w = Word("ip") -> 255
    [] Class(w) = "list" /\ Len(Content(w)) = 1 /\ Len(Content(w)[1]) = 1
         /\ Content(w)[1][1] # NaN /\ Content(w)[1][1] < 256 -> Content(w)[1][1]
    [] OTHER -> NaN

(* Mutant: the word after the source is taken for ports, whatever it is.   *)
PortsAtAlways(token, pos) ==
  IF Has(token, pos)
  THEN [ports |-> ParseFlowDescPorts(token[pos]), next |-> pos + 1]
  ELSE [ports |-> <<>>, next |-> pos]

(* Ports, if the word at pos is any; and the place after them.             *)
PortsAt(token, pos) ==
  IF Has(token, pos) /\ ParseFlowDescPorts(token[pos]) # NoPorts
  THEN [ports |-> ParseFlowDescPorts(token[pos]), next |-> pos + 1]
  ELSE [ports |-> <<>>, next |-> pos]

(* An error instead of a flow description.                                 *)
NoFD == [Action |-> "none"]

(* ParseFlowDesc.  Only the source's ports may be followed by anything:    *)
(* what comes after the destination and is no list of ports is passed over.*)
ParseFlowDesc(token) ==
  LET src  == PortsAt(token, 6)
      dst  == PortsAt(token, src.next + 2)
      head == /\ Is(token, 1, "permit")
              /\ Is(token, 2, "in") \/ Is(token, 2, "out")
              /\ Has(token, 3) /\ ParseProto(token[3]) # NaN
              /\ Is(token, 4, "from")
              /\ Has(token, 5) /\ ParseFlowDescIPNet(token[5]) # NoNet
      tail == /\ Is(token, src.next, "to")
              /\ Has(token, src.next + 1)
              /\ ParseFlowDescIPNet(token[src.next + 1]) # NoNet
  IN  IF ~(head /\ tail) THEN NoFD
      ELSE [Action |-> "permit", Dir |-> Content(token[2]), Proto |-> ParseProto(token[3]),
            Src |-> ParseFlowDescIPNet(token[5]), SrcPorts |-> src.ports,
            Dst |-> ParseFlowDescIPNet(token[src.next + 1]), DstPorts |-> dst.ports]

-----------------------------------------------------------------------------
(* convertSlice: the offset of the output indexes the range, which stops   *)
(* the process at a second range; the ports are written into the range     *)
(* itself, as four bytes, so that the output is all zero.  A single number *)
(* has two bytes only: whatever value of the process lies behind it is     *)
(* overwritten, the output not excepted.                                   *)
Panics(ports) == \E k \in DOMAIN ports : 4 * (k - 1) >= Len(ports[k])
Overruns(ports) == ports # <<>> /\ Len(ports[1]) = 1
ConvertSlice(ports) == [k \in 1..(4 * Len(ports)) |-> 0]

(* Gtp5g.newFlowDesc: the attributes, "err", "panic", or with "overrun"    *)
(* attributes and a process that may have lost some other value.           *)
NewFlowDesc(token) ==
  LET fd == ParseFlowDesc(token)
  IN  CASE fd = NoFD -> <<"err">>
        [] fd # NoFD /\ (Panics(fd.SrcPorts) \/ Panics(fd.DstPorts)) -> <<"panic">>
        [] fd # NoFD /\ ~(Panics(fd.SrcPorts) \/ Panics(fd.DstPorts))
             /\ (Overruns(fd.SrcPorts) \/ Overruns(fd.DstPorts)) -> <<"overrun">>
        [] OTHER -> << <<"ACTION", fd.Action>>, <<"DIRECTION", fd.Dir>>,
                       <<"PROTOCOL", fd.Proto>>,
                       <<"SRC_IPV4", fd.Src.ip>>, <<"SRC_MASK", fd.Src.len>>,
                       <<"DEST_IPV4", fd.Dst.ip>>, <<"DEST_MASK", fd.Dst.len>>,
                       <<"SRC_PORT", ConvertSlice(fd.SrcPorts)>>,
                       <<"DEST_PORT", ConvertSlice(fd.DstPorts)>> >>

-----------------------------------------------------------------------------
(* The grammar of flowdesc.go:12: what may stand at each place.  A digit   *)
(* is a number that fits its place, and an address may be one of IPv6.     *)
IsNetwork(w) == w = Word("any")
                  \/ (Class(w) = "net" /\ Content(w).len \in 0..Bits[Content(w).v] \union {Host})
IsAddr(w)    == IsNetwork(w) \/ w = Word("assigned")
IsPorts(w)   == Class(w) = "list"
                  /\ \A p \in ToSet(Content(w)) : Len(p) \in {1, 2} /\ \A n \in ToSet(p) : n \in 0..65535
IsProto(w)   == w = Word("ip")
                  \/ (Class(w) = "list" /\ Len(Content(w)) = 1 /\ Len(Content(w)[1]) = 1
                      /\ Content(w)[1][1] \in 0..255)
IsDir(w)     == w \in {Word("in"), Word("out")}
IsAction(w)  == w \in {Word("permit"), Word("deny")}

Sentence(t) ==
  \E sp, dp \in {0, 1} :
    /\ Len(t) = 7 + sp + dp
    /\ IsAction(t[1]) /\ IsDir(t[2]) /\ IsProto(t[3]) /\ t[4] = Word("from")
    /\ IsAddr(t[5]) /\ (sp = 1 => IsPorts(t[6]))
    /\ t[6 + sp] = Word("to") /\ IsAddr(t[7 + sp]) /\ (dp = 1 => IsPorts(t[8 + sp]))

(* The sentences without two of the words the grammar lists.               *)
Understood(t) ==
  Sentence(t) /\ \A k \in DOMAIN t : t[k] \notin {Word("deny"), Word("assigned")}

(* The addresses a word stands for, and those a network contains.          *)
Denoted(w) ==
  IF w = Word("any") THEN 0..(PowerOfTwo(Bits[6]) - 1)
  ELSE LET n    == Content(w)
           size == PowerOfTwo(IF n.len = Host THEN 0 ELSE Bits[n.v] - n.len)
       IN  {a \in 0..(PowerOfTwo(Bits[n.v]) - 1) : a \div size = n.ip \div size}
Contained(n) ==
  {a \in 0..(PowerOfTwo(Bits[n.v]) - 1) : a - (a % PowerOfTwo(Bits[n.v] - n.len)) = n.ip}

(* The grammar lists 'deny' (flowdesc.go:13) and 'assigned' (:18), and the *)
(* parser refuses every sentence with one of them: no flow can be denied,  *)
(* nor the UE's own address be left to the UPF.  Of the other sentences it *)
(* takes each, with its own networks and ports, each on its side, although *)
(* it finds out by trying whether ports follow the source (:101); and what *)
(* it takes begins with such a sentence.                                   *)
FlowParsed(t) ==
  LET fd  == ParseFlowDesc(t)
      to  == IF Is(t, 6, "to") THEN 6 ELSE 7
  IN  /\ Sentence(t) => (fd # NoFD <=> Understood(t))
      /\ Understood(t) =>
           /\ Contained(fd.Src) = Denoted(t[5]) /\ Contained(fd.Dst) = Denoted(t[to + 1])
           /\ fd.SrcPorts = IF to = 7 THEN Content(t[6]) ELSE <<>>
           /\ fd.DstPorts = IF Len(t) = to + 2 THEN Content(t[to + 2]) ELSE <<>>
      /\ fd # NoFD => \E n \in 7..9 : n <= Len(t) /\ Understood(SubSeq(t, 1, n))

(* gtp5g.go:165: of the sentences the parser takes, one with two ranges of *)
(* ports on a side stops the driver, one with a single number for a range  *)
(* makes it write behind the number, and no other one does either.         *)
OneRangeIsSafe(t) ==
  Understood(t) =>
    LET ranges == {Content(t[k]) : k \in {j \in DOMAIN t : j > 3 /\ Class(t[j]) = "list"}}
        many   == \E ps \in ranges : Len(ps) > 1
    IN  /\ NewFlowDesc(t) = <<"panic">> <=> many
        /\ NewFlowDesc(t) = <<"overrun">> <=> ~many /\ \E ps \in ranges : Len(ps) = 1 /\ Len(ps[1]) = 1
=============================================================================
