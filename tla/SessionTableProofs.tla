------------------------- MODULE SessionTableProofs -------------------------
(* Proofs about SessionTable, for every value of its constants: the types, *)
(* and the invariant that keeps SEIDs, slots and nodes in agreement; then  *)
(* what a step may do to the sessions, and, as long as no SMF takes over   *)
(* sessions, that the tables of the server implement PfcpService: every    *)
(* step is a step of the service or changes nothing the SMFs can tell.     *)
EXTENDS SessionHistory, SequenceTheorems, TLAPS

(* The inductive invariant.  FreeListExact alone is not inductive: that a  *)
(* deleted SEID was not on the stack yet needs the slot to be live, which  *)
(* for the SEIDs a node lists is OwnershipAgrees.                          *)
Inv ==
  /\ TypeOK
  /\ FreeListExact
  /\ OwnershipAgrees
  /\ RegistryConsistent

-----------------------------------------------------------------------------
(* LocalNode.NewSess gives out an SEID without a session, keeps the stack  *)
(* exact and touches no other slot.                                        *)
LEMMA NewSessLemma ==
  ASSUME TypeOK, FreeListExact, NEW id \in SEID, NEW s \in Session,
         NewSess(id, s)
  PROVE  /\ sess' \in Seq(Session \union {NoSess})
         /\ Len(sess') <= MaxSess
         /\ free' \in Seq(SEID)
         /\ FreeListExact'
         /\ id \notin Live
         /\ Live' = Live \union {id}
         /\ sess'[id] = s
         /\ \A i \in Live : sess'[i] = sess[i]
<1> USE MaxSessAssumption, NilAssumption
<1>1. CASE free # << >>
  <2>1. /\ id = free[Len(free)]
        /\ free' = SubSeq(free, 1, Len(free) - 1)
        /\ sess' = [sess EXCEPT ![id] = s]
    BY <1>1 DEF NewSess
  <2>2. Len(free) \in Nat \ {0} /\ DOMAIN free = 1..Len(free)
    BY <1>1 DEF TypeOK
  <2>3. id \in DOMAIN sess \ Live
    BY <2>1, <2>2 DEF FreeListExact
  <2>4. /\ free' \in Seq(SEID)
        /\ DOMAIN free' = 1..(Len(free) - 1)
        /\ \A a \in DOMAIN free' : free'[a] = free[a]
    BY <2>1, <2>2, SubSeqProperties DEF TypeOK, SEID
  <2>5. /\ sess' \in Seq(Session \union {NoSess})
        /\ Len(sess') = Len(sess)
        /\ DOMAIN sess' = DOMAIN sess
        /\ sess'[id] = s
        /\ \A i \in DOMAIN sess \ {id} : sess'[i] = sess[i]
    BY <2>1, <2>3 DEF TypeOK
  <2>6. Live' = Live \union {id}
    BY <2>3, <2>5 DEF Live
  <2>7. FreeListExact'
    <3>1. \A a, b \in DOMAIN free' : free'[a] = free'[b] => a = b
      BY <2>2, <2>4 DEF FreeListExact
    <3>2. {free'[a] : a \in DOMAIN free'} = {free[a] : a \in DOMAIN free} \ {id}
      <4>1. ASSUME NEW a \in DOMAIN free'
            PROVE  free'[a] \in {free[c] : c \in DOMAIN free} \ {id}
        <5>1. a \in DOMAIN free /\ Len(free) \in DOMAIN free /\ a # Len(free)
          BY <2>2, <2>4
        <5> QED
          BY <5>1, <2>1, <2>4 DEF FreeListExact
      <4>2. ASSUME NEW a \in DOMAIN free, free[a] # id
            PROVE  free[a] \in {free'[c] : c \in DOMAIN free'}
        <5>1. a # Len(free)
          BY <4>2, <2>1
        <5>2. a \in DOMAIN free'
          BY <5>1, <2>2, <2>4
        <5> QED
          BY <5>2, <2>4
      <4> QED
        BY <4>1, <4>2
    <3> QED
      BY <3>1, <3>2, <2>5, <2>6 DEF FreeListExact
  <2> QED
    BY <2>3, <2>4, <2>5, <2>6, <2>7 DEF TypeOK, Live
<1>2. CASE free = << >>
  <2>1. /\ Len(sess) < MaxSess
        /\ id = Len(sess) + 1
        /\ sess' = Append(sess, s)
        /\ free' = free
    BY <1>2 DEF NewSess
  <2>2. /\ sess' \in Seq(Session \union {NoSess})
        /\ Len(sess') = Len(sess) + 1
        /\ DOMAIN sess' = DOMAIN sess \union {id}
        /\ sess'[id] = s
        /\ \A i \in DOMAIN sess : sess'[i] = sess[i]
        /\ id \notin DOMAIN sess
    BY <2>1, AppendProperties DEF TypeOK
  <2>3. Live' = Live \union {id}
    BY <2>2 DEF Live
  <2>4. FreeListExact'
    BY <2>1, <2>2, <2>3 DEF FreeListExact, Live
  <2> QED
    BY <2>1, <2>2, <2>3, <2>4 DEF TypeOK, Live
<1> QED
  BY <1>1, <1>2

(* LocalNode.DeleteSess for a set of SEIDs, in any order, keeps the stack  *)
(* exact, ends just these sessions and leaves the others as they are.      *)
LEMMA DeleteSessLemma ==
  ASSUME TypeOK, FreeListExact, NEW S \in SUBSET SEID, DeleteSess(S)
  PROVE  /\ sess' \in Seq(Session \union {NoSess})
         /\ Len(sess') <= MaxSess
         /\ free' \in Seq(SEID)
         /\ FreeListExact'
         /\ Live' = Live \ S
         /\ \A i \in Live' : sess'[i] = sess[i]
<1> USE MaxSessAssumption, NilAssumption
<1>1. sess' = [i \in DOMAIN sess |-> IF i \in S THEN NoSess ELSE sess[i]]
  BY DEF DeleteSess
<1>2. /\ sess' \in Seq(Session \union {NoSess})
      /\ Len(sess') = Len(sess)
      /\ DOMAIN sess' = DOMAIN sess
  <2>1. DOMAIN sess = 1..Len(sess) /\ Len(sess) \in Nat
    BY DEF TypeOK
  <2>2. \A i \in 1..Len(sess) : sess'[i] \in Session \union {NoSess}
    BY <1>1, <2>1 DEF TypeOK
  <2> QED
    BY <1>1, <2>1, <2>2
<1>3. Live' = Live \ S
  BY <1>1, <1>2 DEF Live
<1>4. PICK n \in 0..MaxSess : \E p \in [1..n -> S \intersect Live] :
         /\ \A a, b \in 1..n : p[a] = p[b] => a = b
         /\ \A x \in S \intersect Live : \E a \in 1..n : p[a] = x
         /\ free' = free \o p
  BY DEF DeleteSess, RangeOrders
<1>5. PICK p \in [1..n -> S \intersect Live] :
         /\ \A a, b \in 1..n : p[a] = p[b] => a = b
         /\ \A x \in S \intersect Live : \E a \in 1..n : p[a] = x
         /\ free' = free \o p
  BY <1>4
<1> DEFINE k == Len(free)
<1>6. /\ p \in Seq(SEID) /\ Len(p) = n /\ n \in Nat
      /\ k \in Nat /\ DOMAIN free = 1..k
  BY DEF TypeOK
<1>7. /\ free' \in Seq(SEID)
      /\ DOMAIN free' = 1..(k + n)
      /\ \A a \in 1..k : free'[a] = free[a]
      /\ \A a \in (k + 1)..(k + n) : free'[a] = p[a - k]
  <2>1. /\ free \o p \in Seq(SEID)
        /\ Len(free \o p) = Len(free) + Len(p)
        /\ \A i \in 1 .. (Len(free) + Len(p)) :
             (free \o p)[i] = IF i <= Len(free) THEN free[i] ELSE p[i - Len(free)]
    BY <1>6, ConcatProperties DEF TypeOK
  <2> QED
    BY <1>5, <1>6, <2>1
<1>8. FreeListExact'
  <2>1. \A a \in 1..k : free[a] \in DOMAIN sess \ Live
    BY <1>6 DEF FreeListExact
  <2>2. \A a \in (k + 1)..(k + n) : a - k \in 1..n /\ p[a - k] \in S \intersect Live
    BY <1>6
  <2>3. ASSUME NEW a \in 1..(k + n), NEW b \in 1..(k + n), free'[a] = free'[b]
        PROVE  a = b
    <3>1. CASE a \in 1..k /\ b \in 1..k
      BY <3>1, <2>3, <1>6, <1>7 DEF FreeListExact
    <3>2. CASE a \in (k + 1)..(k + n) /\ b \in (k + 1)..(k + n)
      <4>1. a - k \in 1..n /\ b - k \in 1..n
        BY <3>2, <2>2
      <4>2. p[a - k] = p[b - k]
        BY <3>2, <2>3, <1>7
      <4>3. a - k = b - k
        BY <4>1, <4>2, <1>5
      <4> QED
        BY <4>3, <3>2, <1>6
    <3>3. ~(a \in 1..k /\ b \in (k + 1)..(k + n))
      BY <2>1, <2>2, <2>3, <1>7
    <3>4. ~(b \in 1..k /\ a \in (k + 1)..(k + n))
      BY <2>1, <2>2, <2>3, <1>7
    <3> QED
      BY <3>1, <3>2, <3>3, <3>4, <1>6
  <2>4. {free'[a] : a \in DOMAIN free'} = {free[a] : a \in DOMAIN free} \union (S \intersect Live)
    <3>1. ASSUME NEW a \in 1..(k + n)
          PROVE  free'[a] \in {free[c] : c \in DOMAIN free} \union (S \intersect Live)
      <4>1. CASE a \in 1..k
        BY <4>1, <1>6, <1>7
      <4>2. CASE a \in (k + 1)..(k + n)
        BY <4>2, <2>2, <1>7
      <4> QED
        BY <4>1, <4>2, <1>6
    <3>2. ASSUME NEW a \in 1..k
          PROVE  free[a] \in {free'[c] : c \in DOMAIN free'}
      <4>1. a \in 1..(k + n) /\ free'[a] = free[a]
        BY <1>6, <1>7
      <4> QED
        BY <4>1, <1>7
    <3>3. ASSUME NEW x \in S \intersect Live
          PROVE  x \in {free'[c] : c \in DOMAIN free'}
      <4>1. PICK c \in 1..n : p[c] = x
        BY <1>5
      <4>2. c + k \in (k + 1)..(k + n) /\ (c + k) - k = c /\ c + k \in 1..(k + n)
        BY <1>6
      <4> QED
        BY <4>1, <4>2, <1>7
    <3> QED
      BY <3>1, <3>2, <3>3, <1>6, <1>7
  <2>5. Live \subseteq DOMAIN sess
    BY DEF Live
  <2>6. {free'[a] : a \in DOMAIN free'} = DOMAIN sess' \ Live'
    BY <2>4, <2>5, <1>2, <1>3 DEF FreeListExact
  <2> QED
    BY <2>3, <2>6, <1>7 DEF FreeListExact
<1>9. \A i \in Live' : sess'[i] = sess[i]
  BY <1>1, <1>2, <1>3 DEF Live
<1> QED
  BY <1>2, <1>3, <1>7, <1>8, <1>9 DEF TypeOK

-----------------------------------------------------------------------------
(* Empty tables, those of a new server and those a panic leaves behind,    *)
(* satisfy the invariant.                                                  *)
LEMMA EmptyLemma ==
  ASSUME NEW s, NEW f, NEW ns, NEW rs, NEW tx, EmptyTables(s, f, ns, rs, tx)
  PROVE  /\ s \in Seq(Session \union {NoSess}) /\ Len(s) = 0 /\ DOMAIN s = {}
         /\ f \in Seq(SEID) /\ DOMAIN f = {}
         /\ ns \in [NodeRef -> Node]
         /\ \A r \in NodeRef : ns[r].sess = {}
         /\ rs \in [NodeID -> NodeRef \union {NoNode}]
         /\ \A n \in NodeID : rs[n] = NoNode
         /\ tx \in [TxID -> Report \union {NoTx}]
<1>1. PICK any \in NodeID : ns = [r \in NodeRef |-> NewRemoteNode(any, any)]
  BY DEF EmptyTables
<1>2. /\ s = << >> /\ f = << >>
      /\ ns = [r \in NodeRef |-> [ID |-> any, addr |-> any, sess |-> {}]]
      /\ rs = [n \in NodeID |-> NoNode]
      /\ tx = [t \in TxID |-> NoTx]
  BY <1>1 DEF EmptyTables, NewRemoteNode
<1>3. \A r \in NodeRef : ns[r] \in Node /\ ns[r].sess = {}
  BY <1>1, <1>2 DEF Node
<1>4. s \in Seq(Session \union {NoSess}) /\ f \in Seq(SEID)
  BY <1>2
<1>5. Len(s) = 0 /\ DOMAIN s = {} /\ DOMAIN f = {}
  BY <1>2
<1>6. ns \in [NodeRef -> Node] /\ rs \in [NodeID -> NodeRef \union {NoNode}]
  BY <1>2, <1>3
<1>7. (\A n \in NodeID : rs[n] = NoNode) /\ tx \in [TxID -> Report \union {NoTx}]
  BY <1>2
<1> QED
  BY <1>3, <1>4, <1>5, <1>6, <1>7

(* A new server satisfies the invariant.                                   *)
LEMMA InitInv == Init => Inv
<1> SUFFICES ASSUME Init PROVE Inv
  OBVIOUS
<1>1. EmptyTables(sess, free, nodes, rnodes, txTrans) /\ halt = Running
  BY DEF Init
<1>2. /\ sess \in Seq(Session \union {NoSess}) /\ Len(sess) = 0 /\ DOMAIN sess = {}
      /\ free \in Seq(SEID) /\ DOMAIN free = {}
      /\ nodes \in [NodeRef -> Node]
      /\ \A r \in NodeRef : nodes[r].sess = {}
      /\ rnodes \in [NodeID -> NodeRef \union {NoNode}]
      /\ \A n \in NodeID : rnodes[n] = NoNode
      /\ txTrans \in [TxID -> Report \union {NoTx}]
  BY <1>1, EmptyLemma
<1>3. Live = {}
  BY <1>2 DEF Live
<1> QED
  BY <1>1, <1>2, <1>3, MaxSessAssumption
     DEF Inv, TypeOK, FreeListExact, OwnershipAgrees, RegistryConsistent

(* A panic, whatever its reason.                                           *)
LEMMA ExitInv ==
  ASSUME NEW panic \in {NilMap, NilSlot, BadIndex}, Exit(panic)
  PROVE  Inv' /\ Live' = {}
<1>1. EmptyTables(sess', free', nodes', rnodes', txTrans') /\ halt' = panic
  BY DEF Exit
<1>2. /\ sess' \in Seq(Session \union {NoSess}) /\ Len(sess') = 0 /\ DOMAIN sess' = {}
      /\ free' \in Seq(SEID) /\ DOMAIN free' = {}
      /\ nodes' \in [NodeRef -> Node]
      /\ \A r \in NodeRef : nodes'[r].sess = {}
      /\ rnodes' \in [NodeID -> NodeRef \union {NoNode}]
      /\ \A n \in NodeID : rnodes'[n] = NoNode
      /\ txTrans' \in [TxID -> Report \union {NoTx}]
  BY <1>1, EmptyLemma
<1>3. Live' = {}
  BY <1>2 DEF Live
<1> QED
  BY <1>1, <1>2, <1>3, MaxSessAssumption
     DEF Inv, TypeOK, FreeListExact, OwnershipAgrees, RegistryConsistent

-----------------------------------------------------------------------------
(* Every SEID a node lists is one of the table, every node a session       *)
(* points to is an object: what the steps below read off the invariant.    *)
LEMMA LiveFacts ==
  ASSUME Inv
  PROVE  /\ Live \subseteq SEID
         /\ \A i \in Live : /\ sess[i] \in Session
                            /\ sess[i].rnode \in NodeRef
                            /\ i \in nodes[sess[i].rnode].sess
         /\ \A r \in NodeRef : nodes[r] \in Node /\ nodes[r].sess \subseteq Live
<1> USE MaxSessAssumption, NilAssumption
<1>1. DOMAIN sess = 1..Len(sess) /\ Len(sess) \in Nat /\ Len(sess) <= MaxSess
  BY DEF Inv, TypeOK
<1>2. Live \subseteq SEID
  BY <1>1 DEF Live, SEID
<1>3. \A i \in Live : sess[i] \in Session
  BY <1>1 DEF Live, Inv, TypeOK
<1>4. \A i \in Live : sess[i].rnode \in NodeRef
  BY <1>3 DEF Session
<1>5. \A r \in NodeRef : nodes[r] \in Node
  BY DEF Inv, TypeOK
<1> QED
  BY <1>2, <1>3, <1>4, <1>5 DEF Inv, OwnershipAgrees

(* One session of its own node is deleted: the deletion handler and the    *)
(* response with SEID 0 share this.                                        *)
LEMMA DeleteOneInv ==
  ASSUME Inv, NEW id \in Live,
         NodeDeleteSess(sess[id].rnode, id),
         txTrans' \in [TxID -> Report \union {NoTx}],
         UNCHANGED <<rnodes, halt>>
  PROVE  /\ Inv'
         /\ Live' = Live \ {id}
         /\ \A i \in Live' : sess'[i] = sess[i]
         /\ \A m \in NodeRef : nodes'[m].ID = nodes[m].ID
<1> DEFINE r == sess[id].rnode
<1>1. r \in NodeRef /\ nodes[r].sess \intersect {id} = {id} /\ id \in SEID
  BY LiveFacts
<1>2. DeleteSess({id})
  BY <1>1 DEF NodeDeleteSess
<1>3. /\ sess' \in Seq(Session \union {NoSess})
      /\ Len(sess') <= MaxSess
      /\ free' \in Seq(SEID)
      /\ FreeListExact'
      /\ Live' = Live \ {id}
      /\ \A i \in Live' : sess'[i] = sess[i]
  <2>1. TypeOK /\ FreeListExact /\ {id} \in SUBSET SEID
    BY <1>1 DEF Inv
  <2> QED
    BY <1>2, <2>1, DeleteSessLemma
<1>4. /\ nodes' \in [NodeRef -> Node]
      /\ \A m \in NodeRef : /\ nodes'[m].ID = nodes[m].ID
                            /\ nodes'[m].sess = IF m = r THEN nodes[m].sess \ {id}
                                                         ELSE nodes[m].sess
  <2>1. nodes' = [nodes EXCEPT ![r] = [nodes[r] EXCEPT !.sess = nodes[r].sess \ {id}]]
    BY <1>1 DEF NodeDeleteSess
  <2>2. nodes \in [NodeRef -> Node] /\ nodes[r] \in Node
    BY <1>1 DEF Inv, TypeOK
  <2> DEFINE new == [nodes[r] EXCEPT !.sess = nodes[r].sess \ {id}]
  <2>3. new \in Node /\ new.ID = nodes[r].ID /\ new.sess = nodes[r].sess \ {id}
    BY <2>2 DEF Node
  <2>4. nodes' = [nodes EXCEPT ![r] = new] /\ r \in NodeRef
    BY <1>1, <2>1
  <2> HIDE DEF r, new
  <2> QED
    BY <2>2, <2>3, <2>4
<1>5. TypeOK'
  BY <1>3, <1>4 DEF Inv, TypeOK
<1>6. OwnershipAgrees'
  <2>1. \A i \in Live' : sess'[i].LocalID = i
    BY <1>3 DEF Inv, OwnershipAgrees
  <2>2. ASSUME NEW m \in NodeRef
        PROVE  nodes'[m].sess = {i \in Live' : sess'[i].rnode = m}
    <3>1. nodes[m].sess = {i \in Live : sess[i].rnode = m}
      BY DEF Inv, OwnershipAgrees
    <3>2. {i \in Live' : sess'[i].rnode = m} = {i \in Live : sess[i].rnode = m} \ {id}
      BY <1>3
    <3> QED
      BY <3>1, <3>2, <1>4
  <2> QED
    BY <2>1, <2>2 DEF OwnershipAgrees
<1>7. RegistryConsistent'
  BY <1>4, NilAssumption DEF Inv, TypeOK, RegistryConsistent
<1> QED
  BY <1>3, <1>4, <1>5, <1>6, <1>7 DEF Inv

(* An association setup.                                                   *)
LEMMA SetupInv ==
  ASSUME Inv, NEW n \in NodeID, NEW addr \in NodeID, NEW r \in NodeRef,
         AssociationSetup(n, addr, r)
  PROVE  /\ Inv'
         /\ Live' = Live \ SessOf(n)
         /\ \A i \in Live' : sess'[i] = sess[i]
         /\ \A i \in Live' : sess[i].rnode # r /\ sess[i].rnode # rnodes[n]
         /\ \A m \in NodeRef \ {r} : nodes'[m].ID = nodes[m].ID
<1>1. SessOf(n) \subseteq SEID
  BY LiveFacts DEF SessOf, Inv, TypeOK
<1>2. /\ sess' \in Seq(Session \union {NoSess})
      /\ Len(sess') <= MaxSess
      /\ free' \in Seq(SEID)
      /\ FreeListExact'
      /\ Live' = Live \ SessOf(n)
      /\ \A i \in Live' : sess'[i] = sess[i]
  <2>1. TypeOK /\ FreeListExact /\ DeleteSess(SessOf(n))
    BY DEF Inv, AssociationSetup
  <2> QED
    BY <1>1, <2>1, DeleteSessLemma
<1>3. rnodes[n] \in NodeRef \union {NoNode} /\ rnodes \in [NodeID -> NodeRef \union {NoNode}]
  BY DEF Inv, TypeOK
<1>4. \A i \in Live' : sess[i].rnode # rnodes[n]
  BY <1>2, <1>3, LiveFacts, NilAssumption DEF SessOf
<1>5. \A i \in Live' : sess[i].rnode # r
  BY <1>2, <1>4 DEF AssociationSetup, Unreachable
<1>6. \A m \in NodeRef :
        /\ nodes'[m] \in Node
        /\ nodes'[m].ID = IF m = r THEN n ELSE nodes[m].ID
        /\ nodes'[m].sess = IF m = r \/ m = rnodes[n] THEN {} ELSE nodes[m].sess
  <2> TAKE m \in NodeRef
  <2>1. nodes'[m] = IF m = r THEN [ID |-> n, addr |-> addr, sess |-> {}]
                    ELSE IF m = rnodes[n] THEN [nodes[m] EXCEPT !.sess = {}]
                    ELSE nodes[m]
    BY DEF AssociationSetup, NewRemoteNode
  <2>2. nodes[m] \in Node
    BY DEF Inv, TypeOK
  <2>3. nodes'[m] \in Node
    BY <2>1, <2>2 DEF Node
  <2> QED
    BY <2>1, <2>2, <2>3 DEF Node
<1>7. TypeOK'
  <2>1. nodes' \in [NodeRef -> Node]
    BY <1>6 DEF AssociationSetup
  <2>2. rnodes' \in [NodeID -> NodeRef \union {NoNode}]
    BY <1>3 DEF AssociationSetup
  <2> QED
    BY <1>2, <2>1, <2>2 DEF Inv, TypeOK, AssociationSetup
<1>8. OwnershipAgrees'
  <2>1. \A i \in Live' : sess'[i].LocalID = i
    BY <1>2 DEF Inv, OwnershipAgrees
  <2>2. ASSUME NEW m \in NodeRef
        PROVE  nodes'[m].sess = {i \in Live' : sess'[i].rnode = m}
    <3>1. CASE m = r \/ m = rnodes[n]
      BY <3>1, <1>2, <1>4, <1>5, <1>6
    <3>2. CASE m # r /\ m # rnodes[n]
      <4>1. \A i \in SessOf(n) : sess[i].rnode # m
        BY <3>2, <1>3, LiveFacts, NilAssumption DEF SessOf, Inv, OwnershipAgrees
      <4>2. nodes'[m].sess = {i \in Live : sess[i].rnode = m}
        BY <3>2, <1>6 DEF Inv, OwnershipAgrees
      <4> QED
        BY <4>1, <4>2, <1>2
    <3> QED
      BY <3>1, <3>2
  <2> QED
    BY <2>1, <2>2 DEF OwnershipAgrees
<1>9. RegistryConsistent'
  <2> SUFFICES ASSUME NEW x \in NodeID, rnodes'[x] # NoNode
               PROVE  nodes'[rnodes'[x]].ID = x
    BY DEF RegistryConsistent
  <2>1. rnodes'[x] = IF x = n THEN r ELSE rnodes[x]
    BY <1>3 DEF AssociationSetup
  <2>2. CASE x = n
    BY <2>1, <2>2, <1>6
  <2>3. CASE x # n
    <3>1. rnodes[x] \in NodeRef /\ nodes[rnodes[x]].ID = x
      BY <2>1, <2>3 DEF Inv, TypeOK, RegistryConsistent
    <3>2. rnodes[x] # r
      <4>1. CASE r = rnodes[n]
        <5>1. nodes[r].ID = n
          BY <4>1, NilAssumption DEF Inv, RegistryConsistent
        <5> QED
          BY <5>1, <3>1, <2>3
      <4>2. CASE Unreachable(r)
        BY <4>2 DEF Unreachable
      <4> QED
        BY <4>1, <4>2 DEF AssociationSetup
    <3> QED
      BY <2>1, <2>3, <3>1, <3>2, <1>6
  <2> QED
    BY <2>2, <2>3
<1> QED
  BY <1>2, <1>4, <1>5, <1>6, <1>7, <1>8, <1>9 DEF Inv

(* A session establishment.                                                *)
LEMMA EstablishInv ==
  ASSUME Inv, NEW n \in NodeID, NEW rseid \in RSeid, Establish(n, rseid)
  PROVE  /\ Inv'
         /\ \E id \in SEID \ Live :
              /\ Live' = Live \union {id}
              /\ sess'[id] = [LocalID |-> id, RemoteID |-> rseid, rnode |-> rnodes[n]]
              /\ \A i \in Live : sess'[i] = sess[i]
         /\ \A m \in NodeRef : nodes'[m].ID = nodes[m].ID
<1> DEFINE r == rnodes[n]
           new(id) == [LocalID |-> id, RemoteID |-> rseid, rnode |-> r]
<1>1. PICK id \in SEID :
        /\ NewSess(id, new(id))
        /\ nodes' = [nodes EXCEPT ![r].sess = @ \union {id}]
  BY DEF Establish, NodeNewSess
<1>2. r \in NodeRef
  BY DEF Establish, Inv, TypeOK
<1>3. new(id) \in Session
  BY <1>2 DEF Session
<1>4. /\ sess' \in Seq(Session \union {NoSess})
      /\ Len(sess') <= MaxSess
      /\ free' \in Seq(SEID)
      /\ FreeListExact'
      /\ id \notin Live
      /\ Live' = Live \union {id}
      /\ sess'[id] = new(id)
      /\ \A i \in Live : sess'[i] = sess[i]
  <2>1. TypeOK /\ FreeListExact
    BY DEF Inv
  <2> HIDE DEF new
  <2> QED
    BY <1>1, <1>3, <2>1, NewSessLemma
<1>5. /\ nodes' \in [NodeRef -> Node]
      /\ \A m \in NodeRef : /\ nodes'[m].ID = nodes[m].ID
                            /\ nodes'[m].sess = IF m = r THEN nodes[m].sess \union {id}
                                                         ELSE nodes[m].sess
  <2>1. nodes' = [nodes EXCEPT ![r] = [nodes[r] EXCEPT !.sess = nodes[r].sess \union {id}]]
    BY <1>1
  <2>2. nodes \in [NodeRef -> Node] /\ nodes[r] \in Node
    BY <1>2 DEF Inv, TypeOK
  <2>3. [nodes[r] EXCEPT !.sess = nodes[r].sess \union {id}] \in Node
    BY <2>2 DEF Node
  <2> HIDE DEF r
  <2> QED
    BY <1>2, <2>1, <2>2, <2>3 DEF Node
<1>6. UNCHANGED <<rnodes, txTrans, halt>>
  BY DEF Establish
<1>7. TypeOK'
  BY <1>4, <1>5, <1>6 DEF Inv, TypeOK
<1>8. OwnershipAgrees'
  <2>1. sess'[id].rnode = r /\ sess'[id].LocalID = id
    BY <1>4
  <2> HIDE DEF r, new
  <2>2. \A i \in Live' : sess'[i].LocalID = i
    BY <2>1, <1>4 DEF Inv, OwnershipAgrees
  <2>3. ASSUME NEW m \in NodeRef
        PROVE  nodes'[m].sess = {i \in Live' : sess'[i].rnode = m}
    <3>1. nodes[m].sess = {i \in Live : sess[i].rnode = m}
      BY DEF Inv, OwnershipAgrees
    <3>2. {i \in Live' : sess'[i].rnode = m}
            = {i \in Live : sess[i].rnode = m} \union (IF m = r THEN {id} ELSE {})
      BY <2>1, <1>4
    <3> QED
      BY <3>1, <3>2, <1>5
  <2> QED
    BY <2>2, <2>3 DEF OwnershipAgrees
<1>9. RegistryConsistent'
  BY <1>5, <1>6 DEF Inv, TypeOK, RegistryConsistent
<1> QED
  BY <1>4, <1>5, <1>7, <1>8, <1>9 DEF Inv

(* A takeover renames one node and moves its registration.                 *)
LEMMA ModifyInv ==
  ASSUME Inv, NEW id \in SEID, NEW n \in NodeID, Modify(id, n)
  PROVE  Inv'
<1> DEFINE r == sess[id].rnode
           old == nodes[r].ID
<1>1. id \in Live /\ r \in NodeRef /\ nodes[r] \in Node /\ old \in NodeID
  BY LiveFacts DEF Modify, Node
<1>2. /\ nodes' = [nodes EXCEPT ![r] = [nodes[r] EXCEPT !.ID = n]]
      /\ rnodes' = [[rnodes EXCEPT ![old] = NoNode] EXCEPT ![n] = r]
      /\ UNCHANGED <<sess, free, txTrans, halt>>
  BY DEF Modify, UpdateNodeID
<1>3. /\ nodes \in [NodeRef -> Node]
      /\ rnodes \in [NodeID -> NodeRef \union {NoNode}]
  BY DEF Inv, TypeOK
<1>4. [nodes[r] EXCEPT !.ID = n] \in Node
  BY <1>1 DEF Node
<1>5. \A m \in NodeRef : /\ nodes'[m].ID = IF m = r THEN n ELSE nodes[m].ID
                         /\ nodes'[m].sess = nodes[m].sess
  <2> HIDE DEF r
  <2> QED
    BY <1>1, <1>2, <1>3, <1>4 DEF Node
<1>6. \A x \in NodeID : rnodes'[x] = IF x = n THEN r
                                     ELSE IF x = old THEN NoNode ELSE rnodes[x]
  <2> HIDE DEF r, old
  <2> QED
    BY <1>1, <1>2, <1>3
<1>7. Live' = Live
  BY <1>2 DEF Live
<1>8. TypeOK'
  <2>1. nodes' \in [NodeRef -> Node]
    BY <1>1, <1>2, <1>3, <1>4
  <2>2. rnodes' \in [NodeID -> NodeRef \union {NoNode}]
    BY <1>1, <1>2, <1>3
  <2> QED
    BY <1>2, <2>1, <2>2 DEF Inv, TypeOK
<1>9. FreeListExact' /\ OwnershipAgrees'
  <2>1. FreeListExact'
    BY <1>2, <1>7 DEF Inv, FreeListExact
  <2>2. OwnershipAgrees'
    BY <1>2, <1>5, <1>7 DEF Inv, OwnershipAgrees
  <2> QED
    BY <2>1, <2>2
<1>10. RegistryConsistent'
  <2> SUFFICES ASSUME NEW x \in NodeID, rnodes'[x] # NoNode
               PROVE  nodes'[rnodes'[x]].ID = x
    BY DEF RegistryConsistent
  <2>1. CASE x = n
    BY <2>1, <1>1, <1>5, <1>6
  <2>2. CASE x # n
    <3>1. rnodes'[x] = rnodes[x] /\ rnodes[x] # NoNode /\ x # old
      BY <2>2, <1>6
    <3>2. rnodes[x] \in NodeRef /\ nodes[rnodes[x]].ID = x
      BY <3>1, <1>3 DEF Inv, RegistryConsistent
    <3>3. rnodes[x] # r
      BY <3>1, <3>2
    <3> QED
      BY <3>1, <3>2, <3>3, <1>5
  <2> QED
    BY <2>1, <2>2
<1> QED
  BY <1>8, <1>9, <1>10 DEF Inv

(* The steps that leave sessions, stack, nodes and registry alone.         *)
LEMMA QuietInv ==
  ASSUME Inv, UNCHANGED <<sess, free, nodes, rnodes>>,
         txTrans' \in [TxID -> Report \union {NoTx}],
         halt' \in {Running, NilMap, NilSlot, BadIndex}
  PROVE  Inv' /\ Live' = Live
<1>1. Live' = Live
  BY DEF Live
<1> QED
  BY <1>1 DEF Inv, TypeOK, FreeListExact, OwnershipAgrees, RegistryConsistent

(* A report waits for its response as a well-formed transaction.           *)
LEMMA ServeReportType ==
  ASSUME Inv, NEW id \in SEID, NEW t \in TxID, ServeReport(id, t)
  PROVE  txTrans' \in [TxID -> Report \union {NoTx}]
<1>1. sess[id] \in Session /\ nodes[sess[id].rnode] \in Node
  BY LiveFacts DEF ServeReport
<1>2. [SEID |-> sess[id].RemoteID, raddr |-> nodes[sess[id].rnode].ID] \in Report
  BY <1>1 DEF Session, Node, Report
<1> QED
  BY <1>2 DEF ServeReport, Inv, TypeOK

(* The end of a report transaction keeps the type of txTrans.              *)
LEMMA TxDoneType ==
  ASSUME Inv, NEW t \in TxID, txTrans' = [txTrans EXCEPT ![t] = NoTx]
  PROVE  txTrans' \in [TxID -> Report \union {NoTx}]
BY DEF Inv, TypeOK

-----------------------------------------------------------------------------
(* Every step of the server preserves the invariant.                       *)
LEMMA StepInv == Inv /\ [Next]_vars => Inv'
<1> SUFFICES ASSUME Inv, [Next]_vars PROVE Inv'
  OBVIOUS
<1>1. ASSUME NEW n \in NodeID, NEW addr \in NodeID, NEW r \in NodeRef,
             AssociationSetup(n, addr, r)
      PROVE  Inv'
  BY <1>1, SetupInv
<1>2. ASSUME NEW n \in NodeID, NEW rseid \in RSeid, Establish(n, rseid)
      PROVE  Inv'
  BY <1>2, EstablishInv
<1>3. ASSUME NEW n \in NodeID, EstablishWithURR(n)
      PROVE  Inv'
  BY <1>3, ExitInv DEF EstablishWithURR
<1>4. ASSUME NEW id \in SEID, NEW n \in NodeID, Modify(id, n)
      PROVE  Inv'
  BY <1>4, ModifyInv
<1>5. ASSUME NEW id \in SEID, ModifyWithURR(id)
      PROVE  Inv'
  BY <1>5, ExitInv DEF ModifyWithURR
<1>6. ASSUME NEW id \in SEID, Delete(id)
      PROVE  Inv'
  <2>1. txTrans' \in [TxID -> Report \union {NoTx}]
    BY <1>6 DEF Delete, Inv, TypeOK
  <2> QED
    BY <1>6, <2>1, DeleteOneInv DEF Delete
<1>13. CASE SeidTooLarge
  BY <1>13, ExitInv DEF SeidTooLarge
<1>7. ASSUME NEW id \in SEID, NEW t \in TxID, ServeReport(id, t)
      PROVE  Inv'
  <2>1. /\ UNCHANGED <<sess, free, nodes, rnodes>>
        /\ halt' \in {Running, NilMap, NilSlot, BadIndex}
    BY <1>7 DEF ServeReport, Inv, TypeOK
  <2> QED
    BY <1>7, <2>1, ServeReportType, QuietInv
<1>8. ASSUME NEW t \in TxID, TxDone(t)
      PROVE  Inv'
  <2>1. /\ UNCHANGED <<sess, free, nodes, rnodes>>
        /\ halt' \in {Running, NilMap, NilSlot, BadIndex}
        /\ txTrans' = [txTrans EXCEPT ![t] = NoTx]
    BY <1>8 DEF TxDone, Inv, TypeOK
  <2> QED
    BY <2>1, TxDoneType, QuietInv
<1>9. ASSUME NEW t \in TxID, ReportResponse(t)
      PROVE  Inv'
  <2>1. PICK i \in Live : NodeDeleteSess(sess[i].rnode, i)
    BY <1>9 DEF ReportResponse
  <2>2. txTrans' = [txTrans EXCEPT ![t] = NoTx] /\ UNCHANGED <<rnodes, halt>>
    BY <1>9 DEF ReportResponse
  <2> QED
    BY <2>1, <2>2, TxDoneType, DeleteOneInv
<1>10. ASSUME NEW t \in TxID, ReportResponseAtNil(t)
       PROVE  Inv'
  BY <1>10, ExitInv DEF ReportResponseAtNil
<1>11. CASE Start
  BY <1>11, QuietInv DEF Start, tables, Inv, TypeOK
<1>12. CASE UNCHANGED vars
  BY <1>12, QuietInv DEF vars, Inv, TypeOK
<1> QED
  BY <1>1, <1>2, <1>3, <1>4, <1>5, <1>6, <1>7, <1>8, <1>9, <1>10, <1>11, <1>12, <1>13
     DEF Next

(* The invariant holds in every reachable state.                           *)
LEMMA Invariance == Spec => []Inv
<1>1. Init => Inv
  BY InitInv
<1>2. Inv /\ [Next]_vars => Inv'
  BY StepInv
<1> QED
  BY <1>1, <1>2, PTL DEF Spec

(* The variables of the table keep their types: SEIDs on the stack and in  *)
(* the nodes are SEIDs of the table, references lead to objects.           *)
THEOREM TypeCorrect == Spec => []TypeOK
<1>1. Inv => TypeOK
  BY DEF Inv
<1> QED
  BY <1>1, Invariance, PTL

(* However many SMFs, sessions and takeovers there are, the stack of free  *)
(* SEIDs of LocalNode holds each nil slot exactly once.                    *)
THEOREM FreeListCorrect == Spec => []FreeListExact
<1>1. Inv => FreeListExact
  BY DEF Inv
<1> QED
  BY <1>1, Invariance, PTL

(* A node lists exactly the live sessions that point back at it, and each  *)
(* slot knows its own SEID.                                                *)
THEOREM OwnershipCorrect == Spec => []OwnershipAgrees
<1>1. Inv => OwnershipAgrees
  BY DEF Inv
<1> QED
  BY <1>1, Invariance, PTL

(* rnodes never leads to a node of another ID, renamings included.         *)
THEOREM RegistryCorrect == Spec => []RegistryConsistent
<1>1. Inv => RegistryConsistent
  BY DEF Inv
<1> QED
  BY <1>1, Invariance, PTL

(* No table contradicts another one.                                       *)
THEOREM NodesCorrect == Spec => []NodesAgree
<1>1. Inv => NodesAgree
  BY DEF Inv, NodesAgree
<1> QED
  BY <1>1, Invariance, PTL

-----------------------------------------------------------------------------

(* The session in a slot can only go away, under takeovers too.            *)
LEMMA StableStep ==
  Inv /\ [Next]_vars => \A i \in Live : i \in Live' => sess'[i] = sess[i]
<1> SUFFICES ASSUME Inv, [Next]_vars
             PROVE  \A i \in Live : i \in Live' => sess'[i] = sess[i]
  OBVIOUS
<1>1. ASSUME NEW n \in NodeID, NEW addr \in NodeID, NEW r \in NodeRef,
             AssociationSetup(n, addr, r)
      PROVE  \A i \in Live' : sess'[i] = sess[i]
  BY <1>1, SetupInv
<1>2. ASSUME NEW n \in NodeID, NEW rseid \in RSeid, Establish(n, rseid)
      PROVE  \A i \in Live : sess'[i] = sess[i]
  BY <1>2, EstablishInv
<1>3. ASSUME NEW panic \in {NilMap, NilSlot, BadIndex}, Exit(panic)
      PROVE  Live' = {}
  BY <1>3, ExitInv
<1>4. ASSUME NEW i \in Live,
             NodeDeleteSess(sess[i].rnode, i),
             txTrans' \in [TxID -> Report \union {NoTx}],
             UNCHANGED <<rnodes, halt>>
      PROVE  \A j \in Live' : sess'[j] = sess[j]
  BY <1>4, DeleteOneInv
<1>5. ASSUME NEW id \in SEID, Delete(id)
      PROVE  \A j \in Live' : sess'[j] = sess[j]
  <2>1. txTrans' \in [TxID -> Report \union {NoTx}]
    BY <1>5 DEF Delete, Inv, TypeOK
  <2> QED
    BY <1>4, <1>5, <2>1 DEF Delete
<1>6. ASSUME NEW t \in TxID, ReportResponse(t)
      PROVE  \A j \in Live' : sess'[j] = sess[j]
  <2>1. PICK i \in Live : NodeDeleteSess(sess[i].rnode, i)
    BY <1>6 DEF ReportResponse
  <2>2. txTrans' = [txTrans EXCEPT ![t] = NoTx] /\ UNCHANGED <<rnodes, halt>>
    BY <1>6 DEF ReportResponse
  <2>3. txTrans' \in [TxID -> Report \union {NoTx}]
    BY <2>2, TxDoneType
  <2> QED
    BY <1>4, <2>1, <2>2, <2>3
<1>7. CASE UNCHANGED sess
  BY <1>7
<1> QED
  BY <1>1, <1>2, <1>3, <1>5, <1>6, <1>7
     DEF Next, vars, tables, EstablishWithURR, Modify, ModifyWithURR,
         SeidTooLarge, ServeReport, TxDone, ReportResponseAtNil, Start

(* A live SEID means the same session from its establishment to its        *)
(* deletion: no handler, whatever its order with others, reassigns a slot  *)
(* in use.                                                                 *)
THEOREM SlotsAreStable == Spec => SlotStable
<1>1. Inv /\ [Next]_vars => [\A i \in Live : i \in Live' => sess'[i] = sess[i]]_vars
  BY StableStep
<1> QED
  BY <1>1, Invariance, PTL DEF Spec, SlotStable

-----------------------------------------------------------------------------
(* A modification with the Node ID the node has leaves the tables alone,   *)
(* if the node is registered.                                              *)
LEMMA OwnNodeID ==
  ASSUME ~Takeover, Inv, SessionsReachable, NEW id \in SEID, NEW n \in NodeID, Modify(id, n)
  PROVE  UNCHANGED <<sess, nodes, rnodes>>
<1> DEFINE r == sess[id].rnode
<1>1. r \in NodeRef /\ nodes \in [NodeRef -> Node] /\ rnodes \in [NodeID -> NodeRef \union {NoNode}]
  BY LiveFacts DEF Modify, Inv, TypeOK
<1>2. nodes[r].ID = n /\ rnodes[n] = r
  BY DEF Modify, SessionsReachable
<1>3. nodes' = nodes
  <2>1. nodes[r] \in Node
    BY <1>1
  <2>2. [nodes[r] EXCEPT !.ID = n] = nodes[r]
    BY <1>2, <2>1 DEF Node
  <2>3. nodes' = [nodes EXCEPT ![r] = [nodes[r] EXCEPT !.ID = n]]
    BY DEF Modify, UpdateNodeID
  <2> QED
    BY <1>1, <2>2, <2>3
<1>4. rnodes' = rnodes
  BY <1>1, <1>2 DEF Modify, UpdateNodeID
<1> QED
  BY <1>3, <1>4 DEF Modify

(* Without takeovers a session is found from the Node ID of its SMF.       *)
LEMMA ReachableStep ==
  ASSUME ~Takeover, Inv, SessionsReachable, [Next]_vars
  PROVE  SessionsReachable'
<1> DEFINE Same == /\ \A m \in NodeRef : nodes'[m].ID = nodes[m].ID
                   /\ rnodes' = rnodes
<1>1. ASSUME NEW n \in NodeID, NEW addr \in NodeID, NEW r \in NodeRef,
             AssociationSetup(n, addr, r)
      PROVE  SessionsReachable'
  <2>1. ASSUME NEW i \in Live'
        PROVE  rnodes'[nodes'[sess'[i].rnode].ID] = sess'[i].rnode
    <3> DEFINE m == sess[i].rnode
    <3>1. /\ i \in Live /\ sess'[i] = sess[i]
          /\ m # r /\ m # rnodes[n]
      BY <1>1, <2>1, SetupInv
    <3>2. m \in NodeRef /\ nodes[m] \in Node
      BY <3>1, LiveFacts
    <3>3. nodes'[m].ID = nodes[m].ID
      BY <1>1, <3>1, <3>2, SetupInv
    <3>4. rnodes[nodes[m].ID] = m
      BY <3>1 DEF SessionsReachable
    <3>5. nodes[m].ID \in NodeID /\ nodes[m].ID # n
      BY <3>1, <3>2, <3>4 DEF Node
    <3>6. rnodes'[nodes[m].ID] = rnodes[nodes[m].ID]
      BY <1>1, <3>5 DEF AssociationSetup, Inv, TypeOK
    <3> QED
      BY <3>1, <3>3, <3>4, <3>6
  <2> QED
    BY <2>1 DEF SessionsReachable
<1>2. ASSUME NEW n \in NodeID, NEW rseid \in RSeid, Establish(n, rseid)
      PROVE  SessionsReachable'
  <2>1. PICK id \in SEID \ Live :
          /\ Live' = Live \union {id}
          /\ sess'[id] = [LocalID |-> id, RemoteID |-> rseid, rnode |-> rnodes[n]]
          /\ \A i \in Live : sess'[i] = sess[i]
    BY <1>2, EstablishInv
  <2>2. Same
    BY <1>2, EstablishInv DEF Establish
  <2>3. rnodes[n] \in NodeRef /\ nodes[rnodes[n]].ID = n
    BY <1>2 DEF Establish, Inv, TypeOK, RegistryConsistent
  <2>4. \A i \in Live : sess[i].rnode \in NodeRef
    BY LiveFacts
  <2> QED
    BY <2>1, <2>2, <2>3, <2>4 DEF SessionsReachable
<1>3. ASSUME NEW i \in Live,
             NodeDeleteSess(sess[i].rnode, i),
             txTrans' \in [TxID -> Report \union {NoTx}],
             UNCHANGED <<rnodes, halt>>
      PROVE  SessionsReachable'
  <2>1. Same /\ Live' = Live \ {i} /\ \A j \in Live' : sess'[j] = sess[j]
    BY <1>3, DeleteOneInv
  <2>2. \A j \in Live : sess[j].rnode \in NodeRef
    BY LiveFacts
  <2> QED
    BY <2>1, <2>2 DEF SessionsReachable
<1>4. ASSUME NEW panic \in {NilMap, NilSlot, BadIndex}, Exit(panic)
      PROVE  SessionsReachable'
  BY <1>4, ExitInv DEF SessionsReachable
<1>5. ASSUME NEW id \in SEID, Delete(id)
      PROVE  SessionsReachable'
  <2>1. txTrans' \in [TxID -> Report \union {NoTx}]
    BY <1>5 DEF Delete, Inv, TypeOK
  <2> QED
    BY <1>3, <1>5, <2>1 DEF Delete
<1>6. ASSUME NEW t \in TxID, ReportResponse(t)
      PROVE  SessionsReachable'
  <2>1. PICK i \in Live : NodeDeleteSess(sess[i].rnode, i)
    BY <1>6 DEF ReportResponse
  <2>2. txTrans' = [txTrans EXCEPT ![t] = NoTx] /\ UNCHANGED <<rnodes, halt>>
    BY <1>6 DEF ReportResponse
  <2>3. txTrans' \in [TxID -> Report \union {NoTx}]
    BY <2>2, TxDoneType
  <2> QED
    BY <1>3, <2>1, <2>2, <2>3
<1>7. CASE UNCHANGED <<sess, nodes, rnodes>>
  <2>1. Live' = Live
    BY <1>7 DEF Live
  <2> QED
    BY <1>7, <2>1 DEF SessionsReachable
<1>8. ASSUME NEW id \in SEID, NEW n \in NodeID, Modify(id, n)
      PROVE  SessionsReachable'
  BY <1>7, <1>8, OwnNodeID
<1> QED
  BY <1>1, <1>2, <1>4, <1>5, <1>6, <1>7, <1>8
     DEF Next, vars, tables, EstablishWithURR, ModifyWithURR,
         SeidTooLarge, ServeReport, TxDone, ReportResponseAtNil, Start

(* There are no sessions when the server starts.                           *)
LEMMA ReachableInit == Init => SessionsReachable
<1> SUFFICES ASSUME Init PROVE SessionsReachable
  OBVIOUS
<1>1. DOMAIN sess = {}
  BY EmptyLemma DEF Init
<1> QED
  BY <1>1 DEF SessionsReachable, Live

(* Without takeovers rnodes always has the node of every session: a new    *)
(* association finds all the sessions it has to end.                       *)
THEOREM ReachableCorrect ==
  ASSUME ~Takeover
  PROVE  Spec => []SessionsReachable
<1>1. Init => SessionsReachable
  BY ReachableInit
<1>2. Inv /\ SessionsReachable /\ [Next]_vars => SessionsReachable'
  BY ReachableStep
<1> QED
  BY <1>1, <1>2, Invariance, PTL DEF Spec

-----------------------------------------------------------------------------
(* What the SMFs see of SEID i.                                            *)
Seen(i) ==
  IF i \in Live
  THEN {[smf |-> nodes[sess[i].rnode].ID, seid |-> sess[i].RemoteID]}
  ELSE {}

(* The refinement mapping, SEID by SEID.                                   *)
LEMMA SeenLemma == ctxBar = [i \in SEID |-> Seen(i)]
BY DEF ctxBar, Seen

(* The deletion of one session is the service's Close.                     *)
LEMMA CloseSim ==
  ASSUME Inv, NEW id \in Live, Live' = Live \ {id}, UNCHANGED rnodes,
         \A j \in Live' : sess'[j] = sess[j],
         \A m \in NodeRef : nodes'[m].ID = nodes[m].ID
  PROVE  Service!Close(id) /\ id \in SEID
<1>1. id \in SEID /\ \A j \in Live : sess[j].rnode \in NodeRef
  BY LiveFacts
<1>2. \A j \in SEID : Seen(j)' = IF j = id THEN {} ELSE Seen(j)
  BY <1>1 DEF Seen
<1>3. ctxBar[id] # {}
  BY <1>1, SeenLemma DEF Seen
<1>4. ctxBar' = [j \in SEID |-> Seen(j)']
  BY DEF ctxBar, Seen
<1>5. ctxBar' = [ctxBar EXCEPT ![id] = {}]
  BY <1>1, <1>2, <1>4, SeenLemma
<1>6. assocBar' = assocBar
  BY DEF assocBar
<1> QED
  BY <1>1, <1>3, <1>5, <1>6 DEF Service!Close

(* A new association is the service's SetUp.                               *)
LEMMA SetUpSim ==
  ASSUME Inv, SessionsReachable,
         NEW n \in NodeID, NEW addr \in NodeID, NEW r \in NodeRef,
         AssociationSetup(n, addr, r)
  PROVE  Service!SetUp(n)
<1>1. /\ Live' = Live \ SessOf(n)
      /\ \A i \in Live' : sess'[i] = sess[i]
      /\ \A i \in Live' : sess[i].rnode # r /\ sess[i].rnode # rnodes[n]
      /\ \A m \in NodeRef \ {r} : nodes'[m].ID = nodes[m].ID
  BY SetupInv
<1>2. assocBar' = assocBar \union {n}
  BY NilAssumption DEF assocBar, AssociationSetup, Inv, TypeOK
<1>3. \A i \in SEID : Seen(i)' = {c \in Seen(i) : c.smf # n}
  <2> TAKE i \in SEID
  <2>1. CASE i \in Live'
    <3>1. /\ i \in Live /\ sess'[i] = sess[i]
          /\ sess[i].rnode \in NodeRef \ {r}
          /\ sess[i].rnode # rnodes[n]
      BY <1>1, <2>1, LiveFacts
    <3>2. nodes'[sess[i].rnode].ID = nodes[sess[i].rnode].ID
      BY <1>1, <3>1
    <3>3. nodes[sess[i].rnode].ID # n
      BY <3>1 DEF SessionsReachable
    <3> QED
      BY <2>1, <3>1, <3>2, <3>3 DEF Seen
  <2>2. CASE i \in Live /\ i \notin Live'
    <3>1. rnodes[n] # NoNode /\ i \in nodes[rnodes[n]].sess
      BY <1>1, <2>2 DEF SessOf
    <3>2. sess[i].rnode = rnodes[n] /\ nodes[rnodes[n]].ID = n
      BY <3>1 DEF Inv, TypeOK, OwnershipAgrees, RegistryConsistent
    <3> QED
      BY <2>2, <3>2 DEF Seen
  <2>3. CASE i \notin Live /\ i \notin Live'
    BY <2>3 DEF Seen
  <2> QED
    BY <2>1, <2>2, <2>3
<1>4. ctxBar' = [i \in SEID |-> Seen(i)']
  BY DEF ctxBar, Seen
<1>5. ctxBar' = [i \in SEID |-> {c \in ctxBar[i] : c.smf # n}]
  BY <1>3, <1>4, SeenLemma
<1> QED
  BY <1>2, <1>5 DEF Service!SetUp, Service!SEID, SEID

(* An establishment is the service's Open.                                 *)
LEMMA OpenSim ==
  ASSUME Inv, NEW n \in NodeID, NEW rseid \in RSeid, Establish(n, rseid)
  PROVE  \E id \in SEID : Service!Open(n, rseid, id)
<1>1. PICK id \in SEID \ Live :
        /\ Live' = Live \union {id}
        /\ sess'[id] = [LocalID |-> id, RemoteID |-> rseid, rnode |-> rnodes[n]]
        /\ \A i \in Live : sess'[i] = sess[i]
  BY EstablishInv
<1>2. \A m \in NodeRef : nodes'[m].ID = nodes[m].ID
  BY EstablishInv
<1>3. rnodes[n] \in NodeRef /\ nodes[rnodes[n]].ID = n /\ n \in assocBar
  BY DEF Establish, Inv, TypeOK, RegistryConsistent, assocBar
<1>4. \A j \in Live : sess[j].rnode \in NodeRef
  BY LiveFacts
<1>5. \A j \in SEID : Seen(j)' = IF j = id THEN {[smf |-> n, seid |-> rseid]} ELSE Seen(j)
  <2> TAKE j \in SEID
  <2>1. CASE j = id
    <3>1. j \in Live' /\ sess'[j].rnode = rnodes[n] /\ sess'[j].RemoteID = rseid
      BY <1>1, <2>1
    <3>2. nodes'[rnodes[n]].ID = n
      BY <1>2, <1>3
    <3> QED
      BY <2>1, <3>1, <3>2 DEF Seen
  <2>2. CASE j # id /\ j \in Live
    <3>1. j \in Live' /\ sess'[j] = sess[j]
      BY <1>1, <2>2
    <3>2. nodes'[sess[j].rnode].ID = nodes[sess[j].rnode].ID
      BY <1>2, <1>4, <2>2
    <3> QED
      BY <2>2, <3>1, <3>2 DEF Seen
  <2>3. CASE j # id /\ j \notin Live
    BY <1>1, <2>3 DEF Seen
  <2> QED
    BY <2>1, <2>2, <2>3
<1>6. ctxBar' = [j \in SEID |-> Seen(j)']
  BY DEF ctxBar, Seen
<1>7. ctxBar' = [ctxBar EXCEPT ![id] = {[smf |-> n, seid |-> rseid]}]
  BY <1>5, <1>6, SeenLemma
<1>8. ctxBar[id] = {}
  BY <1>1, SeenLemma DEF Seen
<1>9. assocBar' = assocBar
  BY DEF assocBar, Establish
<1> QED
  BY <1>3, <1>7, <1>8, <1>9 DEF Service!Open

(* A panic is the service's Forget.                                        *)
LEMMA ForgetSim ==
  ASSUME NEW panic \in {NilMap, NilSlot, BadIndex}, Exit(panic)
  PROVE  Service!Forget
<1>1. Live' = {}
  BY ExitInv
<1>2. \A n \in NodeID : rnodes'[n] = NoNode
  BY EmptyLemma DEF Exit
<1>3. assocBar' = {}
  BY <1>2 DEF assocBar
<1>4. ctxBar' = [i \in SEID |-> {}]
  BY <1>1 DEF ctxBar
<1> QED
  BY <1>3, <1>4 DEF Service!Forget, Service!SEID, SEID

(* Every handler is a step of the service or changes nothing an SMF sees.  *)
LEMMA StepSim ==
  ASSUME ~Takeover, Inv, SessionsReachable, [Next]_vars
  PROVE  [Service!Next]_(Service!vars)
<1> USE DEF Service!Next, Service!SEID, SEID
<1>1. ASSUME NEW n \in NodeID, NEW addr \in NodeID, NEW r \in NodeRef,
             AssociationSetup(n, addr, r)
      PROVE  Service!Next
  BY <1>1, SetUpSim
<1>2. ASSUME NEW n \in NodeID, NEW rseid \in RSeid, Establish(n, rseid)
      PROVE  Service!Next
  BY <1>2, OpenSim
<1>3. ASSUME NEW panic \in {NilMap, NilSlot, BadIndex}, Exit(panic)
      PROVE  Service!Next
  BY <1>3, ForgetSim
<1>4. ASSUME NEW i \in Live,
             NodeDeleteSess(sess[i].rnode, i),
             txTrans' \in [TxID -> Report \union {NoTx}],
             UNCHANGED <<rnodes, halt>>
      PROVE  Service!Next
  <2>1. /\ Live' = Live \ {i}
        /\ \A j \in Live' : sess'[j] = sess[j]
        /\ \A m \in NodeRef : nodes'[m].ID = nodes[m].ID
    BY <1>4, DeleteOneInv
  <2>2. Service!Close(i) /\ i \in SEID
    BY <1>4, <2>1, CloseSim
  <2> QED
    BY <2>2
<1>5. ASSUME NEW id \in SEID, Delete(id)
      PROVE  Service!Next
  <2>1. txTrans' \in [TxID -> Report \union {NoTx}]
    BY <1>5 DEF Delete, Inv, TypeOK
  <2> QED
    BY <1>4, <1>5, <2>1 DEF Delete
<1>6. ASSUME NEW t \in TxID, ReportResponse(t)
      PROVE  Service!Next
  <2>1. PICK i \in Live : NodeDeleteSess(sess[i].rnode, i)
    BY <1>6 DEF ReportResponse
  <2>2. txTrans' = [txTrans EXCEPT ![t] = NoTx] /\ UNCHANGED <<rnodes, halt>>
    BY <1>6 DEF ReportResponse
  <2>3. txTrans' \in [TxID -> Report \union {NoTx}]
    BY <2>2, TxDoneType
  <2> QED
    BY <1>4, <2>1, <2>2, <2>3
<1>7. CASE UNCHANGED <<sess, nodes, rnodes>>
  BY <1>7 DEF Service!vars, assocBar, ctxBar, Live
<1>8. ASSUME NEW id \in SEID, NEW n \in NodeID, Modify(id, n)
      PROVE  [Service!Next]_(Service!vars)
  BY <1>7, <1>8, OwnNodeID
<1> QED
  BY <1>1, <1>2, <1>3, <1>5, <1>6, <1>7, <1>8
     DEF Next, vars, tables, EstablishWithURR, ModifyWithURR,
         SeidTooLarge, ServeReport, TxDone, ReportResponseAtNil, Start

(* A new server has no association and no session.                         *)
LEMMA InitSim == Init => Service!Init
<1> SUFFICES ASSUME Init PROVE Service!Init
  OBVIOUS
<1>1. DOMAIN sess = {} /\ \A n \in NodeID : rnodes[n] = NoNode
  BY EmptyLemma DEF Init
<1>2. assocBar = {}
  BY <1>1 DEF assocBar
<1>3. ctxBar = [i \in SEID |-> {}]
  BY <1>1 DEF ctxBar, Live
<1> QED
  BY <1>2, <1>3 DEF Service!Init, Service!SEID, SEID

(* Without takeovers the tables implement the service the SMFs are         *)
(* promised: one fresh SEID per session, sessions that end when they are   *)
(* deleted or their SMF associates anew, and no other effect between SMFs. *)
THEOREM ServiceImplemented ==
  ASSUME ~Takeover
  PROVE  Spec => ServiceSpec
<1>1. Init => Service!Init
  BY InitSim
<1>2. Inv /\ SessionsReachable /\ [Next]_vars => [Service!Next]_(Service!vars)
  BY StepSim
<1>3. Spec => []SessionsReachable
  BY ReachableCorrect
<1> QED
  BY <1>1, <1>2, <1>3, Invariance, PTL DEF Spec, ServiceSpec, Service!Spec

-----------------------------------------------------------------------------
(* The steps that do not send a report.                                    *)
Others ==
  \/ \E n \in NodeID, addr \in NodeID, r \in NodeRef : AssociationSetup(n, addr, r)
  \/ \E n \in NodeID, rseid \in RSeid : Establish(n, rseid)
  \/ \E n \in NodeID : EstablishWithURR(n)
  \/ \E id \in SEID, n \in NodeID : Modify(id, n)
  \/ \E id \in SEID : ModifyWithURR(id)
  \/ \E id \in SEID : Delete(id)
  \/ SeidTooLarge
  \/ \E t \in TxID : TxDone(t) \/ ReportResponse(t) \/ ReportResponseAtNil(t)
  \/ Start

(* The history is of no weight: without it a step is a step of the table.  *)
LEMMA HistoryStep ==
  /\ [HNext]_hvars => [Next]_vars
  /\ HNext => \/ Others /\ Keep
              \/ \E id \in SEID, t \in TxID : ServeReport(id, t) /\ Reported(id, t)
<1>1. HNext => \/ Others /\ Keep
               \/ \E id \in SEID, t \in TxID : ServeReport(id, t) /\ Reported(id, t)
  BY DEF HNext, Others
<1>2. HNext => Next
  BY <1>1 DEF Others, Next
<1> QED
  BY <1>1, <1>2 DEF hvars

(* The table as it is under the history satisfies the invariant.           *)
LEMMA HistoryInv == HSpec => []Inv
<1>1. HInit => Inv
  BY InitInv DEF HInit
<1>2. Inv /\ [HNext]_hvars => Inv'
  BY HistoryStep, StepInv
<1> QED
  BY <1>1, <1>2, PTL DEF HSpec

(* Where none is sent, a waiting report ends or stays as it is.            *)
LEMMA ReportKept ==
  ASSUME Inv, Others, NEW t \in TxID
  PROVE  txTrans'[t] \in {txTrans[t], NoTx}
<1>1. ASSUME NEW panic, Exit(panic)
      PROVE  txTrans'[t] = NoTx
  BY <1>1 DEF Exit, EmptyTables
<1>2. ASSUME NEW u \in TxID, txTrans' = [txTrans EXCEPT ![u] = NoTx]
      PROVE  txTrans'[t] \in {txTrans[t], NoTx}
  BY <1>2 DEF Inv, TypeOK
<1>3. CASE UNCHANGED txTrans
  BY <1>3
<1> QED
  BY <1>1, <1>2, <1>3
     DEF Others, tables, AssociationSetup, Establish, EstablishWithURR, Modify,
         ModifyWithURR, Delete, SeidTooLarge, TxDone, ReportResponse,
         ReportResponseAtNil, Start

(* The invariant with the history.                                         *)
HInv ==
  /\ Inv
  /\ about \in [TxID -> SUBSET SEID]
  /\ ReportsKnowTheirSession

(* What a report knows of its session stays true while both last.          *)
LEMMA KnownStep == HInv /\ [HNext]_hvars => HInv'
<1> SUFFICES ASSUME HInv, [HNext]_hvars PROVE HInv'
  OBVIOUS
<1> USE DEF HInv
<1>0. Inv'
  BY HistoryStep, StepInv
<1>1. ASSUME NEW id \in SEID, NEW t \in TxID, ServeReport(id, t), Reported(id, t)
      PROVE  HInv'
  <2>1. about' \in [TxID -> SUBSET SEID]
    BY <1>1 DEF Reported
  <2>2. UNCHANGED sess /\ id \in Live
    BY <1>1 DEF ServeReport
  <2>3. Live' = Live
    BY <2>2 DEF Live
  <2>4. ASSUME NEW u \in TxID, NEW i \in about'[u]
        PROVE  i \in Live /\ txTrans'[u] # NoTx /\ sess[i].RemoteID = txTrans'[u].SEID
    <3>1. CASE u = t
      <4>1. i = id
        BY <1>1, <2>4, <3>1 DEF Reported
      <4>2. txTrans'[t] = [SEID |-> sess[id].RemoteID, raddr |-> nodes[sess[id].rnode].ID]
        BY <1>1 DEF ServeReport, Inv, TypeOK
      <4>3. sess[id] \in Session /\ nodes[sess[id].rnode] \in Node
        BY <2>2, LiveFacts
      <4>4. txTrans'[t] \in Report
        BY <4>2, <4>3 DEF Session, Node, Report
      <4> QED
        BY <2>2, <3>1, <4>1, <4>2, <4>4, NilAssumption
    <3>2. CASE u # t
      <4>1. i \in about[u] /\ txTrans'[u] = txTrans[u]
        BY <1>1, <2>4, <3>2 DEF Reported, ServeReport, Inv, TypeOK
      <4> QED
        BY <4>1 DEF ReportsKnowTheirSession
    <3> QED
      BY <3>1, <3>2
  <2> QED
    BY <1>0, <2>1, <2>2, <2>3, <2>4 DEF ReportsKnowTheirSession
<1>2. ASSUME Others, Keep
      PROVE  HInv'
  <2>1. about' \in [TxID -> SUBSET SEID]
    BY <1>2 DEF Keep
  <2>2. ASSUME NEW u \in TxID, NEW i \in about'[u]
        PROVE  i \in Live' /\ txTrans'[u] # NoTx /\ sess'[i].RemoteID = txTrans'[u].SEID
    <3>1. i \in about[u] /\ i \in Live' /\ txTrans'[u] # NoTx
      BY <1>2, <2>2 DEF Keep
    <3>2. i \in Live /\ sess[i].RemoteID = txTrans[u].SEID
      BY <3>1 DEF ReportsKnowTheirSession
    <3>3. txTrans'[u] = txTrans[u]
      BY <1>2, <3>1, ReportKept
    <3>4. sess'[i] = sess[i]
      BY <3>1, <3>2, HistoryStep, StableStep
    <3> QED
      BY <3>1, <3>2, <3>3, <3>4
  <2> QED
    BY <1>0, <2>1, <2>2 DEF ReportsKnowTheirSession
<1>3. CASE UNCHANGED hvars
  BY <1>0, <1>3 DEF hvars, vars, ReportsKnowTheirSession, Live
<1> QED
  BY <1>1, <1>2, <1>3, HistoryStep

(* A new association of n finds its sessions through rnodes, and the node  *)
(* registered there has n for its ID, whoever took over or was reset       *)
(* before.                                                                 *)
LEMMA SetupEndsOwn ==
  ASSUME Inv, NEW n \in NodeID, NEW addr \in NodeID, NEW r \in NodeRef,
         AssociationSetup(n, addr, r), NEW i \in Live \ Live'
  PROVE  nodes[sess[i].rnode].ID = n
<1>1. i \in SessOf(n)
  BY SetupInv
<1>2. rnodes[n] # NoNode /\ rnodes[n] \in NodeRef /\ i \in nodes[rnodes[n]].sess
  BY <1>1 DEF SessOf, Inv, TypeOK
<1>3. sess[i].rnode = rnodes[n]
  BY <1>2 DEF Inv, OwnershipAgrees
<1> QED
  BY <1>2, <1>3 DEF Inv, RegistryConsistent

(* A response with SEID 0 ends the session its report was about, when no   *)
(* other one of that address has its remote SEID.                          *)
LEMMA ResponseEndsReported ==
  ASSUME HInv, NEW t \in TxID, ReportResponse(t), NEW i \in about[t],
         AddrOf(i) = txTrans[t].raddr,
         \A j \in Live \ {i} :
           sess[j].RemoteID = sess[i].RemoteID => AddrOf(j) # AddrOf(i)
  PROVE  Live \ Live' = {i}
<1>1. PICK k \in Live : RemoteMatch(k, txTrans[t]) /\ NodeDeleteSess(sess[k].rnode, k)
  BY DEF ReportResponse
<1>2. i \in Live /\ sess[i].RemoteID = txTrans[t].SEID
  BY DEF HInv, ReportsKnowTheirSession
<1>3. k = i
  BY <1>1, <1>2 DEF RemoteMatch, AddrOf
<1>4. txTrans' = [txTrans EXCEPT ![t] = NoTx] /\ UNCHANGED <<rnodes, halt>>
  BY DEF ReportResponse
<1>5. txTrans' \in [TxID -> Report \union {NoTx}]
  BY <1>4, TxDoneType DEF HInv
<1>6. Live' = Live \ {k}
  BY <1>1, <1>4, <1>5, DeleteOneInv DEF HInv
<1> QED
  BY <1>1, <1>3, <1>6

(* With any number of SMFs, sessions and reports on their way, a new       *)
(* association ends no session another SMF has taken over, and a response  *)
(* with SEID 0 to a report ends the session reported, where its address    *)
(* and remote SEID tell it from the others.                                *)
THEOREM EndsOwnCorrect == HSpec => EndsOwnSessions
<1>1. HInit => HInv
  <2>1. ASSUME HInit PROVE HInv
    <3>1. Inv
      BY <2>1, InitInv DEF HInit
    <3>2. about = [t \in TxID |-> {}]
      BY <2>1 DEF HInit
    <3> QED
      BY <3>1, <3>2 DEF HInv, ReportsKnowTheirSession
  <2> QED
    BY <2>1
<1>2. HInv /\ [HNext]_hvars => HInv'
  BY KnownStep
<1> DEFINE Ends ==
       up' =>
         /\ \A n, addr \in NodeID, r \in NodeRef :
              AssociationSetup(n, addr, r)
                => \A i \in Live \ Live' : nodes[sess[i].rnode].ID = n
         /\ \A t \in TxID :
              ReportResponse(t)
                => \A i \in about[t] :
                     /\ AddrOf(i) = txTrans[t].raddr
                     /\ \A j \in Live \ {i} :
                          sess[j].RemoteID = sess[i].RemoteID => AddrOf(j) # AddrOf(i)
                     => Live \ Live' = {i}
<1>3. HInv => Ends
  BY SetupEndsOwn, ResponseEndsReported DEF HInv
<1>4. HInv => [Ends]_hvars
  BY <1>3
<1> QED
  BY <1>1, <1>2, <1>4, PTL DEF HSpec, EndsOwnSessions
=============================================================================
