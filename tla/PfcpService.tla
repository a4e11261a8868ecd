---------------------------- MODULE PfcpService ----------------------------
(***************************************************************************)
(* What the session handlers of internal/pfcp promise to the SMFs, without *)
(* slots, stacks and node objects: which Node IDs are associated, and for  *)
(* each local SEID the session it stands for, with the SMF that controls   *)
(* it.  ctx[i] has one element while SEID i is in use and none otherwise.  *)
(* A session stays with its SMF: takeovers are not part of the promise.    *)
(***************************************************************************)
EXTENDS Naturals

CONSTANTS
  NodeID,    \* Node IDs of the SMFs
  RSeid,     \* SEIDs chosen by the SMFs
  MaxSess    \* bound: number of local SEIDs

VARIABLES assoc, ctx

vars == <<assoc, ctx>>

SEID    == 1..MaxSess
Context == [smf : NodeID, seid : RSeid]

Init == assoc = {} /\ ctx = [i \in SEID |-> {}]

(* A (new) association of SMF n ends all the sessions n had.               *)
SetUp(n) ==
  /\ assoc' = assoc \union {n}
  /\ ctx' = [i \in SEID |-> {c \in ctx[i] : c.smf # n}]

(* An associated SMF gets a session under an SEID nobody uses.             *)
Open(n, q, i) ==
  /\ n \in assoc
  /\ ctx[i] = {}
  /\ ctx' = [ctx EXCEPT ![i] = {[smf |-> n, seid |-> q]}]
  /\ UNCHANGED assoc

(* One session ends.                                                       *)
Close(i) ==
  /\ ctx[i] # {}
  /\ ctx' = [ctx EXCEPT ![i] = {}]
  /\ UNCHANGED assoc

(* The process ends: all is forgotten at once.                             *)
Forget == assoc' = {} /\ ctx' = [i \in SEID |-> {}]

Next ==
  \/ \E n \in NodeID : SetUp(n)
  \/ \E n \in NodeID, q \in RSeid, i \in SEID : Open(n, q, i)
  \/ \E i \in SEID : Close(i)
  \/ Forget

Spec == Init /\ [][Next]_vars
=============================================================================
