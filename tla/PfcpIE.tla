------------------------------- MODULE PfcpIE -------------------------------
(* Information elements as go-pfcp hands them to the drivers.  An IE is    *)
(* <<type, value, readable>>; of a grouped IE the value is the sequence of *)
(* its IEs.  The accessor of an IE that is not readable returns an error.  *)
EXTENDS Naturals, Sequences

Type(i)     == i[1]
Val(i)      == i[2]
Readable(i) == i[3]

(* A rule that names no IE twice.                                          *)
Once(ies) == \A j, k \in DOMAIN ies : Type(ies[j]) = Type(ies[k]) => j = k

(* The IEs named in first come before those named in later.                *)
Ordered(ies, first, later) ==
  \A j, k \in DOMAIN ies : Type(ies[j]) \in first /\ Type(ies[k]) \in later => j < k

(* The IE of a type that can be read, if the rule names one.               *)
Given(ies, type) == {i \in {ies[k] : k \in DOMAIN ies} : Type(i) = type /\ Readable(i)}
=============================================================================
