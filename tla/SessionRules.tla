---------------------------- MODULE SessionRules ----------------------------
(***************************************************************************)
(* The rules of PFCP sessions: what Sess records (PDRIDs, FARIDs, QERIDs), *)
(* what the driver has put into the data plane, and the handlers that walk *)
(* through the rules of a request one driver call at a time.  Packets go   *)
(* through the data plane between two calls, so each call is a step.       *)
(*                                                                         *)
(* Two drivers: the Linux kernel module (forwarder.Gtp5g), which reports   *)
(* its errors, and the P4 switch (forwarder.P4Gtp5g), which creates FARs   *)
(* and PDRs, swallows the switch's errors, and does nothing else.          *)
(*                                                                         *)
(* A rule is the ID of a FAR, a QER or a PDR.  URRs and BARs are not here: *)
(* recording one stops the server (SessionTable!EstablishWithURR), so none *)
(* is ever recorded, updated or removed.  Which SEID is used again when is *)
(* SessionTable's matter: here any closed SEID may be opened.              *)
(***************************************************************************)
EXTENDS Naturals, FiniteSets

CONSTANTS
  SEID,     \* local SEIDs
  Rule,     \* IDs of rules
  KindOf,   \* the kind of a rule: FAR, QER or PDR
  FarOf,    \* the FAR a PDR refers to
  Val,      \* contents of a rule; of a PDR, the packets it matches
  MaxOps,   \* bound: rules named in one request
  Gtp5g, P4,\* the drivers
  NoSess

VARIABLES
  driver, \* which driver the configuration names
  open,   \* the SEIDs that have a session
  rec,    \* rec[s]: the rules the session records
  dp,     \* the data plane's entries
  busy,   \* the session whose handler is running, or NoSess
  closing,\* the handler is a deletion
  todo,   \* the driver calls the handler has still to make
  failed  \* history: a call failed that the data plane had no reason to refuse

vars == <<driver, open, rec, dp, busy, closing, todo, failed>>

(* Numbered in the order in which the handlers take them.                  *)
FAR == 1
QER == 2
PDR == 3
Create == 1
Remove == 2
Update == 3

DPEntry == [seid : SEID, rule : Rule, val : Val]
Call    == [op : {Create, Remove, Update}, rule : Rule, val : Val]

ASSUME KindAssumption == KindOf \in [Rule -> {FAR, QER, PDR}]
ASSUME FarAssumption ==
  FarOf \in [Rule -> Rule] /\ \A r \in Rule : KindOf[FarOf[r]] = FAR
ASSUME BoundAssumption == MaxOps \in Nat
ASSUME DriverAssumption == Gtp5g # P4
ASSUME NoneAssumption == NoSess \notin SEID
ASSUME ValAssumption == Val # {}

TypeOK ==
  /\ driver \in {Gtp5g, P4}
  /\ open \subseteq SEID
  /\ rec \in [SEID -> SUBSET Rule]
  /\ dp \subseteq DPEntry
  /\ busy \in open \union {NoSess}
  /\ closing \in BOOLEAN
  /\ todo \subseteq Call
  /\ failed \in BOOLEAN

Init ==
  /\ driver \in {Gtp5g, P4}
  /\ open = {}
  /\ rec = [s \in SEID |-> {}]
  /\ dp = {}
  /\ busy = NoSess
  /\ closing = FALSE
  /\ todo = {}
  /\ failed = FALSE

EntriesOf(s) == {e \in dp : e.seid = s}
Installed(s) == {e.rule : e \in EntriesOf(s)}

-----------------------------------------------------------------------------
(* The data plane.  The kernel finds a rule by SEID and ID; the switch     *)
(* finds a FAR by SEID and ID and a PDR by the packets it matches.         *)
SameKey(d, e) ==
  IF driver = P4 /\ KindOf[e.rule] = PDR
  THEN KindOf[d.rule] = PDR /\ d.val = e.val
  ELSE d.seid = e.seid /\ d.rule = e.rule

There(e) == {d \in dp : SameKey(d, e)}

(* What a driver call does to the data plane, and whether it returns nil.  *)
(* The kernel creates a rule that is new, updates and removes one that is  *)
(* there; any call may fail all the same.                                  *)
KernelCall(new, e, ok, result) ==
  IF ok THEN /\ (There(e) = {}) = new
             /\ dp' = result
             /\ failed' = failed
        ELSE /\ dp' = dp
             /\ failed' = (failed \/ (There(e) = {}) = new)

KernelCreate(e, ok) == KernelCall(TRUE, e, ok, dp \union {e})
KernelUpdate(e, ok) == KernelCall(FALSE, e, ok, (dp \ There(e)) \union {e})
KernelRemove(e, ok) == KernelCall(FALSE, e, ok, dp \ There(e))

(* ALREADY_EXISTS and every other error of the switch end in nil.          *)
SwitchCreate(e) ==
  \/ /\ dp' = IF KindOf[e.rule] \in {FAR, PDR} /\ There(e) = {}
              THEN dp \union {e} ELSE dp
     /\ failed' = failed
  \/ dp' = dp /\ failed' = TRUE

(* A FAR or PDR the driver cannot read: an error, and no call.             *)
Unreadable(e) == KindOf[e.rule] \in {FAR, PDR} /\ dp' = dp /\ failed' = TRUE

DriverCreate(e, ok) ==
  \/ driver = Gtp5g /\ KernelCreate(e, ok)
  \/ driver = P4 /\ IF ok THEN SwitchCreate(e) ELSE Unreadable(e)

DriverUpdate(e, ok) ==
  \/ driver = Gtp5g /\ KernelUpdate(e, ok)
  \/ driver = P4 /\ ok /\ UNCHANGED <<dp, failed>>

DriverRemove(e, ok) ==
  \/ driver = Gtp5g /\ KernelRemove(e, ok)
  \/ driver = P4 /\ ok /\ UNCHANGED <<dp, failed>>

-----------------------------------------------------------------------------
Calls(op, rules, v) == {[op |-> op, rule |-> r, val |-> v] : r \in rules}

(* What a request names: rules to create, to remove and to update.         *)
Request == {q \in [created : SUBSET Rule, removed : SUBSET Rule, updated : SUBSET Rule] :
              Cardinality(q.created) + Cardinality(q.removed) + Cardinality(q.updated)
                <= MaxOps}

(* A PDR is created with its FAR, or for a FAR the session has.            *)
Sensible(created, recorded) ==
  \A r \in created : KindOf[r] = PDR => FarOf[r] \in created \union recorded

(* handleSessionEstablishmentRequest: the session, then its rules.         *)
Establish(s, q, v) ==
  /\ busy = NoSess /\ s \notin open
  /\ q.removed = {} /\ q.updated = {}
  /\ Sensible(q.created, {})
  /\ open' = open \union {s}
  /\ rec' = [rec EXCEPT ![s] = {}]
  /\ busy' = s
  /\ closing' = FALSE
  /\ todo' = Calls(Create, q.created, v)
  /\ UNCHANGED <<driver, dp, failed>>

(* handleSessionModificationRequest.                                       *)
Modify(s, q, v) ==
  /\ busy = NoSess /\ s \in open
  /\ Sensible(q.created, rec[s])
  /\ busy' = s
  /\ closing' = FALSE
  /\ todo' = Calls(Create, q.created, v) \union Calls(Remove, q.removed, v)
               \union Calls(Update, q.updated, v)
  /\ UNCHANGED <<driver, open, rec, dp, failed>>

(* Mutant: the deletion forgets the QERs.                                  *)
ClosedRulesNoQER(s) == {r \in rec[s] : KindOf[r] # QER}

(* Sess.Close: the rules it ranges over.                                   *)
ClosedRules(s) == rec[s]

(* Mutant: the session is dropped before it is closed.                     *)
DeleteDropsFirst(s, v) ==
  /\ busy = NoSess /\ s \in open
  /\ open' = open \ {s}
  /\ busy' = s
  /\ closing' = TRUE
  /\ todo' = Calls(Remove, ClosedRules(s), v)
  /\ UNCHANGED <<driver, rec, dp, failed>>

(* handleSessionDeletionRequest, RemoteNode.Reset, and a report response   *)
(* with SEID 0: LocalNode.DeleteSess closes the session.                   *)
Delete(s, v) ==
  /\ busy = NoSess /\ s \in open
  /\ busy' = s
  /\ closing' = TRUE
  /\ todo' = Calls(Remove, ClosedRules(s), v)
  /\ UNCHANGED <<driver, open, rec, dp, failed>>

(* Mutant: PDRs before QERs before FARs.                                   *)
BeforeSwapped(a, b) == a.op < b.op \/ (a.op = b.op /\ KindOf[a.rule] > KindOf[b.rule])

(* Creations, then removals, then updates; of each, FARs, QERs, then PDRs. *)
(* Within a kind any order: the order of the IEs, or of a range.           *)
Before(a, b) == a.op < b.op \/ (a.op = b.op /\ KindOf[a.rule] < KindOf[b.rule])

NextCalls == {c \in todo : \A b \in todo : ~Before(b, c)}
Entry(c)  == [seid |-> busy, rule |-> c.rule, val |-> c.val]

(* Mutants: the record is made whatever the driver says; it is not made.   *)
CallCreateRecordsFirst(c) ==
  /\ c \in NextCalls /\ c.op = Create
  /\ \E ok \in BOOLEAN : DriverCreate(Entry(c), ok)
  /\ rec' = [rec EXCEPT ![busy] = @ \union {c.rule}]
  /\ todo' = todo \ {c}
  /\ UNCHANGED <<driver, open, busy, closing>>
(* Sess.CreateFAR, CreateQER and CreatePDR: recorded if the driver agrees. *)
(* An error is logged and the handler goes on.                             *)
CallCreate(c) ==
  /\ c \in NextCalls /\ c.op = Create
  /\ \E ok \in BOOLEAN :
       /\ DriverCreate(Entry(c), ok)
       /\ rec' = [rec EXCEPT ![busy] = IF ok THEN @ \union {c.rule} ELSE @]
  /\ todo' = todo \ {c}
  /\ UNCHANGED <<driver, open, busy, closing>>

(* Sess.RemoveFAR, RemoveQER and RemovePDR.                                *)
CallRemove(c) ==
  /\ c \in NextCalls /\ c.op = Remove
  /\ \E ok \in BOOLEAN :
       /\ DriverRemove(Entry(c), ok)
       /\ rec' = [rec EXCEPT ![busy] = IF ok THEN @ \ {c.rule} ELSE @]
  /\ todo' = todo \ {c}
  /\ UNCHANGED <<driver, open, busy, closing>>

(* Sess.UpdateFAR, UpdateQER and UpdatePDR.                                *)
CallUpdate(c) ==
  /\ c \in NextCalls /\ c.op = Update
  /\ \E ok \in BOOLEAN : DriverUpdate(Entry(c), ok)
  /\ todo' = todo \ {c}
  /\ UNCHANGED <<driver, open, rec, busy, closing>>

(* The handler ends, with an accepting response whatever the calls said; a *)
(* deleted session is dropped with all it still records.                   *)
Finish ==
  /\ busy # NoSess /\ todo = {}
  /\ open' = IF closing THEN open \ {busy} ELSE open
  /\ rec' = IF closing THEN [rec EXCEPT ![busy] = {}] ELSE rec
  /\ busy' = NoSess
  /\ UNCHANGED <<driver, dp, closing, todo, failed>>

Next ==
  \/ \E s \in SEID, v \in Val :
       \/ \E q \in Request : Establish(s, q, v) \/ Modify(s, q, v)
       \/ Delete(s, v)
  \/ \E c \in todo : CallCreate(c) \/ CallRemove(c) \/ CallUpdate(c)
  \/ Finish

Spec == Init /\ [][Next]_vars

-----------------------------------------------------------------------------
(* What a session records is in the kernel, also when calls fail: Close    *)
(* finds everything it is going to remove (node.go:37, :83).               *)
RecordedAreInstalled == driver = Gtp5g => \A s \in open : rec[s] \subseteq Installed(s)

(* What is in the kernel for a session is recorded, as long as no call to  *)
(* the data plane has failed without need (node.go:83).                    *)
InstalledAreRecorded ==
  driver = Gtp5g /\ ~failed => \A s \in open : Installed(s) \subseteq rec[s]

(* node.go:35 says of Close: it deletes all PFCP rules of this session.    *)
(* No rule of a session that is gone is left in the data plane, where a    *)
(* later session of the same SEID would find it; as long as no call has    *)
(* failed without need.                                                    *)
NoLeftovers == ~failed => \A s \in SEID \ open : EntriesOf(s) = {}

(* The kernel driver keeps that promise.                                   *)
KernelNoLeftovers == driver = Gtp5g => NoLeftovers

(* Whatever the kernel has belongs to an open session that has it in its   *)
(* records, so that the next Close removes it (node.go:37).                *)
NothingUnrecorded == InstalledAreRecorded /\ KernelNoLeftovers

(* A packet never meets a new PDR whose FAR is not there yet, with either  *)
(* driver: the order in which the handlers walk through the rules; as long *)
(* as no call has failed without need.                                     *)
FarBeforePdr ==
  [][~failed' => \A e \in dp' \ dp :
       KindOf[e.rule] = PDR /\ e.rule \notin Installed(e.seid)
         => FarOf[e.rule] \in Installed(e.seid)]_vars
=============================================================================
