------------------------- MODULE SessionRulesProofs -------------------------
(* Proofs about SessionRules: types for both drivers, the agreement of     *)
(* records and data plane for the kernel driver.                           *)
EXTENDS SessionRules, TLAPS

(* A call of the running handler is about the session it runs for.         *)
LEMMA EntryOK ==
  ASSUME TypeOK, NEW c \in todo, busy # NoSess
  PROVE  /\ Entry(c) \in DPEntry /\ Entry(c).seid = busy
         /\ Entry(c).rule = c.rule /\ busy \in open /\ busy \in SEID
         /\ c \in Call /\ c.rule \in Rule
BY DEF TypeOK, Entry, DPEntry, Call

(* What is installed for a session are rules.                              *)
LEMMA InstalledIn ==
  ASSUME TypeOK, NEW s \in SEID
  PROVE  Installed(s) \subseteq Rule
BY DEF TypeOK, Installed, EntriesOf, DPEntry

(* The configuration chooses the driver once.                              *)
LEMMA DriverStays ==
  ASSUME [Next]_vars
  PROVE  driver' = driver
BY DEF Next, Establish, Modify, Delete, CallCreate, CallRemove, CallUpdate, Finish, vars

(* Whichever the driver, a call leaves entries in the data plane.          *)
LEMMA CallEffect ==
  ASSUME TypeOK, NEW e \in DPEntry, NEW ok \in BOOLEAN,
         DriverCreate(e, ok) \/ DriverUpdate(e, ok) \/ DriverRemove(e, ok)
  PROVE  dp' \subseteq DPEntry /\ failed' \in BOOLEAN
<1>1. CASE KernelCreate(e, ok)
  BY <1>1 DEF KernelCreate, KernelCall, TypeOK
<1>2. CASE KernelUpdate(e, ok)
  BY <1>2 DEF KernelUpdate, KernelCall, TypeOK
<1>3. CASE KernelRemove(e, ok)
  BY <1>3 DEF KernelRemove, KernelCall, TypeOK
<1>4. CASE SwitchCreate(e)
  BY <1>4 DEF SwitchCreate, TypeOK
<1>5. CASE UNCHANGED <<dp, failed>>
  BY <1>5 DEF TypeOK
<1>6. CASE Unreadable(e)
  BY <1>6 DEF Unreadable, TypeOK
<1> QED
  BY <1>1, <1>2, <1>3, <1>4, <1>5, <1>6 DEF DriverCreate, DriverUpdate, DriverRemove

-----------------------------------------------------------------------------
(* The three driver calls of the kernel, seen through Installed.           *)
LEMMA CreateEffect ==
  ASSUME driver = Gtp5g, TypeOK, NEW e \in DPEntry, NEW ok \in BOOLEAN,
         DriverCreate(e, ok)
  PROVE  /\ dp' \subseteq DPEntry
         /\ \A s \in SEID : Installed(s)' =
              IF ok /\ s = e.seid THEN Installed(s) \union {e.rule} ELSE Installed(s)
         /\ failed' \in BOOLEAN /\ (failed => failed')
<1>1. KernelCreate(e, ok)
  BY DriverAssumption DEF DriverCreate
<1>2. CASE ok
  BY <1>1, <1>2 DEF KernelCreate, KernelCall, TypeOK, Installed, EntriesOf
<1>3. CASE ~ok
  BY <1>1, <1>3 DEF KernelCreate, KernelCall, TypeOK, Installed, EntriesOf
<1> QED
  BY <1>2, <1>3

(* An update of the kernel changes contents, not which rules are           *)
(* installed.                                                              *)
LEMMA UpdateEffect ==
  ASSUME driver = Gtp5g, TypeOK, NEW e \in DPEntry, NEW ok \in BOOLEAN,
         DriverUpdate(e, ok)
  PROVE  /\ dp' \subseteq DPEntry
         /\ \A s \in SEID : Installed(s)' = Installed(s)
         /\ failed' \in BOOLEAN /\ (failed => failed')
<1>1. KernelUpdate(e, ok)
  BY DriverAssumption DEF DriverUpdate
<1>2. CASE ok
  <2>1. dp' = (dp \ There(e)) \union {e} /\ There(e) # {}
    BY <1>1, <1>2 DEF KernelUpdate, KernelCall
  <2>2. There(e) = {d \in dp : d.seid = e.seid /\ d.rule = e.rule}
    BY DriverAssumption DEF There, SameKey
  <2>3. ASSUME NEW s \in SEID, NEW r
        PROVE  r \in Installed(s)' <=> r \in Installed(s)
    <3>1. r \in Installed(s)' <=> \E d \in dp' : d.seid = s /\ d.rule = r
      BY DEF Installed, EntriesOf
    <3>2. r \in Installed(s) <=> \E d \in dp : d.seid = s /\ d.rule = r
      BY DEF Installed, EntriesOf
    <3> QED
      BY <3>1, <3>2, <2>1, <2>2
  <2> QED
    BY <1>1, <1>2, <2>1, <2>3 DEF TypeOK, KernelUpdate, KernelCall
<1>3. CASE ~ok
  BY <1>1, <1>3 DEF KernelUpdate, KernelCall, TypeOK, Installed, EntriesOf
<1> QED
  BY <1>2, <1>3

(* A removal takes away its rule and no other; one that fails with reason  *)
(* found nothing.                                                          *)
LEMMA RemoveEffect ==
  ASSUME driver = Gtp5g, TypeOK, NEW e \in DPEntry, NEW ok \in BOOLEAN,
         DriverRemove(e, ok)
  PROVE  /\ dp' \subseteq DPEntry
         /\ \A s \in SEID : Installed(s)' =
              IF ok /\ s = e.seid THEN Installed(s) \ {e.rule} ELSE Installed(s)
         /\ failed' \in BOOLEAN /\ (failed => failed')
         /\ ~ok => e.rule \notin Installed(e.seid) \/ failed'
<1>1. KernelRemove(e, ok)
  BY DriverAssumption DEF DriverRemove
<1>2. There(e) = {d \in dp : d.seid = e.seid /\ d.rule = e.rule}
  BY DriverAssumption DEF There, SameKey
<1>3. CASE ok
  <2>1. dp' = dp \ There(e)
    BY <1>1, <1>3 DEF KernelRemove, KernelCall
  <2>2. ASSUME NEW s \in SEID, NEW r
        PROVE  r \in Installed(s)' <=>
                 r \in Installed(s) /\ ~(s = e.seid /\ r = e.rule)
    <3>1. r \in Installed(s)' <=> \E d \in dp' : d.seid = s /\ d.rule = r
      BY DEF Installed, EntriesOf
    <3>2. r \in Installed(s) <=> \E d \in dp : d.seid = s /\ d.rule = r
      BY DEF Installed, EntriesOf
    <3> QED
      BY <3>1, <3>2, <2>1, <1>2
  <2>3. ASSUME NEW s \in SEID
        PROVE  Installed(s)' =
                 IF s = e.seid THEN Installed(s) \ {e.rule} ELSE Installed(s)
    BY <2>2
  <2> QED
    BY <1>1, <1>3, <2>1, <2>3 DEF TypeOK, KernelRemove, KernelCall
<1>4. CASE ~ok
  <2>1. dp' = dp /\ failed' = (failed \/ There(e) # {})
    BY <1>1, <1>4 DEF KernelRemove, KernelCall
  <2>2. There(e) = {} => e.rule \notin Installed(e.seid)
    BY <1>2 DEF Installed, EntriesOf
  <2> QED
    BY <1>4, <2>1, <2>2 DEF TypeOK, Installed, EntriesOf
<1> QED
  BY <1>3, <1>4

-----------------------------------------------------------------------------
(* Types.  While calls are left to be made, their session is there.        *)
TInv == TypeOK /\ (todo # {} => busy # NoSess)

(* The loops over the IEs of a request make well-formed driver calls.      *)
LEMMA CallsType ==
  ASSUME NEW op \in {Create, Remove, Update}, NEW rules \in SUBSET Rule, NEW v \in Val
  PROVE  Calls(op, rules, v) \subseteq Call
BY DEF Calls, Call

(* Each step of a handler keeps the types.                                 *)
LEMMA TInvStep ==
  ASSUME TInv, [Next]_vars
  PROVE  TInv'
<1> USE DEF TInv
<1>1. ASSUME NEW s \in SEID, NEW v \in Val, NEW q \in Request, Establish(s, q, v)
      PROVE  TInv'
  <2>1. q.created \in SUBSET Rule
    BY DEF Request
  <2>2. todo' \subseteq Call
    BY <1>1, <2>1, CallsType DEF Establish
  <2> QED
    BY <1>1, <2>2, NoneAssumption DEF Establish, TypeOK
<1>2. ASSUME NEW s \in SEID, NEW v \in Val, NEW q \in Request, Modify(s, q, v)
      PROVE  TInv'
  <2>1. /\ q.created \in SUBSET Rule /\ q.removed \in SUBSET Rule
        /\ q.updated \in SUBSET Rule
    BY DEF Request
  <2>2. todo' \subseteq Call
    BY <1>2, <2>1, CallsType DEF Modify
  <2> QED
    BY <1>2, <2>2, NoneAssumption DEF Modify, TypeOK
<1>3. ASSUME NEW s \in SEID, NEW v \in Val, Delete(s, v)
      PROVE  TInv'
  <2>1. ClosedRules(s) \in SUBSET Rule
    BY <1>3 DEF Delete, ClosedRules, TypeOK
  <2>2. todo' \subseteq Call
    BY <1>3, <2>1, CallsType DEF Delete
  <2> QED
    BY <1>3, <2>2, NoneAssumption DEF Delete, TypeOK
<1>4. ASSUME NEW c \in todo, CallCreate(c)
      PROVE  TInv'
  <2>1. PICK ok \in BOOLEAN :
          /\ DriverCreate(Entry(c), ok)
          /\ rec' = [rec EXCEPT ![busy] = IF ok THEN @ \union {c.rule} ELSE @]
    BY <1>4 DEF CallCreate
  <2>2. /\ Entry(c) \in DPEntry /\ busy \in SEID /\ c.rule \in Rule
    BY EntryOK
  <2>3. dp' \subseteq DPEntry /\ failed' \in BOOLEAN
    BY <2>1, <2>2, CallEffect
  <2> QED
    BY <1>4, <2>1, <2>2, <2>3 DEF CallCreate, TypeOK
<1>5. ASSUME NEW c \in todo, CallRemove(c)
      PROVE  TInv'
  <2>1. PICK ok \in BOOLEAN :
          /\ DriverRemove(Entry(c), ok)
          /\ rec' = [rec EXCEPT ![busy] = IF ok THEN @ \ {c.rule} ELSE @]
    BY <1>5 DEF CallRemove
  <2>2. /\ Entry(c) \in DPEntry /\ busy \in SEID /\ c.rule \in Rule
    BY EntryOK
  <2>3. dp' \subseteq DPEntry /\ failed' \in BOOLEAN
    BY <2>1, <2>2, CallEffect
  <2> QED
    BY <1>5, <2>1, <2>2, <2>3 DEF CallRemove, TypeOK
<1>6. ASSUME NEW c \in todo, CallUpdate(c)
      PROVE  TInv'
  <2>1. PICK ok \in BOOLEAN : DriverUpdate(Entry(c), ok)
    BY <1>6 DEF CallUpdate
  <2>2. dp' \subseteq DPEntry /\ failed' \in BOOLEAN
    BY <2>1, EntryOK, CallEffect
  <2> QED
    BY <1>6, <2>2 DEF CallUpdate, TypeOK
<1>7. CASE Finish
  <2>1. rec' \in [SEID -> SUBSET Rule] /\ open' \subseteq SEID
    BY <1>7 DEF Finish, TypeOK
  <2> QED
    BY <1>7, <2>1 DEF Finish, TypeOK
<1>8. CASE UNCHANGED vars
  BY <1>8 DEF vars, TypeOK
<1> QED
  BY <1>1, <1>2, <1>3, <1>4, <1>5, <1>6, <1>7, <1>8 DEF Next

(* The types hold in every reachable state.                                *)
LEMMA TInvariance == Spec => []TInv
<1>1. Init => TInv
  BY NoneAssumption DEF Init, TInv, TypeOK
<1>2. TInv /\ [Next]_vars => TInv'
  BY TInvStep
<1> QED
  BY <1>1, <1>2, PTL DEF Spec

(* The session's types hold in every reachable state.                      *)
THEOREM TypeCorrect == Spec => []TypeOK
<1>1. TInv => TypeOK
  BY DEF TInv
<1> QED
  BY <1>1, TInvariance, PTL

-----------------------------------------------------------------------------
(* Calls of the driver may fail at any point: a record is made only after  *)
(* the kernel has the rule, and unmade only after it has lost it.          *)
LEMMA RecordedStep ==
  ASSUME driver = Gtp5g, TInv, RecordedAreInstalled, [Next]_vars
  PROVE  RecordedAreInstalled'
<1> USE DEF TInv
<1>1. ASSUME NEW s \in SEID, NEW v \in Val, NEW q \in Request,
             Establish(s, q, v) \/ Modify(s, q, v)
      PROVE  RecordedAreInstalled'
  BY <1>1 DEF Establish, Modify, RecordedAreInstalled, TypeOK, Installed, EntriesOf
<1>2. ASSUME NEW c \in todo, CallCreate(c)
      PROVE  RecordedAreInstalled'
  <2>1. PICK ok \in BOOLEAN :
          /\ DriverCreate(Entry(c), ok)
          /\ rec' = [rec EXCEPT ![busy] = IF ok THEN @ \union {c.rule} ELSE @]
          /\ open' = open
    BY <1>2 DEF CallCreate
  <2>2. \A s \in SEID : Installed(s)' =
          IF ok /\ s = busy THEN Installed(s) \union {c.rule} ELSE Installed(s)
    BY <2>1, EntryOK, CreateEffect
  <2> QED
    BY <2>1, <2>2 DEF RecordedAreInstalled, TypeOK
<1>3. ASSUME NEW c \in todo, CallRemove(c)
      PROVE  RecordedAreInstalled'
  <2>1. PICK ok \in BOOLEAN :
          /\ DriverRemove(Entry(c), ok)
          /\ rec' = [rec EXCEPT ![busy] = IF ok THEN @ \ {c.rule} ELSE @]
          /\ open' = open
    BY <1>3 DEF CallRemove
  <2>2. \A s \in SEID : Installed(s)' =
          IF ok /\ s = busy THEN Installed(s) \ {c.rule} ELSE Installed(s)
    BY <2>1, EntryOK, RemoveEffect
  <2> QED
    BY <2>1, <2>2 DEF RecordedAreInstalled, TypeOK
<1>4. ASSUME NEW c \in todo, CallUpdate(c)
      PROVE  RecordedAreInstalled'
  <2>1. PICK ok \in BOOLEAN : DriverUpdate(Entry(c), ok)
    BY <1>4 DEF CallUpdate
  <2>2. \A s \in SEID : Installed(s)' = Installed(s)
    BY <2>1, EntryOK, UpdateEffect
  <2> QED
    BY <1>4, <2>2 DEF CallUpdate, RecordedAreInstalled, TypeOK
<1>5. CASE Finish
  BY <1>5 DEF Finish, RecordedAreInstalled, TypeOK, Installed, EntriesOf
<1>6. CASE UNCHANGED vars
  BY <1>6 DEF vars, RecordedAreInstalled, Installed, EntriesOf
<1>7. ASSUME NEW s \in SEID, NEW v \in Val, Delete(s, v)
      PROVE  RecordedAreInstalled'
  BY <1>7 DEF Delete, RecordedAreInstalled, Installed, EntriesOf
<1> QED
  BY <1>1, <1>2, <1>3, <1>4, <1>5, <1>6, <1>7 DEF Next

(* Close finds in the kernel whatever the session records, whichever calls *)
(* have failed before.                                                     *)
THEOREM RecordedCorrect == Spec => []RecordedAreInstalled
<1>1. Init => RecordedAreInstalled
  BY DEF Init, RecordedAreInstalled
<1>2. TInv /\ RecordedAreInstalled /\ [Next]_vars => RecordedAreInstalled'
  BY RecordedStep, DriverStays DEF RecordedAreInstalled
<1> QED
  BY <1>1, <1>2, TInvariance, PTL DEF Spec

-----------------------------------------------------------------------------
(* Without failures records and kernel agree, and a deletion has a removal  *)
(* left for every rule that is still there.                                *)
Exact ==
  /\ \A s \in open : Installed(s) = rec[s]
  /\ \A s \in SEID \ open : Installed(s) = {}
  /\ closing /\ busy # NoSess =>
       /\ \A c \in todo : c.op = Remove
       /\ \A r \in rec[busy] : \E c \in todo : c.rule = r

(* Each driver call that does not fail keeps records and kernel in         *)
(* agreement.                                                              *)
LEMMA ExactStep ==
  ASSUME driver = Gtp5g, TInv, Exact, ~failed', [Next]_vars
  PROVE  Exact'
<1> USE DEF TInv
<1>1. ASSUME NEW s \in SEID, NEW v \in Val, NEW q \in Request, Establish(s, q, v)
      PROVE  Exact'
  BY <1>1 DEF Establish, Exact, TypeOK, Installed, EntriesOf
<1>2. ASSUME NEW s \in SEID, NEW v \in Val, NEW q \in Request, Modify(s, q, v)
      PROVE  Exact'
  BY <1>2 DEF Modify, Exact, TypeOK, Installed, EntriesOf
<1>3. ASSUME NEW s \in SEID, NEW v \in Val, Delete(s, v)
      PROVE  Exact'
  <2>1. /\ busy' = s /\ todo' = {[op |-> Remove, rule |-> r, val |-> v] : r \in rec[s]}
        /\ UNCHANGED <<open, rec, dp>>
    BY <1>3 DEF Delete, Calls, ClosedRules
  <2>2. \A t \in SEID : Installed(t)' = Installed(t)
    BY <2>1 DEF Installed, EntriesOf
  <2>3. \A c \in todo' : c.op = Remove
    BY <2>1
  <2>4. ASSUME NEW r \in rec[s]
        PROVE  \E c \in todo' : c.rule = r
    <3>1. [op |-> Remove, rule |-> r, val |-> v] \in todo'
      BY <2>1
    <3> QED
      BY <3>1
  <2> QED
    BY <2>1, <2>2, <2>3, <2>4 DEF Exact, TypeOK
<1>4. ASSUME NEW c \in todo, CallCreate(c)
      PROVE  Exact'
  <2>1. PICK ok \in BOOLEAN :
          /\ DriverCreate(Entry(c), ok)
          /\ rec' = [rec EXCEPT ![busy] = IF ok THEN @ \union {c.rule} ELSE @]
          /\ UNCHANGED <<open, busy, closing>>
          /\ c.op = Create
    BY <1>4 DEF CallCreate
  <2>2. ~closing
    BY <2>1 DEF Exact, Create, Remove
  <2>3. \A s \in SEID : Installed(s)' =
          IF ok /\ s = busy THEN Installed(s) \union {c.rule} ELSE Installed(s)
    BY <2>1, EntryOK, CreateEffect
  <2> QED
    BY <2>1, <2>2, <2>3, EntryOK DEF Exact, TypeOK
<1>5. ASSUME NEW c \in todo, CallRemove(c)
      PROVE  Exact'
  <2>1. PICK ok \in BOOLEAN :
          /\ DriverRemove(Entry(c), ok)
          /\ rec' = [rec EXCEPT ![busy] = IF ok THEN @ \ {c.rule} ELSE @]
          /\ UNCHANGED <<open, busy, closing>>
          /\ todo' = todo \ {c}
    BY <1>5 DEF CallRemove
  <2>2. /\ \A s \in SEID : Installed(s)' =
             IF ok /\ s = busy THEN Installed(s) \ {c.rule} ELSE Installed(s)
        /\ ~ok => c.rule \notin Installed(busy)
        /\ busy \in open /\ busy \in SEID
    BY <2>1, EntryOK, RemoveEffect
  <2>3. rec'[busy] = rec[busy] \ {c.rule} /\ \A s \in SEID \ {busy} : rec'[s] = rec[s]
    BY <2>1, <2>2 DEF Exact, TypeOK
  <2>4. \A s \in open' : Installed(s)' = rec'[s]
    BY <2>1, <2>2, <2>3 DEF Exact, TypeOK
  <2>5. \A s \in SEID \ open' : Installed(s)' = {}
    BY <2>1, <2>2 DEF Exact
  <2> QED
    BY <2>1, <2>3, <2>4, <2>5 DEF Exact
<1>6. ASSUME NEW c \in todo, CallUpdate(c)
      PROVE  Exact'
  <2>1. PICK ok \in BOOLEAN : DriverUpdate(Entry(c), ok)
    BY <1>6 DEF CallUpdate
  <2>2. ~closing
    BY <1>6 DEF CallUpdate, Exact, Update, Remove
  <2>3. \A s \in SEID : Installed(s)' = Installed(s)
    BY <2>1, EntryOK, UpdateEffect
  <2> QED
    BY <1>6, <2>2, <2>3 DEF CallUpdate, Exact, TypeOK
<1>7. CASE Finish
  <2>1. \A t \in SEID : Installed(t)' = Installed(t)
    BY <1>7 DEF Finish, Installed, EntriesOf
  <2>2. closing => rec[busy] = {} /\ Installed(busy) = {} /\ busy \in open
    BY <1>7 DEF Finish, Exact, TypeOK
  <2> QED
    BY <1>7, <2>1, <2>2 DEF Finish, Exact, TypeOK
<1>8. CASE UNCHANGED vars
  BY <1>8 DEF vars, Exact, Installed, EntriesOf
<1> QED
  BY <1>1, <1>2, <1>3, <1>4, <1>5, <1>6, <1>7, <1>8 DEF Next

(* A call that failed without need is not forgotten.                       *)
LEMMA FailedStays ==
  ASSUME driver = Gtp5g, TInv, failed, [Next]_vars
  PROVE  failed'
<1> USE DEF TInv
<1>1. ASSUME NEW c \in todo, CallCreate(c)
      PROVE  failed'
  BY <1>1, EntryOK, CreateEffect DEF CallCreate
<1>2. ASSUME NEW c \in todo, CallRemove(c)
      PROVE  failed'
  BY <1>2, EntryOK, RemoveEffect DEF CallRemove
<1>3. ASSUME NEW c \in todo, CallUpdate(c)
      PROVE  failed'
  BY <1>3, EntryOK, UpdateEffect DEF CallUpdate
<1> QED
  BY <1>1, <1>2, <1>3 DEF Next, Establish, Modify, Delete, Finish, vars

KernelExact == driver = Gtp5g => failed \/ Exact

(* Until a call fails without need, records and kernel agree.              *)
LEMMA Exactness == Spec => []KernelExact
<1>1. Init => KernelExact
  BY DEF Init, KernelExact, Exact, Installed, EntriesOf
<1>2. TInv /\ KernelExact /\ [Next]_vars => KernelExact'
  BY ExactStep, FailedStays, DriverStays DEF KernelExact
<1> QED
  BY <1>1, <1>2, TInvariance, PTL DEF Spec

(* Until a call fails without need, Close deletes every rule of the        *)
(* session: an SEID that is free has no entry in the kernel.               *)
THEOREM NoLeftoversCorrect == Spec => []KernelNoLeftovers
<1>1. ASSUME KernelExact
      PROVE  KernelNoLeftovers
  <2>1. ASSUME driver = Gtp5g, ~failed, NEW s \in SEID \ open, NEW e \in EntriesOf(s)
        PROVE  FALSE
    <3>1. e.rule \in Installed(s)
      BY DEF Installed
    <3> QED
      BY <1>1, <2>1, <3>1 DEF KernelExact, Exact
  <2> QED
    BY <2>1 DEF KernelNoLeftovers, NoLeftovers
<1> QED
  BY <1>1, Exactness, PTL

(* Until a call fails without need, no entry is there without a record.    *)
THEOREM InstalledCorrect == Spec => []InstalledAreRecorded
<1>1. KernelExact => InstalledAreRecorded
  BY DEF KernelExact, Exact, InstalledAreRecorded
<1> QED
  BY <1>1, Exactness, PTL

(* Until a call fails without need, the kernel has nothing but the rules   *)
(* that open sessions record.                                              *)
THEOREM NothingUnrecordedCorrect == Spec => []NothingUnrecorded
<1>1. InstalledAreRecorded /\ KernelNoLeftovers => NothingUnrecorded
  BY DEF NothingUnrecorded
<1> QED
  BY <1>1, InstalledCorrect, NoLeftoversCorrect, PTL

-----------------------------------------------------------------------------
(* Both drivers.  What the three calls do to the entries, as long as none  *)
(* fails without need: a creation adds at most its entry, and a FAR is     *)
(* there after it, new or not.                                             *)
LEMMA CreateGrows ==
  ASSUME TypeOK, NEW e \in DPEntry, NEW ok \in BOOLEAN, DriverCreate(e, ok), ~failed'
  PROVE  /\ dp \subseteq dp' /\ dp' \subseteq dp \union {e}
         /\ KindOf[e.rule] = FAR => \E d \in dp' : d.seid = e.seid /\ d.rule = e.rule
<1>1. KindOf[e.rule] = FAR => There(e) = {d \in dp : d.seid = e.seid /\ d.rule = e.rule}
  BY DEF There, SameKey, FAR, PDR
<1>2. CASE KernelCreate(e, ok)
  BY <1>1, <1>2 DEF KernelCreate, KernelCall
<1>3. CASE SwitchCreate(e)
  BY <1>1, <1>3 DEF SwitchCreate
<1>4. ~Unreadable(e)
  BY DEF Unreadable
<1> QED
  BY <1>2, <1>3, <1>4 DEF DriverCreate

(* An update changes contents only, whichever the driver.                  *)
LEMMA UpdateKeeps ==
  ASSUME TypeOK, NEW e \in DPEntry, NEW ok \in BOOLEAN, DriverUpdate(e, ok)
  PROVE  \A s \in SEID : Installed(s)' = Installed(s)
<1>1. CASE driver = Gtp5g
  BY <1>1, UpdateEffect
<1>2. CASE driver # Gtp5g
  BY <1>2 DEF DriverUpdate, Installed, EntriesOf
<1> QED
  BY <1>1, <1>2

(* A removal takes away its own rule at most, and nothing if it fails.     *)
LEMMA RemoveTakes ==
  ASSUME TypeOK, NEW e \in DPEntry, NEW ok \in BOOLEAN, DriverRemove(e, ok)
  PROVE  /\ dp' \subseteq dp
         /\ \A d \in dp \ dp' : ok /\ d.seid = e.seid /\ d.rule = e.rule
<1>1. CASE driver = Gtp5g
  <2>1. KernelRemove(e, ok)
    BY <1>1, DriverAssumption DEF DriverRemove
  <2>2. There(e) = {d \in dp : d.seid = e.seid /\ d.rule = e.rule}
    BY <1>1, DriverAssumption DEF There, SameKey
  <2> QED
    BY <2>1, <2>2 DEF KernelRemove, KernelCall
<1>2. CASE driver # Gtp5g
  BY <1>2 DEF DriverRemove
<1> QED
  BY <1>1, <1>2

(* The FARs a session records are installed; and of every PDR that is      *)
(* still to be created the FAR is installed, or is to be created too.      *)
FarsInstalled ==
  \A s \in open : \A r \in rec[s] : KindOf[r] = FAR => \E d \in dp : d.seid = s /\ d.rule = r
FarThere(r) == \E d \in dp : d.seid = busy /\ d.rule = FarOf[r]
FarAhead ==
  \A c \in todo : c.op = Create /\ KindOf[c.rule] = PDR =>
    FarThere(c.rule) \/ \E b \in todo : b.op = Create /\ b.rule = FarOf[c.rule]
FInv == FarsInstalled /\ FarAhead

(* The FAR of a PDR that is created now is installed: creations of FARs    *)
(* come first, and none is left.                                           *)
LEMMA FarIsThere ==
  ASSUME TInv, FInv, NEW c \in todo, CallCreate(c), KindOf[c.rule] = PDR
  PROVE  FarThere(c.rule)
<1>1. c \in NextCalls /\ c.op = Create
  BY DEF CallCreate
<1>2. ASSUME NEW b \in todo, b.op = Create, b.rule = FarOf[c.rule]
      PROVE  FALSE
  <2>1. KindOf[b.rule] = FAR
    BY <1>2, FarAssumption DEF TInv, TypeOK, Call
  <2>2. Before(b, c)
    BY <1>1, <1>2, <2>1 DEF Before, FAR, PDR, Create
  <2> QED
    BY <1>1, <1>2, <2>2 DEF NextCalls
<1> QED
  BY <1>1, <1>2 DEF FInv, FarAhead

(* A call is made only when no earlier kind of call is left, so removals   *)
(* and updates find no creation.                                           *)
LEMMA NoCreationLeft ==
  ASSUME TInv, NEW c \in NextCalls, c.op \in {Remove, Update}
  PROVE  \A b \in todo : b.op # Create
BY DEF NextCalls, Before, Create, Remove, Update

(* Every step keeps the FARs ahead of their PDRs.                          *)
LEMMA FInvStep ==
  ASSUME TInv, FInv, ~failed', [Next]_vars
  PROVE  FInv'
<1> USE DEF TInv
<1>1. ASSUME NEW s \in SEID, NEW v \in Val, NEW q \in Request, Establish(s, q, v)
      PROVE  FInv'
  <2>1. FarsInstalled'
    BY <1>1 DEF Establish, FInv, FarsInstalled, TypeOK
  <2>2. ASSUME NEW c \in todo', c.op = Create, KindOf[c.rule] = PDR
        PROVE  \E b \in todo' : b.op = Create /\ b.rule = FarOf[c.rule]
    <3>1. c.rule \in q.created /\ todo' = Calls(Create, q.created, v)
      BY <1>1, <2>2 DEF Establish, Calls
    <3>2. FarOf[c.rule] \in q.created
      BY <1>1, <2>2, <3>1 DEF Establish, Sensible
    <3>3. [op |-> Create, rule |-> FarOf[c.rule], val |-> v] \in todo'
      BY <3>1, <3>2 DEF Calls
    <3> QED
      BY <3>3
  <2> QED
    BY <2>1, <2>2 DEF FInv, FarAhead
<1>2. ASSUME NEW s \in SEID, NEW v \in Val, NEW q \in Request, Modify(s, q, v)
      PROVE  FInv'
  <2>1. FarsInstalled'
    BY <1>2 DEF Modify, FInv, FarsInstalled, TypeOK
  <2>2. ASSUME NEW c \in todo', c.op = Create, KindOf[c.rule] = PDR
        PROVE  FarThere(c.rule)' \/ \E b \in todo' : b.op = Create /\ b.rule = FarOf[c.rule]
    <3>1. c.rule \in q.created /\ Calls(Create, q.created, v) \subseteq todo'
      BY <1>2, <2>2 DEF Modify, Calls, Create, Remove, Update
    <3>2. FarOf[c.rule] \in q.created \union rec[s]
      BY <1>2, <2>2, <3>1 DEF Modify, Sensible
    <3>3. CASE FarOf[c.rule] \in q.created
      <4>1. [op |-> Create, rule |-> FarOf[c.rule], val |-> v] \in todo'
        BY <3>1, <3>3 DEF Calls
      <4> QED
        BY <4>1
    <3>4. CASE FarOf[c.rule] \in rec[s]
      <4>1. KindOf[FarOf[c.rule]] = FAR
        BY <1>2, <3>4, <3>1, FarAssumption DEF Request
      <4> QED
        BY <1>2, <3>4, <4>1 DEF Modify, FInv, FarsInstalled, FarThere
    <3> QED
      BY <3>2, <3>3, <3>4
  <2> QED
    BY <2>1, <2>2 DEF FInv, FarAhead
<1>3. ASSUME NEW s \in SEID, NEW v \in Val, Delete(s, v)
      PROVE  FInv'
  BY <1>3 DEF Delete, Calls, FInv, FarsInstalled, FarAhead, Create, Remove, TypeOK
<1>4. ASSUME NEW c \in todo, CallCreate(c)
      PROVE  FInv'
  <2>1. PICK ok \in BOOLEAN :
          /\ DriverCreate(Entry(c), ok)
          /\ rec' = [rec EXCEPT ![busy] = IF ok THEN @ \union {c.rule} ELSE @]
          /\ UNCHANGED <<open, busy>>
          /\ todo' = todo \ {c}
    BY <1>4 DEF CallCreate
  <2>2. /\ dp \subseteq dp'
        /\ KindOf[c.rule] = FAR => \E d \in dp' : d.seid = busy /\ d.rule = c.rule
    BY <2>1, EntryOK, CreateGrows
  <2>3. FarsInstalled'
    BY <2>1, <2>2 DEF FInv, FarsInstalled, TypeOK
  <2>4. ASSUME NEW d \in todo', d.op = Create, KindOf[d.rule] = PDR
        PROVE  FarThere(d.rule)' \/ \E b \in todo' : b.op = Create /\ b.rule = FarOf[d.rule]
    <3>1. CASE FarThere(d.rule)
      BY <2>1, <2>2, <3>1 DEF FarThere
    <3>2. ASSUME NEW b \in todo, b.op = Create, b.rule = FarOf[d.rule]
          PROVE  FarThere(d.rule)' \/ \E x \in todo' : x.op = Create /\ x.rule = FarOf[d.rule]
      <4>1. KindOf[b.rule] = FAR
        BY <2>1, <3>2, FarAssumption DEF TypeOK, Call
      <4>2. CASE b = c
        BY <2>1, <2>2, <3>2, <4>1, <4>2 DEF FarThere
      <4>3. CASE b # c
        BY <2>1, <3>2, <4>3
      <4> QED
        BY <4>2, <4>3
    <3> QED
      BY <2>1, <2>4, <3>1, <3>2 DEF FInv, FarAhead
  <2> QED
    BY <2>3, <2>4 DEF FInv, FarAhead
<1>5. ASSUME NEW c \in todo, CallRemove(c)
      PROVE  FInv'
  <2>1. PICK ok \in BOOLEAN :
          /\ DriverRemove(Entry(c), ok)
          /\ rec' = [rec EXCEPT ![busy] = IF ok THEN @ \ {c.rule} ELSE @]
          /\ UNCHANGED <<open, busy>>
          /\ todo' = todo \ {c}
    BY <1>5 DEF CallRemove
  <2>2. \A d \in dp \ dp' : ok /\ d.seid = busy /\ d.rule = c.rule
    BY <2>1, EntryOK, RemoveTakes
  <2>3. FarsInstalled'
    BY <2>1, <2>2 DEF FInv, FarsInstalled, TypeOK
  <2>4. \A b \in todo' : b.op # Create
    BY <1>5, <2>1, NoCreationLeft DEF CallRemove
  <2> QED
    BY <2>3, <2>4 DEF FInv, FarAhead
<1>6. ASSUME NEW c \in todo, CallUpdate(c)
      PROVE  FInv'
  <2>1. PICK ok \in BOOLEAN : DriverUpdate(Entry(c), ok)
    BY <1>6 DEF CallUpdate
  <2>2. \A s \in SEID : Installed(s)' = Installed(s)
    BY <2>1, EntryOK, UpdateKeeps
  <2>3. \A s \in SEID : \A r : (\E d \in dp : d.seid = s /\ d.rule = r)
                                 => \E d \in dp' : d.seid = s /\ d.rule = r
    BY <2>2 DEF Installed, EntriesOf
  <2>4. FarsInstalled'
    BY <1>6, <2>3 DEF CallUpdate, FInv, FarsInstalled, TypeOK
  <2>5. \A b \in todo' : b.op # Create
    BY <1>6, NoCreationLeft DEF CallUpdate
  <2> QED
    BY <2>4, <2>5 DEF FInv, FarAhead
<1>7. CASE Finish
  BY <1>7 DEF Finish, FInv, FarsInstalled, FarAhead, TypeOK
<1>8. CASE UNCHANGED vars
  BY <1>8 DEF vars, FInv, FarsInstalled, FarAhead, FarThere
<1> QED
  BY <1>1, <1>2, <1>3, <1>4, <1>5, <1>6, <1>7, <1>8 DEF Next

(* With either driver a call that failed without need is not forgotten.    *)
LEMMA FailureStays ==
  ASSUME [Next]_vars, failed
  PROVE  failed'
BY DEF Next, Establish, Modify, Delete, CallCreate, CallRemove, CallUpdate, Finish, vars,
       DriverCreate, DriverUpdate, DriverRemove, KernelCreate, KernelUpdate, KernelRemove,
       KernelCall, SwitchCreate, Unreadable

(* What a single step says of the entries it adds.                         *)
NewPdrHasFar ==
  ~failed' => \A e \in dp' \ dp :
       KindOf[e.rule] = PDR /\ e.rule \notin Installed(e.seid)
         => FarOf[e.rule] \in Installed(e.seid)

(* Only creations add rules, and they find the FAR of a PDR.               *)
LEMMA FarBeforePdrStep ==
  ASSUME TInv, failed \/ FInv, [Next]_vars
  PROVE  NewPdrHasFar
<1> SUFFICES ASSUME ~failed', NEW e \in dp' \ dp, KindOf[e.rule] = PDR,
                    e.rule \notin Installed(e.seid)
             PROVE  FarOf[e.rule] \in Installed(e.seid)
  BY DEF NewPdrHasFar
<1>1. FInv /\ TypeOK
  BY FailureStays DEF TInv
<1>2. ASSUME NEW c \in todo, CallCreate(c)
      PROVE  FarOf[e.rule] \in Installed(e.seid)
  <2>1. busy # NoSess
    BY DEF TInv
  <2>2. PICK ok \in BOOLEAN : DriverCreate(Entry(c), ok)
    BY <1>2 DEF CallCreate
  <2>3. e = Entry(c) /\ e.seid = busy /\ e.rule = c.rule
    BY <1>1, <2>1, <2>2, EntryOK, CreateGrows
  <2>4. FarThere(c.rule)
    BY <1>1, <1>2, <2>3, FarIsThere
  <2> QED
    BY <2>3, <2>4 DEF FarThere, Installed, EntriesOf
<1>3. ASSUME NEW c \in todo, CallRemove(c)
      PROVE  FALSE
  <2>1. busy # NoSess
    BY DEF TInv
  <2> QED
    BY <1>1, <1>3, <2>1, EntryOK, RemoveTakes DEF CallRemove
<1>4. ASSUME NEW c \in todo, CallUpdate(c)
      PROVE  FALSE
  <2>1. busy # NoSess
    BY DEF TInv
  <2>2. PICK ok \in BOOLEAN : DriverUpdate(Entry(c), ok)
    BY <1>4 DEF CallUpdate
  <2>3. dp' \subseteq DPEntry
    BY <1>1, <2>1, <2>2, EntryOK, CallEffect
  <2>4. e.seid \in SEID /\ Installed(e.seid)' = Installed(e.seid)
    BY <1>1, <2>1, <2>2, <2>3, EntryOK, UpdateKeeps DEF DPEntry
  <2>5. e.rule \in Installed(e.seid)'
    BY DEF Installed, EntriesOf
  <2> QED
    BY <2>4, <2>5
<1> QED
  BY <1>2, <1>3, <1>4 DEF Next, Establish, Modify, Delete, Finish, vars

(* With either driver, until a call fails without need, a packet never     *)
(* meets a new PDR whose FAR is not there.                                 *)
THEOREM FarBeforePdrCorrect == Spec => FarBeforePdr
<1>1. Init => FInv
  BY DEF Init, FInv, FarsInstalled, FarAhead
<1>2. TInv /\ (failed \/ FInv) /\ [Next]_vars => (failed \/ FInv)'
  BY FInvStep, FailureStays
<1>3. TInv /\ (failed \/ FInv) /\ [Next]_vars => [NewPdrHasFar]_vars
  BY FarBeforePdrStep
<1> QED
  BY <1>1, <1>2, <1>3, TInvariance, PTL DEF Spec, FarBeforePdr, NewPdrHasFar
=============================================================================
