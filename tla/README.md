# TLA+ models of go-upf, the 5G user plane function

go-upf terminates PFCP: SMFs associate with it, establish, modify and delete
sessions, and each session puts forwarding rules into a data plane, either the
Linux kernel module gtp5g or a Tofino switch programmed in P4. This directory
holds TLA+ models of its Go code (`src/internal`, `src/pkg`) and of the switch
program (`src/config/p4src`), the TLC configurations that check them on small
instances, and proofs checked by TLAPS.

Run any of it here: `tlc -config MCSessionHistory.cfg MCSessionHistory` checks
one model, `tlapm SessionTableProofs.tla` checks one module of proofs.

## 1. Inventory: the parts of the system

| part | code | state | operations |
| --- | --- | --- | --- |
| Session table | `pfcp/node.go`, `session.go`, `association.go`, `pfcp.go` | `LocalNode.sess` (slot i is SEID i + 1), `LocalNode.free`, `RemoteNode{ID, addr, sess}`, `PfcpServer.rnodes` | association setup, establishment, modification, deletion, SEID 0 response, `UpdateNodeID` |
| Requests of the SMFs | `pfcp/transaction.go`, `pfcp.go`, `dispacher.go`, `heartbeat.go` | `rxTrans`, kept answers, timers, `trToCh` | receive, repeat the answer, expire |
| Requests of the UPF | `pfcp/transaction.go`, `pfcp.go` | `txTrans`, `txSeq`, timers, `trToCh` | send, retransmit, receive the response, give up |
| Session rules and drivers | `pfcp/node.go`, `session.go`, `forwarder/driver.go`, `gtp5g.go`, `p4gtp5g.go`, `empty.go` | `Sess.PDRIDs`, `FARIDs`, `QERIDs`, `URRIDs`, `BARIDs`; the tables of kernel or switch | create, update, remove each kind of rule; `Sess.Close` |
| Buffering and reports | `forwarder/buff/server.go`, `pfcp/report.go`, `node.go`, `forwarder/gtp5g.go` | datagram buffer, `srCh`, `Sess.q` | decode, `NotifySessReport`, `ServeReport`, `Push`, `Pop`, `applyAction` |
| Start and shutdown | `pkg/app/app.go`, `pfcp.go`, `buff/server.go`, `gtp5g.go` | goroutines, wait group, channels | `Run`, `Stop`, `Close`, the deferred functions |
| PFCP to switch tables | `forwarder/p4gtp5g.go`, `driver.go`, `helper.go`, `define.go` | none (pure) | IEs of a rule to table entries |
| PFCP to netlink | `forwarder/gtp5g.go`, `flowdesc.go` | none (pure) | IEs of a rule to attributes; flow descriptions |
| GTP-U encoding | `gtpv1/msg.go` | none (pure) | `Len`, `Encode` |
| Switch pipeline | `config/p4src/main.p4`, `include/parser.p4` | match tables | ingress of one packet |
| Configuration, logging, command line | `pkg/factory`, `forwarder/driver.go`, `internal/logger`, `cmd` | none | parse, validate, make a driver |
| Generated or unused code | `*grpc*.go`, `forwarder/nonsense`, `testtools` | | |

**How they interact.** One goroutine, `PfcpServer.main`, owns all PFCP state. Its
`select` takes datagrams from `rcvCh` (filled by the receiver), data plane
reports from `srCh` (filled by the buff server) and expired timers from `trToCh`
(filled by the goroutines of `time.AfterFunc`). Handlers run one at a time and
call the driver synchronously; the data plane forwards packets meanwhile. A
panic in main is recovered and ends the process.

**What is hard.**
* Handlers share node objects by reference, and SEIDs are used again: a table
  is corrupted by a sequence of legal messages, not by one.
* Requests are repeated, delayed and reordered; a timer cannot be stopped once
  its goroutine runs, and the goroutine may wait on a full channel.
* A handler makes many driver calls, each of which may fail, and goes on after a
  failure; packets meet whatever is there between two calls.
* Sequence numbers and SEIDs wrap, are cut to three bytes, or start over after
  a restart of the peer.
* Channels are closed while other goroutines may still send on them.
* One buffer serves all datagrams of buffered packets, and the queues they go to
  are emptied while others are on their way.
* Rules are translated IE by IE, in the order in which they come, by loops that
  were written once for each kind of rule and once more for its update.

**What makes each part correct.** Session table: no SEID for two sessions, none
lost, both records of ownership agree, and a message ends the sessions it is
about and no others. Requests of the SMFs: each is executed at most once, and its memory is
released. Requests of the UPF: each ends once, after the configured number of
copies, with its own response. Rules: records and data plane agree, nothing is
left of a closed session, a PDR never comes before its FAR. Buffering: a packet
is queued as it was received, under the session it belongs to, and leaves in
order. Shutdown: every goroutine ends and none sends on a closed channel.
Translations: the order of the IEs does not matter, update and creation say the
same, what is recorded was made under the recorded ID, and a packet of a rule
finds its entry and no packet of another does. Messages: a receiver reads what
was encoded.

## 2. The modules and how they are related

| order | module | subject | state |
| --- | --- | --- | --- |
| 1 | `PfcpService`, `SessionTable`, `SessionHistory` | what the tables promise; the tables; with the session each report is about | checked, proved |
| 2 | `RxTransactions`, `PfcpDispatch` | requests of the SMFs; which datagram gets which answer | checked, proved |
| 3 | `TxTransactions` | requests of the UPF | checked, proved |
| 4 | `SessionRules` | rules, drivers, data plane | checked, proved |
| 5 | `BuffReport` | the shared datagram buffer, `srCh`, queues, `applyAction`, reports of an SEID that is used again | checked, proved |
| 6 | `Shutdown` | which goroutine ends when, closed channels, `Stop` | checked, proved |
| 7 | `PfcpIE`, `Gtp5gRules`, `FlowDesc` | rules to netlink attributes | checked, proved |
| 8 | `P4Setup`, `P4Rules` | configuration and rules to entries of the switch | checked, proved |
| 9 | `P4Pipeline` | one packet through `main.p4` | checked, proved |
| 10 | `GtpMessage` | GTP-U messages | checked, proved |

1 to 6 are state machines, 7 to 10 pure functions, which `MCTranslation` feeds
with all small inputs. `SessionHistory` is `SessionTable` with a history variable and
the property that needs it. `SessionTable` implements `PfcpService`
(`INSTANCE ... WITH`). The modules of the switch are composed by `EXTENDS`:
`P4Setup` makes the tables, `P4Pipeline` reads them, `P4Rules` adds the entries
of PDRs and FARs, and its packets go through the parser and the match of
`P4Pipeline`. The modules of main's state are not composed with each other: a
handler runs to its end before the next, so what one module leaves to another
(an answer, a timer, a report to be sent, a driver call) is a step of that one
with arbitrary inputs. `<Module>Proofs` holds the theorems about a state machine;
`EncodingProofs` those about `GtpMessage`, `Gtp5gRules` and `FlowDesc`,
`TranslationProofs` those about `PfcpDispatch`, `P4Setup`, `P4Rules`, `P4Pipeline`
and about the inputs of `MCTranslation`.

What could follow: a composition of `SessionRules` with the entries of
`P4Rules` for two sessions, and a larger alphabet for flow descriptions.

## 3. The modules

### SessionTable

One action per handler; main runs them one at a time, so each is one step.

| TLA+ | code |
| --- | --- |
| `sess`, `free` | `LocalNode.sess`, `LocalNode.free`; slot i holds SEID i, a deleted slot is `NoSess` (nil) |
| `nodes`, `rnodes` | the `RemoteNode` objects by reference, `PfcpServer.rnodes` by Node ID |
| `txTrans` | of each pending report what the response handler reads back: the SMF's SEID and the address |
| `halt` | `Running`, or which panic ended the process; `Start` is a new process with empty tables |
| `NewSess`, `DeleteSess` | the methods of `LocalNode`; `DeleteSess` takes a set because `Reset` ranges over a map, in any order (`RangeOrders`) |
| `AssociationSetup`, `Establish`, `Modify`, `Delete`, `ReportResponse` | the handlers |
| `EstablishWithURR`, `ModifyWithURR` | the same with an accepted Create URR or BAR, whose write to a nil map panics |
| `ReportResponseAtNil` | `RemoteSess` meets a nil slot and panics |
| `SeidTooLarge` | an SEID above 2^63 is a negative index of `LocalNode.Sess`, and panics |

An object that nothing refers to may be used for a new one (`Unreachable`). A
Node ID and the address it resolves to are one value; the sender's address of an
association is any of them. `PfcpService` is the abstract specification: the set
of associated Node IDs, and for every SEID the SMF and its SEID. `ServiceSpec`
reads both from the tables.

`SessionHistory` adds `about`: the session each waiting report is about, while
that session lives. The code keeps the remote SEID and the address instead, and
finds the session again by these two.

### RxTransactions

| TLA+ | code |
| --- | --- |
| `rxTrans`, `msgBuf` | `PfcpServer.rxTrans` and the kept answer, named by the request that produced it |
| `timer`, `fired` | the ticks of the `AfterFunc` timer; whether its goroutine has sent |
| `trToCh` | the channel of timeouts; `Fire` waits for room |
| `RecvAnswered`, `RecvUnanswered`, `RecvRepeat` | `recv`, the dispatch and `send` |
| `HandleTimeout` | main takes a key from `trToCh` |

`PeerSend`, `PeerResend`, `Lose` and `Tick` are the environment: an SMF that
repeats a request for `PeerWindow` ticks, and a network that delivers a copy
within `MaxDelay` ticks or loses it. The timer is computed in eight bits as in
the code, so that a `MaxRetrans` of 255 gives 0. `done`, `again` and `wrong` are
history.

### TxTransactions

| TLA+ | code |
| --- | --- |
| `txTrans`, `txSeq` | `PfcpServer.txTrans` by sequence number, the 32-bit counter |
| `timer`, `firing`, `trToCh` | a running timer, a goroutine that waits on the channel, the channel |
| `SendReq`, `SendReqFails` | `sendReqTo`, the second when `MarshalTo` fails |
| `RecvRsp` | main finds the transaction, `recv` stops the timer and deletes it |
| `Retransmit`, `GiveUp`, `TooLate` | `handleTimeout` in its three outcomes |

`WireSeq` cuts the number to the three bytes of a message. Requests are numbered
in the order of sending; `net` holds what the peer may have received and may
answer, at any time, any number of times. `copies`, `answered` and `gaveUp` are
history.

### SessionRules

| TLA+ | code |
| --- | --- |
| `rec` | `Sess.FARIDs`, `QERIDs`, `PDRIDs` |
| `dp` | the entries of the kernel or the switch |
| `busy`, `closing`, `todo` | the handler that is running and the driver calls it has left |
| `driver`, `failed` | which driver the configuration names; history: a call failed that the data plane had no reason to refuse |
| `Establish`, `Modify`, `Delete` | the start of a handler, of `LocalNode.DeleteSess` for the third |
| `CallCreate`, `CallRemove`, `CallUpdate` | `Sess.CreateFAR` and the rest: one driver call and its record |
| `Before` | the order of the loops: creations, removals, updates; FARs, QERs, PDRs |
| `KernelCreate`... , `SwitchCreate` | what the drivers do to the data plane |

A step is one driver call, since packets pass between two of them. A call of the
kernel may fail at any moment; `failed` remembers that one did although the data
plane could have done it. The switch's driver
reports a rule it cannot read (`Unreadable`) and no other error, finds a PDR by
what it matches, and updates and removes nothing.

### PfcpDispatch

The types of PFCP messages, the lists in which the code asks for them
(`IsRequest`, `IsResponse`, `ReqDispacher`, ...), and for a datagram with or
without its mandatory IEs what it is answered (`Received`). Requests whose
handler panics (`EndsProcess`) are among them: a URR or BAR, a second range of
ports, an SEID above 2^63.

### BuffReport

| TLA+ | code |
| --- | --- |
| `log`, `read`, `put`, `got` | the datagrams of the kernel by number, and how far they have come: read by `Serve`, put on `srCh`, served by main |
| `srv`, `buf` | where `Server.Serve` is; which datagram its one buffer holds, or `Torn` during `ReadFrom` |
| `q` | `Sess.q`, with whether the packet was whole when `Push` copied it |
| `open`, `far`, `upd` | sessions; the Apply Action the kernel has; the Update FAR main is in |
| `ReadBegin`, `ReadEnd`, `NotifySessReport` | `Serve` |
| `ServeReport`, `Push` | `PfcpServer.ServeReport`, `Sess.Push` |
| `UpdateFARBegin`, `UpdateFAREnd` | `Gtp5g.UpdateFAR` with `applyAction` before the kernel's answer |

The kernel may buffer packets between the drain and its new action, reports of a
closed session go to the next one of its SEID, and any lookup of `applyAction`
may fail. `out` and `mark` are history.

### Shutdown

One variable for the place of each goroutine: `run` (`UPF.Run`), `lse`
(`listenShutdownEvent`), `main`, `rcv` (the receiver), `buff`, `mux`. `wg` is the
wait group; `conn`, `muxOpen`, `bsOpen`, `handler` what they close and test;
`rcvCh`, `sr`, `to`, `closed` the channels; `timers` and `firing` the timers of
transactions, whose goroutines nobody counts. `DriverFails` is an error at any
point of the start. A send on a closed channel ends the process: by Fatalf in
the receiver, which recovers, by a panic elsewhere. `NoClient` is main calling
the P4 driver after `Close` has set its client to nil.

### PfcpIE, Gtp5gRules, FlowDesc

An IE is a type, a value and whether its accessor can read it. The functions of
`gtp5g.go` are loops over a switch; `Gtp5gRules` has the switches as tables
(`PdrNames`, `FarNames`, ...: the attribute an IE becomes; which IE is the ID;
which ones are an error when unreadable) and one loop (`Translate`). What an
update of a FAR drains is part of the result. `FlowDesc` walks over the words of
a flow description as `ParseFlowDesc` does, and packs ports as `convertSlice`
does, panics and writes behind the end of a slice included. `NoFD` is what it
returns of a description it refuses. The grammar of the comment, `Sentence`, has
two words the parser refuses everywhere, `deny` and `assigned`; the sentences
without them are `Understood`.

### P4Setup, P4Rules, P4Pipeline

`P4Setup` goes from a configuration and what the system answers (the kernel
module, the route, `grpc.Dial`, the buffer's socket) to a driver (`Valid`,
`NewDriver`, `TofinoDriver`) and to the tables filled at the start. `P4Rules` takes the IEs of
a PDR or FAR one after the other (`PdrTake`, `FarTake`), since what is read
later is used with what came before; `UplinkPacket` and `DownlinkPacket` are the
packets a rule is for, and `StrangersMiss` is about those of any other UE or
tunnel. They carry UDP, TCP or neither: a PDR matches ports 1 to 65535, and what
the switch takes for the ports of a packet without any are those of its tunnel,
or 0. The SEID of an entry is cut to `Uint32` values, 2^32 in the code. `P4Pipeline` is parser, ingress and deparser for one packet, a sequence
of headers: `Parse`, `Normalize`, `Pdrs`, `LoadFar`, `GtpuDecap`, `GtpuTunnel`,
`ExecuteFar`, `Routing`, `Deparse`. The parser's two ways to an inner packet are
a G-PDU and UDP port 9875; the second has no header that the deparser emits.

### GtpMessage

`MessageLen` and `Encode` say which byte is where in the buffer of `Len()` bytes;
`WritePacket` fills a message from a FAR, a QER and a packet. `Decode` is a
receiver after TS 29.281, external to the program: it walks from header to
header (`Walk`) until the mark of their end, and takes what follows it for the
payload.

## 4. What the runs check

Passing runs:

| run | configuration | shows |
| --- | --- | --- |
| `sessions` | `MCSessionHistory.cfg` | For two SMFs with takeovers, reports, panics and restarts: the stack of SEIDs holds every nil slot once (`FreeListExact`), nodes and sessions agree on ownership and `rnodes` leads to the right node (`NodesAgree`), an SEID means one session until it is deleted (`SlotStable`), a new association ends only sessions that are its SMF's at that time, and a SEID 0 response ends the session the report was about, although takeovers, deletions and SEIDs used again come between report and response (`EndsOwnSessions`). |
| `sessions_service` | `SessionService.cfg` | Without takeovers, where a modification at most repeats the Node ID of its SMF, every session is found from its SMF's Node ID (`SessionsReachable`), and the tables implement `PfcpService` (`ServiceSpec`). |
| `requests_of_smf` | `MCRxTransactions.cfg` | No request is executed twice (`AtMostOnce`), a request that is refused was executed and gets its own answer (`FalseMeansHandled`), main deletes a transaction only when its own timer has fired (`TimeoutsAreDue`). Liveness: an answered transaction is deleted in the end (`AnsweredIsDeleted`). |
| `requests_of_upf` | `MCTxTransactions.cfg` | A pending report has exactly one timeout on its way (`OneTimer`), ends once, answered or after exactly the configured retransmissions (`EndsOnce`), is silent afterwards (`QuietAfterEnd`), and gets its own response (`AnswerMatches`). Liveness: every report that was sent is answered or given up (`SentEnds`). |
| `rules` | `MCSessionRules.cfg` | Kernel driver: what a session records is installed, whichever calls fail (`RecordedAreInstalled`), so `Close` finds all it removes; until a call fails without need nothing unrecorded is installed and nothing of a closed session is left (`NothingUnrecorded`). Either driver: a new PDR always has its FAR (`FarBeforePdr`). |
| `buffering` | `MCBuffReport.cfg` | A drain leaves nothing behind that main had queued before it (`NothingOlderThanDrain`), and packets of a PDR leave in the order in which they came, over all drains (`LeavesInOrder`). Liveness: every datagram is served (`ReportsServed`): the buff server, blocked on `srCh`, and main never wait for each other. |
| `shutdown` | `MCShutdown.cfg` | The process exits in order only when every goroutine has ended (`ExitMeansStopped`), the receiver never sends on its closed channel and no timer expires after its channel is closed (`ClosedWhenLeft`). Liveness: a shutdown that meets an open connection, or a driver that failed, ends the process (`StopEnds`). |
| `translation` | `MCTranslation.cfg` | See the next table. |

The properties of `translation`, each over all inputs of its kind:

| property | shows |
| --- | --- |
| `KernelRuleOfIEs` | The attributes, the ID and the errors of a rule do not depend on the order of its IEs; update and creation make the same of the same IEs. |
| `KernelOwnID` | A rule that `Sess` records was made under that ID and can be removed by it; only an update of a FAR empties queues, once, those of its own FAR, or of FAR 0 if the Apply Action comes before the ID. |
| `FlowDescAccepted` | Of the sentences of the grammar the parser refuses those with `deny` or `assigned`, gives every other one its own networks and ports, and accepts nothing that does not begin with one of these; `convertSlice` panics for two or more ranges on a side, writes behind a range that is a single number, and does neither otherwise. |
| `ConfigStarts` | A configuration that passes the validation makes a driver or an error, never a panic, whatever the system answers; the process ends only when the P4 driver cannot dial the switch; when all goes well the driver is the one it names. |
| `SwitchEntriesRight` | A packet of a PDR goes through parser, interface lookup and match to the entry of the PDR, which has its session, FAR and decapsulation, exactly if the port ranges let it; a packet of another tunnel or UE does not; a PDR of interface 1 takes no packet at all. What the switch then does with a FAR: it drops and notifies as the FAR says, uses no tunnel if the FAR names one, and a tunnel of TEID 1 to the configured base station if it names none. |
| `SwitchForwardsWhole` | What the switch puts into a tunnel is read at the other end as the same packet, under the FAR's TEID, with right lengths; what it takes out of a tunnel leaves as the packet inside, by the route of its own destination; a packet without PDR keeps its headers, and so does one of the control plane in which the parser finds no inner header. |
| `SwitchObeysFar` | FARs that drop, buffer and notify in any combination. |
| `RequestsAnswered` | Supported and complete requests are answered in kind, except exactly those that end the process; nothing else is answered; the lists of message types agree. |
| `MessagesRead` | A receiver reads from a GTP-U message, or from a packet that leaves a queue, what was put into it. |

Some of these have conditions, which are part of the statement: IEs of a PDR in
the order of TS 29.244, an Apply Action before the Forwarding Parameters, UE
pools of 24 bits or more, QFIs of four bits, an N-PDU number only beside a
sequence number, a TTL that does not expire, no tunnel around a tunnel, G-PDUs
without a bare sequence number or a second extension. Outside of them the property fails; each case is
in the list of hazards of `PROJECT.json`.

Runs that end in a violation. Each states what a comment of the code says, and
the code does otherwise:

| run | configuration | the comment | the behaviour |
| --- | --- | --- | --- |
| `seid_zero` | `SessionSeid0.cfg` | `session.go:328`: "no this session on remote; delete it on local" | `RemoteSess` dereferences the nil slot of a deleted session and the process ends. |
| `establish_urr` | `SessionURR.cfg` | `session.go:49`: rules of every kind are created for the session | `NewSess` makes no map for URRs and BARs; the first one panics. |
| `rules_switch_leftovers` | `RulesSwitch.cfg` | `node.go:35`: `Close` deletes all PFCP rules of the session | `RemoveFAR` and `RemovePDR` of the P4 driver do nothing. |
| `buffer_contents` | `BuffContents.cfg` | `node.go:238`: p is the contents of the packet of that PDR | `Serve` reads the next datagram into the buffer that the report on `srCh` is a slice of: what `Push` copies may be another packet, or parts of two. |

### Bounds, and why they are enough

* **SessionTable**: two Node IDs (an SMF and another that takes over), three
  slots (two sessions to compare and one between them, so that nil slots occur
  below, between and above live ones and the stack has up to three elements),
  three node references (each Node ID can have a node while one overwritten
  object lives on), two remote SEIDs (the same one for two sessions, or not),
  one pending report. `NodeRef` and `RSeid` are symmetric: no operator orders
  them or picks one with CHOOSE. `ServiceSpec` is checked without symmetry.
* **RxTransactions**: two requests and two keys; RetransTimeout 2 and MaxRetrans
  2 give a timer of 6 ticks against a window of 4 and a delay of 1, the greatest
  delay `WindowFits` allows; with a timer one RetransTimeout shorter a request is
  executed twice. For MaxRetrans 255 the timer is 0 and `WindowFits` false
  (`NoWindowAt255`): at-most-once is claimed for smaller values only. `KeysDiffer` holds here: an SMF that restarts and counts from
  the start again within the life of a transaction is outside these properties,
  and would get the answer of its older request.
  A channel of one place makes goroutines wait.
* **TxTransactions**: three requests over a channel of two, two
  retransmissions. `SeqMod` is 8 for 2^32; `WireMod` is 4 for 2^24, more than
  the requests, so that `WireFits` holds. Sending stops at `MaxReq`: the system
  may stop, so deadlock is not checked.
* **SessionRules**: two SEIDs, so that an SEID is used again while another is
  in use (symmetric: nothing orders them); one rule of each kind, the PDR refers
  to the FAR. A request names at most `MaxOps` rules, three, so that all kinds
  meet in one request and a rule is created, updated and removed by the same
  request. One content in `rules`, where the properties are about the presence
  of rules; two in `rules_switch_leftovers`, where PDRs may match different
  packets.
* **BuffReport**: one SEID, opened and closed again, two PDRs of its FAR, three
  datagrams, `srCh` of one place and queues of two: the server waits on a full
  channel, a queue is full, reports wait over the end of a session, and a drain
  comes between any two of them. Three actions: drop, forward, buffer with
  notification.
* **Shutdown**: `rcvCh` of two places (a packet before the end-of-work mark),
  `srCh` and `trToCh` of one, so that senders wait; two timers. The process
  ends, so deadlock is not checked.
* **MCTranslation**: rules of up to `MaxIEs` = 4 IEs in any order, each type
  once, at most one unreadable; flow descriptions of up to nine words, wrong
  words at each of the first five places; addresses of two and three bits
  (`MCBits`), in which every prefix length occurs; payloads of up to `MaxBytes`
  = 3; configurations with each section missing, pools that cannot be read, and every
  failure of the system; SEIDs cut at 16 with a session above it; for the switch one session
  with a PDR for each direction and one FAR, every combination of flags, and
  packets with and without tunnel, options, container, a further extension,
  ports, a tunnel to port 9875, and TTLs of 0 to 2.
* Every bound (`MaxSess`, `MaxReq`, `MaxOps`, `MaxPkt`, `MaxTimers`,
  `PeerWindow`, `MaxDelay`, `MaxIEs`, `MaxBytes`) is a CONSTANT. The theorems
  hold for every value of them, of `MaxBytes` up to 65491: a packet leaves room
  in its datagram for the headers of a tunnel (`BytesAssumption`).

### Fairness, and why the code justifies it

* `RxTransactions`: weak fairness of `Tick` (time passes), `Expire` (a copy
  arrives or is lost), `Fire` (the goroutine of an expired timer runs and its
  blocked send completes once there is room) and `HandleTimeout` (main's select
  chooses at random among its ready cases, and no handler waits for anything
  but the driver).
* `TxTransactions`: weak fairness of `Fire` and `Notify` for every number, and
  of `HandleTimeout`. Nothing is assumed of responses: they may never come.
* `BuffReport`: weak fairness of the steps of `Serve` (its goroutine runs, and a
  blocked send completes once there is room) and of `UpdateFAREnd` (the kernel
  answers); strong fairness of `ServeReport`, because main's select chooses at
  random, so a report that waits is taken even if requests never stop.
* `Shutdown`: weak fairness of every goroutine that can go on: `ReturnError`,
  `WaitRoutineStopped`, the steps of `listenShutdownEvent`, the mux, the end and
  the send of the buff server, the receiver, and main. Nothing is assumed of
  signals, datagrams, timers and failures.

## 5. What is proved

The proofs hold for every value of the constants that satisfies the named
assumptions of the modules. No theorem uses the small instances of TLC.

**`SessionTableProofs`** proves `TypeCorrect`, `FreeListCorrect`,
`OwnershipCorrect` and `RegistryCorrect` (together `NodesCorrect`), for any
number of SMFs, slots, references and takeovers. The inductive invariant is the
conjunction of the four. None is inductive alone: `RemoteNode.DeleteSess` pushes an SEID
because the node lists it, so the stack stays exact only if the node's list is
right (`OwnershipAgrees`); the list is emptied in `Reset` for a node found
through `rnodes`. `NewSessLemma` and `DeleteSessLemma` say what the two
operations on slots and stack do, the second for every order in which `Reset`
may range over its map; then there is one lemma per handler.

The module goes on with `SlotsAreStable`, with `EndsOwnCorrect` about
`SessionHistory`, whose invariant says that what a waiting report carries is still
what its session has (`ReportsKnowTheirSession`), and, without takeovers, `ReachableCorrect` and
`ServiceImplemented`: the tables implement `PfcpService` under the mapping that
reads the SMF of a session from its node. Each handler maps to a step of the
service or to a stuttering step (a report, its end, a restart, a modification). With takeovers
the last two do not hold: a takeover of one session moves all sessions of its
node, and may leave others out of reach.

**`RxTransactionsProofs`** proves `TypeCorrect` and `TimeoutsDue` without
assumptions, together, because `Fire` and `HandleTimeout` write transactions
whose existence only the second gives. `HandledOnFalse` needs `KeysDiffer`: the
peer does not start its sequence numbers over; its invariant says that a kept
answer lies under the key of an executed request. `ExecutedAtMostOnce` needs
`WindowFits` as well: the peer's window and the greatest delay together end
before the timer of the transaction, computed in eight bits as the code does. Its invariant says that the transaction of
an executed request outlives every copy on its way (`CopiesCovered`) and every
copy the peer may still send (`WindowCovered`).

**`TxTransactionsProofs`** proves `TypeCorrect`, `OneTimerCorrect`,
`RetransCorrect` and `OneEndCorrect` (together `EndsOnceCorrect`) and
`QuietAfterEndCorrect`, and, from
`WireFits` (no more requests than numbers of three bytes), `AnswersMatch`. The
invariant is stated key by key: what the transaction of a number, its timer, its
goroutine and its place on the channel have to do with each other (`KeyOK`);
beside it what is known of ended requests (`EndsOK`) and of the copies
(`CopiesOK`).

**`SessionRulesProofs`** proves `TypeCorrect` and, for either driver,
`FarBeforePdrCorrect`; for the kernel driver `RecordedCorrect` for calls that fail
at any moment, `InstalledCorrect` and `NoLeftoversCorrect` (together
`NothingUnrecordedCorrect`). For the last the
invariant `Exact` says that, until a call fails without need, records and kernel
agree for every open session, that a free SEID has no entry, and that a running
deletion has a removal left for every rule that is still recorded. Three lemmas
(`CreateEffect`, `UpdateEffect`, `RemoveEffect`) reduce a driver call to its
effect on the set of installed rules. `FarBeforePdr` needs an invariant about
calls still to be made (`FarAhead`): a PDR that waits for its creation has its
FAR installed, or a creation of the FAR waits too, which `Before` takes first;
and a FAR that an open session's PDRs refer to stays until they are gone
(`FarsInstalled`).

**`BuffReportProofs`** proves `TypeCorrect`, `DrainCorrect` and `OrderCorrect`, for
any number of sessions, PDRs and datagrams and channels and queues of any length. Datagrams are numbered as the
kernel sends them; the invariant relates numbers in the queues and numbers that
have left to `mark`, what had been served at the last drain: what has left is
not above the mark, what is queued is above it and not above `got`. From the two
follows the order.

**`ShutdownProofs`** proves `TypeCorrect`, `ExitCorrect`, `ReceiverCorrect` and
`TimersCorrect` (together `ClosedCorrect`), for channels of any length and any number of timers. The key of
the invariant is `WgExact`: the wait group's counter is the number of counted
goroutines that run, so `Wait` returns only when none does and the counter never
goes below zero. `StartedInOrder` and `ClosedInOrder` say which goroutines and
channels there are at each place of `Run` and `main`; `LastIsLast` that the
receiver's last packet is the end-of-work mark.

**`EncodingProofs`** is about what goes out byte by byte or attribute by
attribute.

* *GTP-U*, for every message, with any number of extension headers and any
  payload. Where its bytes are: `LengthRight`, `ExtensionWhole`, `EndMarked`,
  `PayloadWhole`; the lemmas say that the fields lie one behind the other and
  apart. What a receiver makes of them: `ReadAsMade`, `EncodedIsRead` and, from
  queue to peer, `QueuedArrives`. `LengthSaid` and `QueuedFits`, which they
  assume, say that the two bytes of the length field suffice.
* *Rules of the kernel*, for lists of any number of IEs with any values:
  `UpdatesLikeCreates`, `OrdersIrrelevant` (any permutation of a list that names
  no IE twice), `RecordsAsMade`, `DrainsOwn`.
* *Flow descriptions*, for any number of words over any contents: `FlowsParsed`
  (which sentences of the grammar are parsed, and as what) and `OneRangeSafe`. Of the powers of two they need that they are positive and
  that the first is 1.

**`TranslationProofs`** is about the rest of the translations, first for all
inputs, then for those the behaviours of `MCTranslation` reach, which gives a
theorem `Spec => []P` for each property of the run.

* *PFCP*: `AllAnsweredInKind`, for any message type and any of its IEs missing,
  wrong, or such that the handler panics.
* *Configuration*: `EveryFileStarts`, for any file, read or not, and any
  answers of the system.
* *Packets in the switch*, whatever its tables hold: `FarsObeyed`,
  `TunnelsWhole`, `DecapsulatesWhole`, `OthersWhole`, for headers in the order in
  which a network sends them (`Framed`). Three assume what the code needs and
  does not check: the tunnelled packet leaves room for its length (`Fits`), the
  routes of a destination agree on the port, no FAR has session 0.
* *Entries of the switch*, for any configuration, any session and any number of
  IEs: `PacketsFindRules`, `OthersMissed`, `StrangersMissed`, `FarsAsSaid` (what the
  switch does with a FAR, right or wrong). They assume types only: addresses are
  of four bytes or absent, an Apply Action has four bits.
* *The run*: `RequestsAnsweredAlways`, `ConfigStartsAlways`, `KernelRuleAlways`,
  `KernelOwnIDAlways`, `SwitchObeysFarAlways`, `SwitchForwardsWholeAlways`,
  `SwitchEntriesAlways`, `MessagesReadAlways`, `FlowDescAcceptedAlways`. Each
  needs an invariant that says what kind of list `parts` is.

The loops over IEs, words and headers are recursive functions of a position.
What they compute is proved by induction in the form of a set: `UpTo` says that
a set of positions that holds 0, and with each position the next, holds all of
them (from the least element of what is left out), and each loop has its set of
positions at which its invariant holds. These invariants are what
a reader of the loops should know. While a PDR's IEs are read, nothing but its
own ID is known before its PDI; the PDI fixes key, direction and action, and
after it each IE adds what it names to the data of that direction. While a FAR's
are read, a tunnel is there once its parameters were, with the flags of the
Apply Action if that came before them. The attributes of a kernel rule are the IEs seen so far, mapped one
by one, so that only which of them were seen matters. A receiver's walk is at
the first byte of extension k after k steps.

The proofs were a check of the models as well: they found alternatives of CASEs
that overlapped, so that a definition left open which of them it took. They
exclude each other now.

**Only model-checked**: `AnsweredIsDeleted`, `SentEnds`, `ReportsServed` and
`StopEnds`, since liveness under fairness is out of the prover's reach. The four
runs that end in a violation have counterexamples and nothing to prove. Every
other property of a run is stated by a theorem.

## 6. What is not modelled

* What the agent behind gRPC makes of the driver's entries, in particular of an
  action name that does not go with its parameters (`p4gtp5g.go:700`): it is not
  in this repository. `FarDoesWhatItSays` lets the switch run the action the
  driver names; the other properties of `P4Pipeline` take FARs with either.
* In the switch program the ACL table, which nothing fills, counters, checksums,
  the protocol, which every entry leaves open, the clone's way to the control
  plane, and packets that are not IPv4.
* Which value of the process is overwritten where `convertSlice` writes behind
  its range: `FlowDesc` only says for which descriptions it does.
* The netlink encoding and the kernel module behind it: `SessionRules` and
  `BuffReport` model them from what `gtp5g.go` expects of their answers.
* Requests with missing mandatory IEs inside a rule are in `Gtp5gRules`
  (`KernelOwnID`) and not in `SessionRules`, where every rule has its ID.
* Association release and update, which have no handler.
* Two transactions of the UPF to different peers: the key holds the address, so
  they share nothing but the places of `trToCh`.
* Of a driver's `Close` what nobody reads afterwards (the netlink link, the gRPC
  connection).
* Reading of YAML, logging, generated code, code nothing calls (`nonsense`,
  `grpcClient.go`, `testtools`), and the empty driver, which only a test makes.
