------------------------------ MODULE Shutdown ------------------------------
(***************************************************************************)
(* Start and end of the process: UPF.Run, listenShutdownEvent, the PFCP    *)
(* server's main and receiver, the buff server and the netlink mux, which  *)
(* a wait group counts, and the goroutines of expired timers, which nobody *)
(* counts.  What main does with a request is left to SessionTable and the  *)
(* transaction modules: here a request may start or stop a timer.          *)
(*                                                                         *)
(* A send on a closed channel panics.  main and the receiver recover and   *)
(* end the process by Fatalf; the buff server and the timers do not.       *)
(***************************************************************************)
EXTENDS Naturals, Sequences

CONSTANTS
  RcvLen,   \* RECEIVE_CHANNEL_LEN
  SrLen,    \* REPORT_CHANNEL_LEN
  ToLen,    \* TRANS_TIMEOUT_CHANNEL_LEN
  MaxTimers \* bound: timers at a time, running, fired or on trToCh

VARIABLES
  kernel,    \* which driver the configuration names: gtp5g, or p4gtp5g
  run,       \* where UPF.Run is
  lse, main, rcv, buff, mux, \* where the counted goroutines are
  wg,        \* the wait group's counter
  cancelled, \* ctx is done
  conn,      \* PfcpServer.conn: "nil", "open" or "closed"
  muxOpen, bsOpen, \* what Gtp5g.Close and P4Gtp5g.Close close
  handler,   \* buff.Server.handler is set
  rcvCh,     \* the packets on rcvCh: Full, or Empty
  sr, to,    \* how many reports are on srCh, timeouts on trToCh
  closed,    \* the channels main has closed
  timers,    \* running timers
  firing,    \* goroutines of expired timers that have not sent
  emptied,   \* history: a datagram without content was received
  halt       \* "no", or how the process ended: "exit", "fatal", "panic"

ctl   == <<run, lse, main, rcv, buff, mux>>
files == <<cancelled, conn, muxOpen, bsOpen, handler>>
chans == <<rcvCh, sr, to, closed>>
vars  == <<kernel, ctl, wg, files, chans, timers, firing, emptied, halt>>

Full  == 1
Empty == 0
CH    == {"rcvCh", "srCh", "trToCh"}

ASSUME LenAssumption == {RcvLen, SrLen, ToLen} \subseteq Nat \ {0} /\ MaxTimers \in Nat

TypeOK ==
  /\ kernel \in BOOLEAN
  /\ run \in {"mux", "link", "buff", "route", "server", "start", "running",
              "stopping", "failed", "done"}
  /\ lse \in {"waiting", "mux", "buff", "ended"}
  /\ main \in {"none", "opening", "serving", "stopTimers", "closeRcv", "closeSr",
               "closeTo", "ended"}
  /\ rcv \in {"none", "reading", "full", "empty", "error", "leaving", "ended"}
  /\ buff \in {"none", "reading", "sending", "ended"}
  /\ mux \in {"none", "serving", "ended"}
  /\ wg \in Nat
  /\ cancelled \in BOOLEAN /\ conn \in {"nil", "open", "closed"}
  /\ muxOpen \in BOOLEAN /\ bsOpen \in BOOLEAN /\ handler \in BOOLEAN
  /\ rcvCh \in Seq({Full, Empty}) /\ Len(rcvCh) <= RcvLen
  /\ sr \in 0..SrLen /\ to \in 0..ToLen
  /\ closed \subseteq CH
  /\ timers \in Nat /\ firing \in Nat
  /\ emptied \in BOOLEAN
  /\ halt \in {"no", "exit", "fatal", "panic"}

(* UPF.Run after wg.Add(1) and go listenShutdownEvent.                     *)
Init ==
  /\ kernel \in BOOLEAN
  /\ run = IF kernel THEN "mux" ELSE "buff"
  /\ lse = "waiting" /\ wg = 1
  /\ main = "none" /\ rcv = "none" /\ buff = "none" /\ mux = "none"
  /\ cancelled = FALSE /\ conn = "nil"
  /\ muxOpen = FALSE /\ bsOpen = FALSE /\ handler = FALSE
  /\ rcvCh = <<>> /\ sr = 0 /\ to = 0 /\ closed = {}
  /\ timers = 0 /\ firing = 0
  /\ emptied = FALSE
  /\ halt = "no"

Alive == halt = "no"

-----------------------------------------------------------------------------
(* UPF.Run.                                                                *)

(* OpenGtp5g: the mux and its goroutine.                                   *)
OpenMux ==
  /\ Alive /\ run = "mux"
  /\ run' = "link"
  /\ mux' = "serving" /\ muxOpen' = TRUE
  /\ wg' = wg + 1
  /\ UNCHANGED <<kernel, lse, main, rcv, buff, cancelled, conn, bsOpen, handler,
                 chans, timers, firing, emptied, halt>>

(* OpenGtp5gLink, the netlink connection and its client.                   *)
OpenLink ==
  /\ Alive /\ run = "link"
  /\ run' = "buff"
  /\ UNCHANGED <<kernel, lse, main, rcv, buff, mux, wg, files, chans, timers,
                 firing, emptied, halt>>

(* buff.OpenServer, called by OpenGtp5g or OpenP4Gtp5g.                    *)
OpenServer ==
  /\ Alive /\ run = "buff"
  /\ run' = IF kernel THEN "route" ELSE "server"
  /\ buff' = "reading" /\ bsOpen' = TRUE
  /\ wg' = wg + 1
  /\ UNCHANGED <<kernel, lse, main, rcv, mux, cancelled, conn, muxOpen, handler,
                 chans, timers, firing, emptied, halt>>

(* NewDriver adds the route of the first data network it can parse.        *)
RouteAdd ==
  /\ Alive /\ run = "route"
  /\ run' = "server"
  /\ UNCHANGED <<kernel, lse, main, rcv, buff, mux, wg, files, chans, timers,
                 firing, emptied, halt>>

(* NewDriver fails at any of these points and closes what is open; Run     *)
(* returns, and its deferred cancel wakes up listenShutdownEvent.          *)
DriverFails ==
  /\ Alive /\ run \in {"mux", "link", "buff", "route"}
  /\ run' = "failed"
  /\ muxOpen' = FALSE /\ bsOpen' = FALSE
  /\ cancelled' = TRUE
  /\ UNCHANGED <<kernel, lse, main, rcv, buff, mux, wg, conn, handler, chans,
                 timers, firing, emptied, halt>>

(* The error goes up to the command line, and main.main returns.           *)
ReturnError ==
  /\ Alive /\ run = "failed"
  /\ run' = "done"
  /\ halt' = "exit"
  /\ UNCHANGED <<kernel, lse, main, rcv, buff, mux, wg, files, chans, timers,
                 firing, emptied>>

(* NewPfcpServer and HandleReport.                                         *)
HandleReport ==
  /\ Alive /\ run = "server"
  /\ run' = "start"
  /\ handler' = TRUE
  /\ UNCHANGED <<kernel, lse, main, rcv, buff, mux, wg, cancelled, conn, muxOpen,
                 bsOpen, chans, timers, firing, emptied, halt>>

(* PfcpServer.Start.                                                       *)
StartServer ==
  /\ Alive /\ run = "start"
  /\ run' = "running"
  /\ main' = "opening"
  /\ wg' = wg + 1
  /\ UNCHANGED <<kernel, lse, rcv, buff, mux, files, chans, timers, firing,
                 emptied, halt>>

(* An interrupt, which Run waits for, and cancel.                          *)
Signal ==
  /\ Alive /\ run = "running"
  /\ run' = "stopping"
  /\ cancelled' = TRUE
  /\ UNCHANGED <<kernel, lse, main, rcv, buff, mux, wg, conn, muxOpen, bsOpen,
                 handler, chans, timers, firing, emptied, halt>>

(* Mutant: Run does not wait for the goroutines.                           *)
ExitUnwaited ==
  /\ Alive /\ run = "stopping"
  /\ run' = "done"
  /\ halt' = "exit"
  /\ UNCHANGED <<kernel, lse, main, rcv, buff, mux, wg, files, chans, timers,
                 firing, emptied>>

(* WaitRoutineStopped returns, and with it the process ends.               *)
WaitRoutineStopped ==
  /\ Alive /\ run = "stopping" /\ wg = 0
  /\ run' = "done"
  /\ halt' = "exit"
  /\ UNCHANGED <<kernel, lse, main, rcv, buff, mux, wg, files, chans, timers,
                 firing, emptied>>

-----------------------------------------------------------------------------
(* listenShutdownEvent.                                                    *)

(* Mutant: Stop leaves the connection to the driver.                       *)
StopLeavesConn ==
  /\ Alive /\ cancelled /\ lse = "waiting" /\ handler
  /\ lse' = IF kernel THEN "mux" ELSE "buff"
  /\ UNCHANGED <<kernel, run, main, rcv, buff, mux, wg, files, chans, timers, firing,
                 emptied, halt>>

(* PfcpServer.Stop: nothing, if main has no connection yet.                *)
Stop ==
  /\ Alive /\ cancelled /\ lse = "waiting" /\ handler
  /\ lse' = IF kernel THEN "mux" ELSE "buff"
  /\ conn' = IF conn = "open" THEN "closed" ELSE conn
  /\ UNCHANGED <<kernel, run, main, rcv, buff, mux, wg, cancelled, muxOpen, bsOpen,
                 handler, chans, timers, firing, emptied, halt>>

(* Stop without a PfcpServer, which was never made, panics: Fatalf.        *)
StopNothing ==
  /\ Alive /\ cancelled /\ lse = "waiting" /\ ~handler
  /\ halt' = "fatal"
  /\ UNCHANGED <<kernel, ctl, wg, files, chans, timers, firing, emptied>>

(* Gtp5g.Close as far as mux.Close.                                        *)
CloseMux ==
  /\ Alive /\ lse = "mux"
  /\ lse' = "buff"
  /\ muxOpen' = FALSE
  /\ UNCHANGED <<kernel, run, main, rcv, buff, mux, wg, cancelled, conn, bsOpen,
                 handler, chans, timers, firing, emptied, halt>>

(* buff.Server.Close ends either driver's Close, then wg.Done.             *)
CloseServer ==
  /\ Alive /\ lse = "buff"
  /\ lse' = "ended"
  /\ bsOpen' = FALSE
  /\ wg' = wg - 1
  /\ UNCHANGED <<kernel, run, main, rcv, buff, mux, cancelled, conn, muxOpen,
                 handler, chans, timers, firing, emptied, halt>>

-----------------------------------------------------------------------------
(* mux.Serve and buff.Server.Serve.                                        *)
MuxEnds ==
  /\ Alive /\ mux = "serving" /\ ~muxOpen
  /\ mux' = "ended"
  /\ wg' = wg - 1
  /\ UNCHANGED <<kernel, run, lse, main, rcv, buff, files, chans, timers, firing,
                 emptied, halt>>

(* A datagram of the kernel, skipped while there is no handler.            *)
ServeReads ==
  /\ Alive /\ buff = "reading" /\ bsOpen /\ handler
  /\ buff' = "sending"
  /\ UNCHANGED <<kernel, run, lse, main, rcv, mux, wg, files, chans, timers, firing,
                 emptied, halt>>

(* Mutant: a send that does not wait.                                      *)
NotifyWithoutRoom ==
  /\ Alive /\ buff = "sending"
  /\ sr' = sr + 1 /\ buff' = "reading"
  /\ UNCHANGED <<kernel, run, lse, main, rcv, mux, wg, files, rcvCh, to, closed,
                 timers, firing, emptied, halt>>

(* The send of a report; main may have closed srCh.                        *)
NotifySessReport ==
  /\ Alive /\ buff = "sending"
  /\ IF "srCh" \in closed
     THEN halt' = "panic" /\ UNCHANGED <<buff, sr>>
     ELSE sr < SrLen /\ sr' = sr + 1 /\ buff' = "reading" /\ halt' = halt
  /\ UNCHANGED <<kernel, run, lse, main, rcv, mux, wg, files, rcvCh, to, closed,
                 timers, firing, emptied>>

ServeEnds ==
  /\ Alive /\ buff = "reading" /\ ~bsOpen
  /\ buff' = "ended"
  /\ wg' = wg - 1
  /\ UNCHANGED <<kernel, run, lse, main, rcv, mux, files, chans, timers, firing,
                 emptied, halt>>

-----------------------------------------------------------------------------
(* PfcpServer.receiver.                                                    *)
ReceiverReads ==
  /\ Alive /\ rcv = "reading" /\ conn = "open"
  /\ rcv' \in {"full", "empty"}
  /\ emptied' = (emptied \/ rcv' = "empty")
  /\ UNCHANGED <<kernel, run, lse, main, buff, mux, wg, files, chans, timers, firing,
                 halt>>

(* ReadFrom fails, as it must once the connection is closed.               *)
ReceiverError ==
  /\ Alive /\ rcv = "reading"
  /\ rcv' = "error"
  /\ UNCHANGED <<kernel, run, lse, main, buff, mux, wg, files, chans, timers, firing,
                 emptied, halt>>

(* Mutant: after an error the receiver reads on.                           *)
ReceiverSendsOn ==
  /\ Alive /\ rcv \in {"full", "empty", "error"}
  /\ IF "rcvCh" \in closed
     THEN halt' = "fatal" /\ UNCHANGED <<rcv, rcvCh>>
     ELSE /\ Len(rcvCh) < RcvLen
          /\ rcvCh' = Append(rcvCh, IF rcv = "full" THEN Full ELSE Empty)
          /\ rcv' = "reading"
          /\ halt' = halt
  /\ UNCHANGED <<kernel, run, lse, main, buff, mux, wg, files, sr, to, closed, timers,
                 firing, emptied>>

(* The send: an error is an empty packet, and the last one.                *)
ReceiverSends ==
  /\ Alive /\ rcv \in {"full", "empty", "error"}
  /\ IF "rcvCh" \in closed
     THEN halt' = "fatal" /\ UNCHANGED <<rcv, rcvCh>>
     ELSE /\ Len(rcvCh) < RcvLen
          /\ rcvCh' = Append(rcvCh, IF rcv = "full" THEN Full ELSE Empty)
          /\ rcv' = IF rcv = "error" THEN "leaving" ELSE "reading"
          /\ halt' = halt
  /\ UNCHANGED <<kernel, run, lse, main, buff, mux, wg, files, sr, to, closed, timers,
                 firing, emptied>>

ReceiverEnds ==
  /\ Alive /\ rcv = "leaving"
  /\ rcv' = "ended"
  /\ wg' = wg - 1
  /\ UNCHANGED <<kernel, run, lse, main, buff, mux, files, chans, timers, firing,
                 emptied, halt>>

-----------------------------------------------------------------------------
(* PfcpServer.main.                                                        *)

(* The address does not resolve, or cannot be bound.                       *)
ListenFails ==
  /\ Alive /\ main = "opening"
  /\ main' = "stopTimers"
  /\ UNCHANGED <<kernel, run, lse, rcv, buff, mux, wg, files, chans, timers, firing,
                 emptied, halt>>

(* The connection and its receiver.  Stop reads s.conn without a lock; it  *)
(* is one load, which sees the last store.                                 *)
Listen ==
  /\ Alive /\ main = "opening"
  /\ main' = "serving"
  /\ conn' = "open"
  /\ rcv' = "reading"
  /\ wg' = wg + 1
  /\ UNCHANGED <<kernel, run, lse, buff, mux, cancelled, muxOpen, bsOpen, handler,
                 chans, timers, firing, emptied, halt>>

(* A handler starts a timer, stops one, or neither.                        *)
HandlerTimers ==
  timers' \in {timers} \union (IF timers + firing + to < MaxTimers THEN {timers + 1} ELSE {})
                \union (IF timers > 0 THEN {timers - 1} ELSE {})

MainReport ==
  /\ Alive /\ main = "serving" /\ sr > 0
  /\ sr' = sr - 1
  /\ HandlerTimers
  /\ UNCHANGED <<kernel, ctl, wg, files, rcvCh, to, closed, firing, emptied, halt>>

MainPacket ==
  /\ Alive /\ main = "serving" /\ rcvCh # <<>>
  /\ rcvCh' = Tail(rcvCh)
  /\ IF Head(rcvCh) = Empty
     THEN main' = "stopTimers" /\ timers' = timers
     ELSE main' = main /\ HandlerTimers
  /\ UNCHANGED <<kernel, run, lse, rcv, buff, mux, wg, files, sr, to, closed, firing,
                 emptied, halt>>

(* P4Gtp5g.Close, which runs beside main, has set the driver's client to   *)
(* nil, and a handler that creates a FAR or a PDR calls it.                *)
NoClient ==
  /\ Alive /\ main = "serving" /\ rcvCh # <<>> /\ Head(rcvCh) = Full
  /\ ~kernel /\ lse \in {"buff", "ended"}
  /\ halt' = "fatal"
  /\ UNCHANGED <<kernel, ctl, wg, files, chans, timers, firing, emptied>>

MainTimeout ==
  /\ Alive /\ main = "serving" /\ to > 0
  /\ to' = to - 1
  /\ timers' \in {timers, timers + 1}
  /\ UNCHANGED <<kernel, ctl, wg, files, rcvCh, sr, closed, firing, emptied, halt>>

(* The deferred function: stopTrTimers, three closes, wg.Done.             *)
StopTrTimers ==
  /\ Alive /\ main = "stopTimers"
  /\ main' = "closeRcv"
  /\ timers' = 0
  /\ UNCHANGED <<kernel, run, lse, rcv, buff, mux, wg, files, chans, firing, emptied,
                 halt>>

MainCloses(pc, ch, next) ==
  /\ Alive /\ main = pc
  /\ main' = next
  /\ closed' = closed \union {ch}
  /\ wg' = IF next = "ended" THEN wg - 1 ELSE wg
  /\ UNCHANGED <<kernel, run, lse, rcv, buff, mux, files, rcvCh, sr, to, timers, firing,
                 emptied, halt>>

MainEnds ==
  \/ MainCloses("closeRcv", "rcvCh", "closeSr")
  \/ MainCloses("closeSr", "srCh", "closeTo")
  \/ MainCloses("closeTo", "trToCh", "ended")

(* A timer expires, and its goroutine sends (NotifyTransTimeout).          *)
Expire ==
  /\ Alive /\ timers > 0
  /\ timers' = timers - 1 /\ firing' = firing + 1
  /\ UNCHANGED <<kernel, ctl, wg, files, chans, emptied, halt>>

NotifyTransTimeout ==
  /\ Alive /\ firing > 0
  /\ IF "trToCh" \in closed
     THEN halt' = "panic" /\ UNCHANGED <<firing, to>>
     ELSE to < ToLen /\ to' = to + 1 /\ firing' = firing - 1 /\ halt' = halt
  /\ UNCHANGED <<kernel, ctl, wg, files, rcvCh, sr, closed, timers, emptied>>

-----------------------------------------------------------------------------
RunNext ==
  \/ OpenMux \/ OpenLink \/ OpenServer \/ RouteAdd \/ DriverFails \/ ReturnError
  \/ HandleReport \/ StartServer \/ Signal \/ WaitRoutineStopped
LseNext  == Stop \/ StopNothing \/ CloseMux \/ CloseServer
BuffNext == ServeReads \/ NotifySessReport \/ ServeEnds
RcvNext  == ReceiverReads \/ ReceiverError \/ ReceiverSends \/ ReceiverEnds
MainNext ==
  \/ ListenFails \/ Listen \/ MainReport \/ MainPacket \/ NoClient \/ MainTimeout
  \/ StopTrTimers \/ MainEnds

Next == RunNext \/ LseNext \/ MuxEnds \/ BuffNext \/ RcvNext \/ MainNext \/ Expire \/ NotifyTransTimeout

(* Every goroutine that can go on does; nothing is assumed of signals,     *)
(* datagrams and failures.  main's select picks at random, so it does not  *)
(* leave a packet for ever.                                                *)
Fairness ==
  /\ WF_vars(ReturnError) /\ WF_vars(WaitRoutineStopped)
  /\ WF_vars(LseNext) /\ WF_vars(MuxEnds)
  /\ WF_vars(NotifySessReport) /\ WF_vars(ServeEnds)
  /\ WF_vars(RcvNext) /\ WF_vars(MainReport) /\ WF_vars(MainPacket)
  /\ WF_vars(ListenFails \/ Listen) /\ WF_vars(StopTrTimers \/ MainEnds)

Spec == Init /\ [][Next]_vars /\ Fairness

-----------------------------------------------------------------------------
Stopped == lse = "ended" /\ main = "ended" /\ rcv \in {"none", "ended"}
             /\ buff = "ended" /\ mux \in {"none", "ended"}

(* app.go:83: Run exits only when every goroutine it started has ended,    *)
(* those that were started by main or by the driver included.              *)
ExitMeansStopped == halt = "exit" /\ handler => Stopped

(* pfcp.go:89: main closes rcvCh only after the receiver's last send, so   *)
(* the receiver never panics; unless a datagram without content ended main *)
(* (pfcp.go:118).                                                          *)
ReceiverSafe ==
  "rcvCh" \in closed /\ ~emptied => rcv \in {"none", "leaving", "ended"}

(* pfcp.go:290: no timer expires once trToCh is closed.  (One that expired *)
(* before may still send, and panic.)                                      *)
NoTimerLeft == "trToCh" \in closed => timers = 0

(* What main closes has been left by the receiver and by all timers that   *)
(* have not expired yet.                                                   *)
ClosedWhenLeft == ReceiverSafe /\ NoTimerLeft

(* app.go:105: a shutdown that comes when the connection is open, or after *)
(* the driver failed, ends the process.  One that comes between Start and  *)
(* Listen is lost.                                                         *)
StopEnds ==
  (cancelled /\ lse = "waiting" /\ (conn = "open" \/ run = "failed")) ~> halt # "no"
=============================================================================
