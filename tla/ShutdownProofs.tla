--------------------------- MODULE ShutdownProofs ---------------------------
(***************************************************************************)
(* Proofs about Shutdown, for channels of every length and every number of *)
(* timers.                                                                 *)
(***************************************************************************)
EXTENDS Shutdown, TLAPS

(* The parts of the type invariant: places of the goroutines, connections, *)
(* and what is on the channels.                                            *)
PlacesOK ==
  /\ run \in {"mux", "link", "buff", "route", "server", "start", "running",
              "stopping", "failed", "done"}
  /\ lse \in {"waiting", "mux", "buff", "ended"}
  /\ main \in {"none", "opening", "serving", "stopTimers", "closeRcv", "closeSr",
               "closeTo", "ended"}
  /\ rcv \in {"none", "reading", "full", "empty", "error", "leaving", "ended"}
  /\ buff \in {"none", "reading", "sending", "ended"}
  /\ mux \in {"none", "serving", "ended"}
FilesOK ==
  /\ kernel \in BOOLEAN /\ cancelled \in BOOLEAN /\ conn \in {"nil", "open", "closed"}
  /\ muxOpen \in BOOLEAN /\ bsOpen \in BOOLEAN /\ handler \in BOOLEAN
  /\ emptied \in BOOLEAN /\ halt \in {"no", "exit", "fatal", "panic"}
RcvChOK == rcvCh \in Seq({Full, Empty}) /\ Len(rcvCh) <= RcvLen
CountersOK ==
  /\ sr \in 0..SrLen /\ to \in 0..ToLen
  /\ timers \in Nat /\ firing \in Nat
  /\ closed \subseteq CH

(* The wait group counts the goroutines that have started and not ended.   *)
Counts(pc) == IF pc \in {"none", "ended"} THEN 0 ELSE 1
WgExact == wg = Counts(lse) + Counts(main) + Counts(rcv) + Counts(buff) + Counts(mux)

(* What has been started, by the place of Run; the receiver is main's.     *)
StartedInOrder ==
  /\ run = "mux" => mux = "none"
  /\ run \in {"mux", "link", "buff"} => buff = "none"
  /\ run \in {"mux", "link", "buff", "route", "server", "failed"} => ~handler
  /\ run \in {"mux", "link", "buff", "route", "server", "start", "failed"} => main = "none"
  /\ run \in {"route", "server", "start", "running", "stopping"} => buff # "none"
  /\ run \in {"running", "stopping"} => main # "none"
  /\ main \in {"none", "opening"} => rcv = "none" /\ rcvCh = <<>>

(* main closes the channels at its end, one after the other.               *)
ClosedInOrder ==
  /\ "rcvCh" \in closed => main \in {"closeSr", "closeTo", "ended"}
  /\ "trToCh" \in closed => main = "ended"
Ending == {"stopTimers", "closeRcv", "closeSr", "closeTo", "ended"}
TimersStopped == main \in Ending \ {"stopTimers"} => timers = 0

(* Unless a datagram without content came, an empty packet on rcvCh is the *)
(* receiver's last one, and main ends after it.                            *)
LastIsLast ==
  ~emptied =>
    /\ rcv # "empty"
    /\ (\E i \in 1..Len(rcvCh) : rcvCh[i] = Empty) => rcv \in {"leaving", "ended"}
    /\ main \in Ending => rcv \in {"none", "leaving", "ended"}

Inv ==
  /\ PlacesOK /\ FilesOK /\ RcvChOK /\ CountersOK
  /\ WgExact /\ StartedInOrder /\ ClosedInOrder /\ TimersStopped /\ LastIsLast
  /\ ExitMeansStopped

-----------------------------------------------------------------------------
(* Every part holds at the start.                                          *)
LEMMA InvInit == Init => Inv
<1> SUFFICES ASSUME Init PROVE Inv
  OBVIOUS
<1> USE DEF Init
<1>1. PlacesOK /\ FilesOK
  BY DEF PlacesOK, FilesOK
<1>2. RcvChOK /\ CountersOK
  BY LenAssumption DEF RcvChOK, CountersOK
<1>3. WgExact /\ StartedInOrder
  BY DEF WgExact, StartedInOrder, Counts
<1>4. ClosedInOrder /\ TimersStopped /\ LastIsLast /\ ExitMeansStopped
  BY DEF ClosedInOrder, TimersStopped, LastIsLast, ExitMeansStopped, Ending
<1> QED
  BY <1>1, <1>2, <1>3, <1>4 DEF Inv

-----------------------------------------------------------------------------
(* A goroutine is at one of its places.                                    *)
LEMMA PlacesStep == Inv /\ [Next]_vars => PlacesOK'
<1> SUFFICES ASSUME Inv, [Next]_vars PROVE PlacesOK'
  OBVIOUS
<1> USE DEF Inv, PlacesOK, FilesOK, Alive, ctl, files, chans
<1>1. CASE RunNext
  BY <1>1 DEF RunNext, OpenMux, OpenLink, OpenServer, RouteAdd, DriverFails, ReturnError,
      HandleReport, StartServer, Signal, WaitRoutineStopped
<1>2. CASE LseNext
  BY <1>2 DEF LseNext, Stop, StopNothing, CloseMux, CloseServer
<1>3. CASE MuxEnds
  BY <1>3 DEF MuxEnds
<1>4. CASE BuffNext
  BY <1>4 DEF BuffNext, ServeReads, NotifySessReport, ServeEnds
<1>5. CASE RcvNext
  BY <1>5 DEF RcvNext, ReceiverReads, ReceiverError, ReceiverSends, ReceiverEnds
<1>6. CASE MainNext
  BY <1>6 DEF MainNext, ListenFails, Listen, MainReport, MainPacket, NoClient, MainTimeout,
      StopTrTimers, MainEnds, MainCloses, HandlerTimers
<1>7. CASE Expire
  BY <1>7 DEF Expire
<1>8. CASE NotifyTransTimeout
  BY <1>8 DEF NotifyTransTimeout
<1>9. CASE UNCHANGED vars
  BY <1>9 DEF vars
<1> QED
  BY <1>1, <1>2, <1>3, <1>4, <1>5, <1>6, <1>7, <1>8, <1>9 DEF Next

(* Flags and connections.                                                  *)
LEMMA FilesStep == Inv /\ [Next]_vars => FilesOK'
<1> SUFFICES ASSUME Inv, [Next]_vars PROVE FilesOK'
  OBVIOUS
<1> USE DEF Inv, FilesOK, PlacesOK, Alive, ctl, files, chans
<1>1. CASE RunNext
  BY <1>1 DEF RunNext, OpenMux, OpenLink, OpenServer, RouteAdd, DriverFails, ReturnError,
      HandleReport, StartServer, Signal, WaitRoutineStopped
<1>2. CASE LseNext
  BY <1>2 DEF LseNext, Stop, StopNothing, CloseMux, CloseServer
<1>3. CASE MuxEnds
  BY <1>3 DEF MuxEnds
<1>4. CASE BuffNext
  BY <1>4 DEF BuffNext, ServeReads, NotifySessReport, ServeEnds
<1>5. CASE RcvNext
  BY <1>5 DEF RcvNext, ReceiverReads, ReceiverError, ReceiverSends, ReceiverEnds
<1>6. CASE MainNext
  BY <1>6 DEF MainNext, ListenFails, Listen, MainReport, MainPacket, NoClient, MainTimeout,
      StopTrTimers, MainEnds, MainCloses, HandlerTimers
<1>7. CASE Expire
  BY <1>7 DEF Expire
<1>8. CASE NotifyTransTimeout
  BY <1>8 DEF NotifyTransTimeout
<1>9. CASE UNCHANGED vars
  BY <1>9 DEF vars
<1> QED
  BY <1>1, <1>2, <1>3, <1>4, <1>5, <1>6, <1>7, <1>8, <1>9 DEF Next

(* Only the receiver writes to rcvCh, and waits for room.                  *)
LEMMA RcvChStep == Inv /\ [Next]_vars => RcvChOK'
<1> SUFFICES ASSUME Inv, [Next]_vars PROVE RcvChOK'
  OBVIOUS
<1> USE DEF Inv, RcvChOK, Full, Empty, Alive, ctl, files, chans
<1>1. CASE RunNext
  BY <1>1 DEF RunNext, OpenMux, OpenLink, OpenServer, RouteAdd, DriverFails, ReturnError,
      HandleReport, StartServer, Signal, WaitRoutineStopped
<1>2. CASE LseNext
  BY <1>2 DEF LseNext, Stop, StopNothing, CloseMux, CloseServer
<1>3. CASE MuxEnds
  BY <1>3 DEF MuxEnds
<1>4. CASE BuffNext
  BY <1>4 DEF BuffNext, ServeReads, NotifySessReport, ServeEnds
<1>5. CASE RcvNext
  <2> SUFFICES ASSUME ReceiverSends, rcvCh' # rcvCh PROVE RcvChOK'
    BY <1>5 DEF RcvNext, ReceiverReads, ReceiverError, ReceiverEnds
  <2>1. Len(rcvCh) < RcvLen /\ \E b \in {Full, Empty} : rcvCh' = Append(rcvCh, b)
    BY DEF ReceiverSends
  <2> QED
    BY <2>1, LenAssumption
<1>6. CASE MainNext
  <2> SUFFICES ASSUME rcvCh # <<>>, rcvCh' = Tail(rcvCh) PROVE RcvChOK'
    BY <1>6 DEF MainNext, ListenFails, Listen, MainReport, MainPacket, NoClient, MainTimeout,
        StopTrTimers, MainEnds, MainCloses
  <2>1. Len(rcvCh') = Len(rcvCh) - 1 /\ rcvCh' \in Seq({Full, Empty})
    OBVIOUS
  <2> QED
    BY <2>1, LenAssumption
<1>7. CASE Expire
  BY <1>7 DEF Expire
<1>8. CASE NotifyTransTimeout
  BY <1>8 DEF NotifyTransTimeout
<1>9. CASE UNCHANGED vars
  BY <1>9 DEF vars
<1> QED
  BY <1>1, <1>2, <1>3, <1>4, <1>5, <1>6, <1>7, <1>8, <1>9 DEF Next

(* Sends wait for room; handlers stop only timers that run.                *)
LEMMA CountersStep == Inv /\ [Next]_vars => CountersOK'
<1> SUFFICES ASSUME Inv, [Next]_vars PROVE CountersOK'
  OBVIOUS
<1> USE DEF Inv, CountersOK, CH, Alive, ctl, files, chans
<1>1. CASE RunNext
  BY <1>1 DEF RunNext, OpenMux, OpenLink, OpenServer, RouteAdd, DriverFails, ReturnError,
      HandleReport, StartServer, Signal, WaitRoutineStopped
<1>2. CASE LseNext
  BY <1>2 DEF LseNext, Stop, StopNothing, CloseMux, CloseServer
<1>3. CASE MuxEnds
  BY <1>3 DEF MuxEnds
<1>4. CASE BuffNext
  <2>1. closed' = closed /\ to' = to /\ timers' = timers /\ firing' = firing
    BY <1>4 DEF BuffNext, ServeReads, NotifySessReport, ServeEnds
  <2>2. sr' = sr \/ (sr < SrLen /\ sr' = sr + 1)
    BY <1>4 DEF BuffNext, ServeReads, NotifySessReport, ServeEnds
  <2>3. sr' \in 0..SrLen
    BY <2>2, LenAssumption
  <2> QED
    BY <2>1, <2>3
<1>5. CASE RcvNext
  BY <1>5 DEF RcvNext, ReceiverReads, ReceiverError, ReceiverSends, ReceiverEnds
<1>6. CASE MainNext
  <2>1. CASE ListenFails \/ Listen \/ MainReport \/ MainPacket \/ NoClient \/ MainTimeout
    <3>1. timers' \in Nat
      BY <2>1 DEF ListenFails, Listen, MainReport, MainPacket, NoClient, MainTimeout, HandlerTimers
    <3>2. sr' \in 0..SrLen /\ to' \in 0..ToLen /\ firing' = firing /\ closed' = closed
      BY <2>1, LenAssumption DEF ListenFails, Listen, MainReport, MainPacket, NoClient, MainTimeout
    <3> QED
      BY <3>1, <3>2
  <2>2. CASE StopTrTimers
    BY <2>2 DEF StopTrTimers
  <2>3. CASE MainEnds
    BY <2>3 DEF MainEnds, MainCloses
  <2> QED
    BY <1>6, <2>1, <2>2, <2>3 DEF MainNext
<1>7. CASE Expire
  BY <1>7 DEF Expire
<1>8. CASE NotifyTransTimeout
  BY <1>8, LenAssumption DEF NotifyTransTimeout
<1>9. CASE UNCHANGED vars
  BY <1>9 DEF vars
<1> QED
  BY <1>1, <1>2, <1>3, <1>4, <1>5, <1>6, <1>7, <1>8, <1>9 DEF Next

(* A goroutine is counted from its start to its end.                       *)
LEMMA WgStep == Inv /\ [Next]_vars => WgExact'
<1> SUFFICES ASSUME Inv, [Next]_vars PROVE WgExact'
  OBVIOUS
<1> USE DEF Inv, WgExact, Counts, StartedInOrder, PlacesOK, FilesOK, Alive, ctl, files,
        chans
<1>1. CASE RunNext
  BY <1>1 DEF RunNext, OpenMux, OpenLink, OpenServer, RouteAdd, DriverFails, ReturnError,
      HandleReport, StartServer, Signal, WaitRoutineStopped
<1>2. CASE LseNext
  BY <1>2 DEF LseNext, Stop, StopNothing, CloseMux, CloseServer
<1>3. CASE MuxEnds
  BY <1>3 DEF MuxEnds
<1>4. CASE BuffNext
  BY <1>4 DEF BuffNext, ServeReads, NotifySessReport, ServeEnds
<1>5. CASE RcvNext
  BY <1>5 DEF RcvNext, ReceiverReads, ReceiverError, ReceiverSends, ReceiverEnds
<1>6. CASE MainNext
  BY <1>6 DEF MainNext, ListenFails, Listen, MainReport, MainPacket, NoClient, MainTimeout,
      StopTrTimers, MainEnds, MainCloses, HandlerTimers
<1>7. CASE Expire
  BY <1>7 DEF Expire
<1>8. CASE NotifyTransTimeout
  BY <1>8 DEF NotifyTransTimeout
<1>9. CASE UNCHANGED vars
  BY <1>9 DEF vars
<1> QED
  BY <1>1, <1>2, <1>3, <1>4, <1>5, <1>6, <1>7, <1>8, <1>9 DEF Next

(* Run starts one thing after the other.                                   *)
LEMMA StartedStep == Inv /\ [Next]_vars => StartedInOrder'
<1> SUFFICES ASSUME Inv, [Next]_vars PROVE StartedInOrder'
  OBVIOUS
<1> USE DEF Inv, StartedInOrder, PlacesOK, FilesOK, Alive, ctl, files, chans
<1>1. CASE RunNext
  BY <1>1 DEF RunNext, OpenMux, OpenLink, OpenServer, RouteAdd, DriverFails, ReturnError,
      HandleReport, StartServer, Signal, WaitRoutineStopped
<1>2. CASE LseNext
  BY <1>2 DEF LseNext, Stop, StopNothing, CloseMux, CloseServer
<1>3. CASE MuxEnds
  BY <1>3 DEF MuxEnds
<1>4. CASE BuffNext
  BY <1>4 DEF BuffNext, ServeReads, NotifySessReport, ServeEnds
<1>5. CASE RcvNext
  BY <1>5 DEF RcvNext, ReceiverReads, ReceiverError, ReceiverSends, ReceiverEnds
<1>6. CASE MainNext
  BY <1>6 DEF MainNext, ListenFails, Listen, MainReport, MainPacket, NoClient, MainTimeout,
      StopTrTimers, MainEnds, MainCloses, HandlerTimers
<1>7. CASE Expire
  BY <1>7 DEF Expire
<1>8. CASE NotifyTransTimeout
  BY <1>8 DEF NotifyTransTimeout
<1>9. CASE UNCHANGED vars
  BY <1>9 DEF vars
<1> QED
  BY <1>1, <1>2, <1>3, <1>4, <1>5, <1>6, <1>7, <1>8, <1>9 DEF Next

(* main closes a channel only at its end.                                  *)
LEMMA ClosedStep == Inv /\ [Next]_vars => ClosedInOrder'
<1> SUFFICES ASSUME Inv, [Next]_vars PROVE ClosedInOrder'
  OBVIOUS
<1> USE DEF Inv, ClosedInOrder, StartedInOrder, PlacesOK, Alive, ctl, files, chans
<1>1. CASE RunNext
  BY <1>1 DEF RunNext, OpenMux, OpenLink, OpenServer, RouteAdd, DriverFails, ReturnError,
      HandleReport, StartServer, Signal, WaitRoutineStopped
<1>2. CASE LseNext
  BY <1>2 DEF LseNext, Stop, StopNothing, CloseMux, CloseServer
<1>3. CASE MuxEnds
  BY <1>3 DEF MuxEnds
<1>4. CASE BuffNext
  BY <1>4 DEF BuffNext, ServeReads, NotifySessReport, ServeEnds
<1>5. CASE RcvNext
  BY <1>5 DEF RcvNext, ReceiverReads, ReceiverError, ReceiverSends, ReceiverEnds
<1>6. CASE MainNext
  BY <1>6 DEF MainNext, ListenFails, Listen, MainReport, MainPacket, NoClient, MainTimeout,
      StopTrTimers, MainEnds, MainCloses, HandlerTimers
<1>7. CASE Expire
  BY <1>7 DEF Expire
<1>8. CASE NotifyTransTimeout
  BY <1>8 DEF NotifyTransTimeout
<1>9. CASE UNCHANGED vars
  BY <1>9 DEF vars
<1> QED
  BY <1>1, <1>2, <1>3, <1>4, <1>5, <1>6, <1>7, <1>8, <1>9 DEF Next

(* Only a handler starts a timer, and none runs at the end of main.        *)
LEMMA TimersStep == Inv /\ [Next]_vars => TimersStopped'
<1> SUFFICES ASSUME Inv, [Next]_vars PROVE TimersStopped'
  OBVIOUS
<1> USE DEF Inv, TimersStopped, Ending, StartedInOrder, PlacesOK, CountersOK, Alive, ctl,
        files, chans
<1>1. CASE RunNext
  BY <1>1 DEF RunNext, OpenMux, OpenLink, OpenServer, RouteAdd, DriverFails, ReturnError,
      HandleReport, StartServer, Signal, WaitRoutineStopped
<1>2. CASE LseNext
  BY <1>2 DEF LseNext, Stop, StopNothing, CloseMux, CloseServer
<1>3. CASE MuxEnds
  BY <1>3 DEF MuxEnds
<1>4. CASE BuffNext
  BY <1>4 DEF BuffNext, ServeReads, NotifySessReport, ServeEnds
<1>5. CASE RcvNext
  BY <1>5 DEF RcvNext, ReceiverReads, ReceiverError, ReceiverSends, ReceiverEnds
<1>6. CASE MainNext
  BY <1>6 DEF MainNext, ListenFails, Listen, MainReport, MainPacket, NoClient, MainTimeout,
      StopTrTimers, MainEnds, MainCloses, HandlerTimers
<1>7. CASE Expire
  BY <1>7 DEF Expire
<1>8. CASE NotifyTransTimeout
  BY <1>8 DEF NotifyTransTimeout
<1>9. CASE UNCHANGED vars
  BY <1>9 DEF vars
<1> QED
  BY <1>1, <1>2, <1>3, <1>4, <1>5, <1>6, <1>7, <1>8, <1>9 DEF Next

(* The receiver sends an empty packet for an error, and then nothing.      *)
LEMMA LastStep == Inv /\ [Next]_vars => LastIsLast'
<1> SUFFICES ASSUME Inv, [Next]_vars PROVE LastIsLast'
  OBVIOUS
<1> USE DEF Inv, LastIsLast, Ending, StartedInOrder, ClosedInOrder, PlacesOK, FilesOK,
        RcvChOK, Full, Empty, Alive, ctl, files, chans
<1>1. CASE RunNext
  BY <1>1 DEF RunNext, OpenMux, OpenLink, OpenServer, RouteAdd, DriverFails, ReturnError,
      HandleReport, StartServer, Signal, WaitRoutineStopped
<1>2. CASE LseNext
  BY <1>2 DEF LseNext, Stop, StopNothing, CloseMux, CloseServer
<1>3. CASE MuxEnds
  BY <1>3 DEF MuxEnds
<1>4. CASE BuffNext
  BY <1>4 DEF BuffNext, ServeReads, NotifySessReport, ServeEnds
<1>5. CASE RcvNext
  <2>1. CASE ReceiverReads
    BY <2>1 DEF ReceiverReads
  <2>2. CASE ReceiverError
    BY <2>2 DEF ReceiverError
  <2>3. CASE ReceiverSends /\ rcvCh' = rcvCh
    BY <2>3 DEF ReceiverSends
  <2>4. CASE ReceiverSends /\ rcvCh' # rcvCh
    <3>1. /\ rcvCh' = Append(rcvCh, IF rcv = "full" THEN Full ELSE Empty)
          /\ rcv' = IF rcv = "error" THEN "leaving" ELSE "reading"
          /\ emptied' = emptied /\ main' = main /\ rcv \in {"full", "empty", "error"}
          /\ "rcvCh" \notin closed
      BY <2>4 DEF ReceiverSends
    <3>2. \A i \in 1..Len(rcvCh') : rcvCh'[i] = Empty =>
            rcv # "full" \/ (i \in 1..Len(rcvCh) /\ rcvCh[i] = Empty)
      BY <3>1
    <3> QED
      BY <3>1, <3>2
  <2>5. CASE ReceiverEnds
    BY <2>5 DEF ReceiverEnds
  <2> QED
    BY <1>5, <2>1, <2>2, <2>3, <2>4, <2>5 DEF RcvNext
<1>6. CASE MainNext
  BY <1>6 DEF MainNext, ListenFails, Listen, MainReport, MainPacket, NoClient, MainTimeout,
      StopTrTimers, MainEnds, MainCloses, HandlerTimers
<1>7. CASE Expire
  BY <1>7 DEF Expire
<1>8. CASE NotifyTransTimeout
  BY <1>8 DEF NotifyTransTimeout
<1>9. CASE UNCHANGED vars
  BY <1>9 DEF vars
<1> QED
  BY <1>1, <1>2, <1>3, <1>4, <1>5, <1>6, <1>7, <1>8, <1>9 DEF Next

(* The process exits in order when the wait group is down to zero.         *)
LEMMA ExitStep == Inv /\ [Next]_vars => ExitMeansStopped'
<1> SUFFICES ASSUME Inv, [Next]_vars PROVE ExitMeansStopped'
  OBVIOUS
<1> USE DEF Inv, ExitMeansStopped, Stopped, WgExact, Counts, StartedInOrder, PlacesOK,
        FilesOK, Alive, ctl, files, chans
<1>1. CASE RunNext
  <2>1. CASE ReturnError
    BY <2>1 DEF ReturnError
  <2>2. CASE WaitRoutineStopped
    <3>1. wg = 0 /\ run = "stopping"
      BY <2>2 DEF WaitRoutineStopped
    <3>2. /\ Counts(lse) = 0 /\ Counts(main) = 0 /\ Counts(rcv) = 0
          /\ Counts(buff) = 0 /\ Counts(mux) = 0
      BY <3>1
    <3>3. lse = "ended" /\ main = "ended" /\ buff = "ended"
      BY <3>1, <3>2
    <3> QED
      BY <2>2, <3>2, <3>3 DEF WaitRoutineStopped
  <2>3. CASE OpenMux \/ OpenLink \/ OpenServer \/ RouteAdd \/ DriverFails \/ HandleReport \/
           StartServer \/ Signal
    BY <2>3 DEF OpenMux, OpenLink, OpenServer, RouteAdd, DriverFails, HandleReport,
        StartServer, Signal
  <2> QED
    BY <1>1, <2>1, <2>2, <2>3 DEF RunNext
<1>2. CASE LseNext
  BY <1>2 DEF LseNext, Stop, StopNothing, CloseMux, CloseServer
<1>3. CASE MuxEnds
  BY <1>3 DEF MuxEnds
<1>4. CASE BuffNext
  BY <1>4 DEF BuffNext, ServeReads, NotifySessReport, ServeEnds
<1>5. CASE RcvNext
  BY <1>5 DEF RcvNext, ReceiverReads, ReceiverError, ReceiverSends, ReceiverEnds
<1>6. CASE MainNext
  BY <1>6 DEF MainNext, ListenFails, Listen, MainReport, MainPacket, NoClient, MainTimeout,
      StopTrTimers, MainEnds, MainCloses, HandlerTimers
<1>7. CASE Expire
  BY <1>7 DEF Expire
<1>8. CASE NotifyTransTimeout
  BY <1>8 DEF NotifyTransTimeout
<1>9. CASE UNCHANGED vars
  BY <1>9 DEF vars
<1> QED
  BY <1>1, <1>2, <1>3, <1>4, <1>5, <1>6, <1>7, <1>8, <1>9 DEF Next

-----------------------------------------------------------------------------
(* All parts together are inductive.                                       *)
LEMMA InvStep == Inv /\ [Next]_vars => Inv'
  BY PlacesStep, FilesStep, RcvChStep, CountersStep, WgStep, StartedStep, ClosedStep,
      TimersStep, LastStep, ExitStep DEF Inv

(* The parts give the type invariant.                                      *)
LEMMA InvTypes == Inv => TypeOK
<1> SUFFICES ASSUME Inv PROVE TypeOK
  OBVIOUS
<1>1. wg \in Nat
  BY DEF Inv, WgExact, Counts
<1> QED
  BY <1>1 DEF Inv, TypeOK, PlacesOK, FilesOK, RcvChOK, CountersOK

(* The invariant holds in every state of every run.                        *)
LEMMA InvHolds == Spec => []Inv
<1> QED
  BY InvInit, InvStep, PTL DEF Spec

(* Places, flags, channels and counters keep their types; in particular    *)
(* the wait group never goes below zero, which would panic (app.go:96,     *)
(* pfcp.go:93).                                                            *)
THEOREM TypeCorrect == Spec => []TypeOK
<1>1. Inv => TypeOK
  BY InvTypes
<1> QED
  BY <1>1, InvHolds, PTL

(* app.go:83: Run exits in order only when every goroutine that was        *)
(* started has ended.                                                      *)
THEOREM ExitCorrect == Spec => []ExitMeansStopped
<1>1. Inv => ExitMeansStopped
  BY DEF Inv
<1> QED
  BY <1>1, InvHolds, PTL

(* pfcp.go:89: the receiver never sends on the closed rcvCh, as long as no *)
(* datagram without content ends main early.                               *)
THEOREM ReceiverCorrect == Spec => []ReceiverSafe
<1>1. Inv => ReceiverSafe
  BY DEF Inv, ReceiverSafe, ClosedInOrder, LastIsLast, Ending
<1> QED
  BY <1>1, InvHolds, PTL

(* pfcp.go:290: once trToCh is closed no timer expires any more.           *)
THEOREM TimersCorrect == Spec => []NoTimerLeft
<1>1. Inv => NoTimerLeft
  BY DEF Inv, NoTimerLeft, ClosedInOrder, TimersStopped, Ending
<1> QED
  BY <1>1, InvHolds, PTL

(* Neither the receiver nor a timer is left when its channel is closed.    *)
THEOREM ClosedCorrect == Spec => []ClosedWhenLeft
<1>1. ReceiverSafe /\ NoTimerLeft => ClosedWhenLeft
  BY DEF ClosedWhenLeft
<1> QED
  BY <1>1, ReceiverCorrect, TimersCorrect, PTL
=============================================================================
