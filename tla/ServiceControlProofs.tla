------------------------ MODULE ServiceControlProofs ------------------------
(***************************************************************************)
(* Safety of the Windows service for any number of requests: what the      *)
(* service manager is told, and that storing comes last when it stops.     *)
(***************************************************************************)
EXTENDS ServiceControl, TLAPS

BeforeThread == {"registering", "fillPending", "reportPending", "creatingEvent",
                 "fillRunning", "reportRunning", "starting", "creatingThread"}

Signalled == {"reading", "fillAgain", "reportAgain", "done"}

\* Only in the first two places of service_main does SvcStatus accept more than
\* STOP, and nobody can report it then.
StatusInv ==
    /\ scm.accepted \subseteq {"STOP"}
    /\ main \in {"registering", "fillPending"} =>
          handler = "idle" /\ scm.state = "START_PENDING"
    /\ main \notin {"registering", "fillPending", "returned", "crashed"} => status.accepted \subseteq {"STOP"}
    /\ handler \notin {"idle", "crashed"} => status.accepted \subseteq {"STOP"}
    /\ main = "returned" /\ scm.state = "RUNNING" => status.accepted \subseteq {"STOP"}

\* When m_exec is not joinable although start() is through with it, its thread
\* has ended or was never created, and nobody serves a request any more.
StoredInv ==
    /\ main \in BeforeThread => exec = "none"
    /\ exec = "none" => ~ unstored
    /\ Assigned /\ ~ joinable =>
          /\ exec \in {"none", "ended"}
          /\ handler \in Signalled \cup {"signalling"} => ~ unstored
    /\ event = "set" => handler \in Signalled \cup {"crashed"}
    /\ main = "crashed" => handler = "crashed"
    /\ handler = "crashed" => main = "crashed"

Inv == StatusInv /\ StoredInv

-----------------------------------------------------------------------------
\* Nothing runs yet.
LEMMA InitInv == Init => Inv
<1> SUFFICES ASSUME Init PROVE Inv
  OBVIOUS
<1> USE DEF Init
<1>1. StatusInv
  BY DEF StatusInv
<1>2. StoredInv
  BY DEF StoredInv, Assigned
<1> QED
  BY <1>1, <1>2 DEF Inv

\* service_main: it creates the thread before it gets anywhere near Assigned.
LEMMA MainStepInv == Inv /\ MainStep => Inv'
<1> SUFFICES ASSUME Inv, MainStep PROVE Inv'
  OBVIOUS
<1> USE DEF Inv, MainFills, MainReports, Fill, SetServiceStatus, flags, reports, work
<1>1. CASE Register \/ RegisterFails \/ FillPending \/ ReportPending
  <2> USE <1>1 DEF Register, RegisterFails, FillPending, ReportPending
  <2>1. StatusInv'
    BY DEF StatusInv
  <2>2. StoredInv'
    BY DEF StoredInv, Assigned, BeforeThread, Signalled
  <2> QED
    BY <2>1, <2>2
<1>2. CASE CreateEvent \/ FillRunning \/ ReportRunning \/ StartServer
  <2> USE <1>2 DEF CreateEvent, FillRunning, ReportRunning, StartServer
  <2>1. StatusInv'
    BY DEF StatusInv
  <2>2. StoredInv'
    BY DEF StoredInv, Assigned, BeforeThread, Signalled
  <2> QED
    BY <2>1, <2>2
<1>3. CASE CreateThread \/ AssignThread \/ WaitForThread \/ WaitForEvent
  <2> USE <1>3 DEF CreateThread, AssignThread, WaitForThread, WaitForEvent
  <2>1. StatusInv'
    BY DEF StatusInv
  <2>2. StoredInv'
    BY DEF StoredInv, Assigned, BeforeThread, Signalled
  <2> QED
    BY <2>1, <2>2
<1>4. CASE FillStopped \/ ReportStopped
  <2> USE <1>4 DEF FillStopped, ReportStopped
  <2>1. StatusInv'
    BY DEF StatusInv
  <2>2. StoredInv'
    BY DEF StoredInv, Assigned, BeforeThread, Signalled
  <2> QED
    BY <2>1, <2>2
<1> QED
  BY <1>1, <1>2, <1>3, <1>4 DEF MainStep

\* The control handler: stop() joins the thread before it stores the state.
LEMMA HandlerStepInv == Inv /\ (SendStop \/ HandlerStep) => Inv'
<1> SUFFICES ASSUME Inv, SendStop \/ HandlerStep PROVE Inv'
  OBVIOUS
<1> USE DEF Inv, HandlerReports, Fill, SetServiceStatus, flags, reports, work
<1>1. CASE \/ SendStop \/ HandlerFillsPending \/ HandlerReportsPending \/ ReadState
           \/ HandlerFillsAgain \/ HandlerReportsAgain
  <2> USE <1>1 DEF SendStop, HandlerFillsPending, HandlerReportsPending, ReadState,
                   HandlerFillsAgain, HandlerReportsAgain
  <2>1. StatusInv'
    <3>1. CASE SendStop \/ ReadState
      BY <3>1 DEF StatusInv, StoredInv
    <3>2. CASE HandlerFillsPending \/ HandlerFillsAgain
      BY <3>2 DEF StatusInv
    <3>3. CASE HandlerReportsPending \/ HandlerReportsAgain
      BY <3>3 DEF StatusInv
    <3> QED
      BY <1>1, <3>1, <3>2, <3>3
  <2>2. StoredInv'
    BY DEF StoredInv, Assigned, BeforeThread, Signalled
  <2> QED
    BY <2>1, <2>2
<1>2. CASE SetStop \/ Join \/ StoreState \/ SetEvent
  <2> USE <1>2 DEF SetStop, Join, StoreState, SetEvent
  <2>1. StatusInv'
    BY DEF StatusInv
  <2>2. StoredInv'
    <3>1. CASE SetStop
      BY <3>1 DEF StoredInv, Assigned, BeforeThread, Signalled
    <3>2. CASE Join
      BY <3>2 DEF StoredInv, Assigned, BeforeThread, Signalled
    <3>3. CASE StoreState
      BY <3>3 DEF StoredInv, Assigned, BeforeThread, Signalled
    <3>4. CASE SetEvent
      BY <3>4 DEF StoredInv, Assigned, BeforeThread, Signalled
    <3> QED
      BY <3>1, <3>2, <3>3, <3>4
  <2> QED
    BY <2>1, <2>2
<1> QED
  BY <1>1, <1>2 DEF HandlerStep

\* The update thread ends for good, and only while it runs does it serve; what
\* terminates the process ends everything.
LEMMA ExecStepInv == Inv /\ (ExecStep \/ RequestArrives \/ Terminates) => Inv'
<1> SUFFICES ASSUME Inv, ExecStep \/ RequestArrives \/ Terminates PROVE Inv'
  OBVIOUS
<1> USE DEF Inv, ExecStep, TestStop, ServeRequest, UpdateReturns, RequestArrives, Terminates,
            flags, reports, work
<1>1. StatusInv'
  BY DEF StatusInv
<1>2. StoredInv'
  BY DEF StoredInv, Assigned, BeforeThread, Signalled
<1> QED
  BY <1>1, <1>2

LEMMA NextInv == Inv /\ [Next]_vars => Inv'
<1> SUFFICES ASSUME Inv, [Next]_vars PROVE Inv'
  OBVIOUS
<1>1. CASE UNCHANGED vars
  BY <1>1 DEF vars, Inv, StatusInv, StoredInv, Assigned
<1>2. CASE Next
  BY <1>1, <1>2, MainStepInv, HandlerStepInv, ExecStepInv DEF Next, Terminated
<1> QED
  BY <1>1, <1>2

THEOREM Controlled == Spec => []Inv
<1> QED
  BY InitInv, NextInv, PTL DEF Spec

\* The service manager is never told of a control other than STOP, for any
\* interleaving of the two threads that fill in the one SvcStatus.
THEOREM OnlyStopIsAccepted == Spec => []OnlyStopAccepted
<1>1. Inv => OnlyStopAccepted
  BY DEF Inv, StatusInv, OnlyStopAccepted
<1> QED
  BY <1>1, Controlled, PTL

\* When service_main goes on to report STOPPED, the update thread is gone and
\* store_state() was called after the last request that it served, unless STOP
\* came before start() had assigned that thread, for any number of requests.
THEOREM StoringCameLast == Spec => []StoringComesLast
<1>1. Inv => StoringComesLast
  BY DEF Inv, StoredInv, StoringComesLast, Assigned, Signalled
<1> QED
  BY <1>1, Controlled, PTL

-----------------------------------------------------------------------------
\* The places, flags and statuses keep their types: a status is only ever filled
\* in with one of the four states, and read back from there.
LEMMA TypeInv == TypeOK /\ [Next]_vars => TypeOK'
<1> SUFFICES ASSUME TypeOK, [Next]_vars PROVE TypeOK'
  OBVIOUS
<1> USE ServiceAssumption DEF TypeOK, flags, reports, work
<1>1. CASE UNCHANGED vars
  BY <1>1 DEF vars
<1>2. CASE MainStep
  <2>1. /\ handler' = handler /\ mStop' = mStop /\ argument' = argument
        /\ queued' = queued /\ unstored' = unstored
    BY <1>2 DEF MainStep, Register, RegisterFails, FillPending, ReportPending, CreateEvent,
                FillRunning, ReportRunning, StartServer, CreateThread, AssignThread,
                WaitForThread, WaitForEvent, FillStopped, ReportStopped, MainFills, MainReports
  <2>2. main' \in MainPlaces
    BY <1>2 DEF MainPlaces, MainStep, Register, RegisterFails, FillPending, ReportPending,
                CreateEvent, FillRunning, ReportRunning, StartServer, CreateThread,
                AssignThread, WaitForThread, WaitForEvent, FillStopped, ReportStopped,
                MainFills, MainReports
  <2>3. /\ exec' \in {exec, "testing"} /\ joinable' \in {joinable, TRUE}
        /\ event' \in {event, "unset"} /\ serving' \in {serving, TRUE}
    BY <1>2 DEF MainStep, Register, RegisterFails, FillPending, ReportPending, CreateEvent,
                FillRunning, ReportRunning, StartServer, CreateThread, AssignThread,
                WaitForThread, WaitForEvent, FillStopped, ReportStopped, MainFills, MainReports
  <2>4. \/ status' = status
        \/ status' = [status EXCEPT !.accepted = Controls]
        \/ \E s \in States : Fill(s)
    BY <1>2 DEF MainStep, Register, RegisterFails, FillPending, ReportPending, CreateEvent,
                FillRunning, ReportRunning, StartServer, CreateThread, AssignThread,
                WaitForThread, WaitForEvent, FillStopped, ReportStopped, MainFills,
                MainReports, States
  <2>5. scm' \in {scm, status}
    BY <1>2 DEF MainStep, Register, RegisterFails, FillPending, ReportPending, CreateEvent,
                FillRunning, ReportRunning, StartServer, CreateThread, AssignThread,
                WaitForThread, WaitForEvent, FillStopped, ReportStopped, MainFills,
                MainReports, SetServiceStatus
  <2>6. status' \in Statuses
    BY <2>4 DEF Statuses, Controls, Fill
  <2>7. main' \in MainPlaces /\ handler' \in HandlerPlaces
    BY <2>1, <2>2
  <2>8. /\ exec' \in {"none", "testing", "updating", "ended", "crashed"} /\ event' \in {"none", "unset", "set"}
        /\ joinable' \in BOOLEAN /\ mStop' \in BOOLEAN /\ serving' \in BOOLEAN
    BY <2>1, <2>3
  <2>9. argument' \in States /\ scm' \in Statuses
    BY <2>1, <2>5
  <2>10. queued' \in 0..MaxQueue /\ unstored' \in BOOLEAN
    BY <2>1
  <2> QED
    BY <2>6, <2>7, <2>8, <2>9, <2>10
<1>3. CASE SendStop \/ HandlerStep
  <2>1. /\ main' = main /\ exec' = exec /\ serving' = serving /\ queued' = queued
        /\ handler' \in HandlerPlaces
    BY <1>3 DEF SendStop, HandlerStep, HandlerFillsPending, HandlerReportsPending, SetStop,
                Join, StoreState, SetEvent, ReadState, HandlerFillsAgain, HandlerReportsAgain,
                HandlerReports, HandlerPlaces
  <2>2. /\ joinable' \in {joinable, FALSE} /\ mStop' \in {mStop, TRUE}
        /\ event' \in {event, "set"} /\ unstored' \in {unstored, FALSE}
    BY <1>3 DEF SendStop, HandlerStep, HandlerFillsPending, HandlerReportsPending, SetStop,
                Join, StoreState, SetEvent, ReadState, HandlerFillsAgain, HandlerReportsAgain,
                HandlerReports
  <2>3. /\ argument' \in {argument, status.state} /\ scm' \in {scm, status}
        /\ status' = status \/ Fill("STOP_PENDING") \/ Fill(argument)
    BY <1>3 DEF SendStop, HandlerStep, HandlerFillsPending, HandlerReportsPending, SetStop,
                Join, StoreState, SetEvent, ReadState, HandlerFillsAgain, HandlerReportsAgain,
                HandlerReports, SetServiceStatus
  <2>4. status' \in Statuses /\ argument' \in States
    BY <2>3 DEF Statuses, States, Controls, Fill
  <2>5. main' \in MainPlaces /\ handler' \in HandlerPlaces
    BY <2>1
  <2>6. /\ exec' \in {"none", "testing", "updating", "ended", "crashed"} /\ event' \in {"none", "unset", "set"}
        /\ joinable' \in BOOLEAN /\ mStop' \in BOOLEAN /\ serving' \in BOOLEAN
    BY <2>1, <2>2
  <2>7. scm' \in Statuses
    BY <2>3
  <2>8. queued' \in 0..MaxQueue /\ unstored' \in BOOLEAN
    BY <2>1, <2>2
  <2> QED
    BY <2>4, <2>5, <2>6, <2>7, <2>8
<1>4. CASE ExecStep \/ RequestArrives
  <2>1. queued' \in 0..MaxQueue
    BY <1>4 DEF ExecStep, TestStop, ServeRequest, UpdateReturns, RequestArrives
  <2>2. /\ exec' \in {"none", "testing", "updating", "ended", "crashed"}
        /\ unstored' \in {unstored, TRUE}
    BY <1>4 DEF ExecStep, TestStop, ServeRequest, UpdateReturns, RequestArrives
  <2>3. UNCHANGED <<main, handler, flags, reports>>
    BY <1>4 DEF ExecStep, TestStop, ServeRequest, UpdateReturns, RequestArrives
  <2> QED
    BY <2>1, <2>2, <2>3
<1>5. CASE Terminates
  <2>1. scm' \in Statuses
    BY <1>5 DEF Terminates, Statuses, States
  <2> QED
    BY <1>5, <2>1 DEF Terminates, MainPlaces, HandlerPlaces
<1> QED
  BY <1>1, <1>2, <1>3, <1>4, <1>5 DEF Next, Terminated

\* All variables keep their types; what the handler reports again is a state.
THEOREM TypeCorrect == Spec => []TypeOK
<1>1. Init => TypeOK
  <2> SUFFICES ASSUME Init PROVE TypeOK
    OBVIOUS
  <2>1. main \in MainPlaces /\ handler \in HandlerPlaces
    BY DEF Init, MainPlaces, HandlerPlaces
  <2>2. status \in Statuses /\ scm \in Statuses /\ argument \in States
    BY DEF Init, Statuses, States
  <2>3. queued \in 0..MaxQueue
    BY ServiceAssumption DEF Init
  <2> QED
    BY <2>1, <2>2, <2>3 DEF Init, TypeOK
<1> QED
  BY <1>1, TypeInv, PTL DEF Spec
-----------------------------------------------------------------------------
(***************************************************************************)
(* The safety half of StopEnds: once STOP has been sent, service_main, the *)
(* control handler and the update thread never all wait for one another.   *)
(***************************************************************************)
\* The event exists before the service manager can send STOP, so that nobody
\* resets it; and the thread that is waited for has been created.
WaitInv ==
    /\ main \in {"registering", "fillPending", "reportPending", "creatingEvent"} => event = "none"
    /\ event = "none" =>
          /\ handler = "idle" /\ "RUNNING" \notin {scm.state, status.state}
          /\ main \in {"registering", "fillPending", "reportPending", "creatingEvent",
                       "fillStopped", "reportStopped", "returned"}
          /\ exec = "none"
    /\ (main = "crashed") = (handler = "crashed")
    /\ (main = "crashed") = (exec = "crashed")
    /\ handler \in Signalled => event = "set"
    /\ joinable \/ main \in {"assigning", "waitingForThread"} => exec # "none"
    /\ handler \in Signalled \cup {"joining", "storing", "signalling"} => mStop

MainWaits ==
    \/ main = "waitingForThread" /\ exec # "ended"
    \/ main = "waitingForEvent" /\ event # "set"

HandlerWaits == handler = "joining" /\ joinable /\ exec # "ended"

ThreadRuns == exec \in {"testing", "updating"}

\* With STOP under way every thread has returned, or one of the three has a step
\* to make; and a thread that is joined runs with m_stop set.
SomebodyRuns ==
    /\ handler # "idle" =>
          \/ AllDone
          \/ ThreadRuns
          \/ handler # "done" /\ ~ HandlerWaits
          \/ main # "returned" /\ ~ MainWaits
    /\ HandlerWaits => ThreadRuns /\ mStop

LEMMA InitWaits == Init => WaitInv
BY DEF Init, WaitInv, Signalled

LEMMA MainWaitInv == TypeOK /\ WaitInv /\ MainStep => WaitInv'
<1> SUFFICES ASSUME TypeOK, WaitInv, MainStep PROVE WaitInv'
  OBVIOUS
<1> USE DEF WaitInv, Signalled, MainFills, MainReports, Fill, SetServiceStatus, flags, reports, work
<1>0. status \in [state : States, accepted : SUBSET Controls]
  BY DEF TypeOK, Statuses
<1>1. CASE Register \/ RegisterFails \/ FillPending \/ ReportPending
  BY <1>0, <1>1 DEF Register, RegisterFails, FillPending, ReportPending
<1>2. CASE CreateEvent \/ FillRunning \/ ReportRunning \/ StartServer
  BY <1>2 DEF CreateEvent, FillRunning, ReportRunning, StartServer
<1>3. CASE CreateThread \/ AssignThread \/ WaitForThread \/ WaitForEvent
  BY <1>3 DEF CreateThread, AssignThread, WaitForThread, WaitForEvent
<1>4. CASE FillStopped \/ ReportStopped
  BY <1>4 DEF FillStopped, ReportStopped
<1> QED
  BY <1>1, <1>2, <1>3, <1>4 DEF MainStep

LEMMA HandlerWaitInv ==
    WaitInv /\ (SendStop \/ HandlerStep \/ ExecStep \/ RequestArrives \/ Terminates) => WaitInv'
<1> SUFFICES ASSUME WaitInv,
                    SendStop \/ HandlerStep \/ ExecStep \/ RequestArrives \/ Terminates
             PROVE  WaitInv'
  OBVIOUS
<1> USE DEF WaitInv, Signalled, HandlerReports, Fill, SetServiceStatus, flags, reports, work
<1>1. CASE SendStop \/ HandlerFillsPending \/ HandlerReportsPending
  BY <1>1 DEF SendStop, HandlerFillsPending, HandlerReportsPending
<1>2. CASE SetStop \/ Join \/ StoreState \/ SetEvent
  BY <1>2 DEF SetStop, Join, StoreState, SetEvent
<1>3. CASE ReadState \/ HandlerFillsAgain \/ HandlerReportsAgain
  BY <1>3 DEF ReadState, HandlerFillsAgain, HandlerReportsAgain
<1>4. CASE ExecStep \/ RequestArrives
  BY <1>4 DEF ExecStep, TestStop, ServeRequest, UpdateReturns, RequestArrives
<1>5. CASE Terminates
  BY <1>5 DEF Terminates
<1> QED
  BY <1>1, <1>2, <1>3, <1>4, <1>5 DEF HandlerStep

LEMMA NextWaitInv == TypeOK /\ WaitInv /\ [Next]_vars => WaitInv'
<1> SUFFICES ASSUME TypeOK, WaitInv, [Next]_vars PROVE WaitInv'
  OBVIOUS
<1>1. CASE UNCHANGED vars
  BY <1>1 DEF vars, WaitInv
<1> QED
  BY <1>1, MainWaitInv, HandlerWaitInv DEF Next, Terminated

\* However start() and stop() interleave, the service does not hang in a stop:
\* service_main, the handler and the update thread never all wait, and join()
\* waits only for a thread that sees m_stop at its next test.
THEOREM StopNeverHangs == Spec => []SomebodyRuns
<1>1. TypeOK /\ WaitInv => SomebodyRuns
  BY DEF TypeOK, WaitInv, SomebodyRuns, MainWaits, HandlerWaits, ThreadRuns, AllDone, Signalled
<1> QED
  BY <1>1, InitWaits, NextWaitInv, TypeCorrect, PTL DEF Spec
=============================================================================
