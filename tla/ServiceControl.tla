--------------------------- MODULE ServiceControl ---------------------------
(***************************************************************************)
(* The Windows service: service_base (change_lib/platform/win32/           *)
(* service.cpp) with change_service (change_service/change_service.hpp).   *)
(* Three threads share its members: service_main, which reports, starts    *)
(* the server and waits; the control handler, which the service manager    *)
(* calls; and the thread that start() creates to update the server.  The   *)
(* service manager and the clients of the server are the environment.      *)
(***************************************************************************)
EXTENDS Integers

CONSTANT MaxQueue        \* bound: requests that wait for the update thread

ASSUME ServiceAssumption == MaxQueue \in Nat

VARIABLES main,          \* what service_main does next
          handler,       \* what the control handler does next
          exec,          \* the thread of the update loop
          joinable,      \* m_exec holds that thread
          mStop,         \* m_stop
          event,         \* SvcStopEvent: none, unset or set
          status,        \* SvcStatus: the state and the controls it accepts
          argument,      \* the argument of the handler's last report
          scm,           \* the status the service manager knows
          serving,       \* the server's I/O thread runs
          queued,        \* requests in m_incomming
          unstored       \* a request was served since store_state() was called

vars == <<main, handler, exec, joinable, mStop, event, status, argument, scm,
          serving, queued, unstored>>

flags   == <<joinable, mStop, event, serving>>
reports == <<status, argument, scm>>
work    == <<queued, unstored>>

States   == {"STOPPED", "START_PENDING", "RUNNING", "STOP_PENDING"}
Controls == {"STOP", "SHUTDOWN", "PAUSE_CONTINUE"}
Statuses == [state : States, accepted : SUBSET Controls]

Init ==
    /\ main = "registering" /\ handler = "idle" /\ exec = "none"
    /\ joinable = FALSE /\ mStop = FALSE /\ event = "none"
    /\ status = [state |-> "STOPPED", accepted |-> {}]
    /\ argument = "STOPPED"
    /\ scm = [state |-> "START_PENDING", accepted |-> {}]
    /\ serving = FALSE /\ queued = 0 /\ unstored = FALSE

-----------------------------------------------------------------------------
(***************************************************************************)
(* report_svc_status, in two steps: it fills the status that the threads   *)
(* share, and passes that status to the service manager, which listens     *)
(* until it has heard STOPPED.                                             *)
(***************************************************************************)
\* Mutant of Fill: the accepted controls are left as service_main has set them.
FillState(s) == status' = [status EXCEPT !.state = s]

Fill(s) ==
    status' = [state    |-> s,
               accepted |-> IF s = "START_PENDING" THEN {} ELSE {"STOP"}]

SetServiceStatus == scm' = IF scm.state = "STOPPED" THEN scm ELSE status

-----------------------------------------------------------------------------
\* service_main and init_service.
Register ==
    /\ main = "registering"
    /\ status' = [status EXCEPT !.accepted = Controls]
    /\ main' = "fillPending"
    /\ UNCHANGED <<handler, exec, argument, scm, flags, work>>

\* Without a handler service_main logs and returns: nothing is ever reported.
RegisterFails ==
    /\ main = "registering"
    /\ main' = "returned"
    /\ UNCHANGED <<handler, exec, flags, reports, work>>

MainFills(from, s, to) ==
    /\ main = from
    /\ Fill(s)
    /\ main' = to
    /\ UNCHANGED <<handler, exec, argument, scm, flags, work>>

MainReports(from, to) ==
    /\ main = from
    /\ SetServiceStatus
    /\ main' = to
    /\ UNCHANGED <<handler, exec, status, argument, flags, work>>

FillPending   == MainFills("fillPending", "START_PENDING", "reportPending")
ReportPending == MainReports("reportPending", "creatingEvent")

CreateEvent ==
    /\ main = "creatingEvent"
    /\ \/ event' = "unset" /\ main' = "fillRunning"
       \/ UNCHANGED event /\ main' = "fillStopped"
    /\ UNCHANGED <<handler, exec, joinable, mStop, serving, reports, work>>

FillRunning   == MainFills("fillRunning", "RUNNING", "reportRunning")
ReportRunning == MainReports("reportRunning", "starting")

\* change_service::start: the server may fail to start, and then there is no
\* thread to wait for.
StartServer ==
    /\ main = "starting"
    /\ \/ serving' = TRUE /\ main' = "creatingThread"
       \/ UNCHANGED serving /\ main' = "waitingForEvent"
    /\ UNCHANGED <<handler, exec, joinable, mStop, event, reports, work>>

\* The thread runs before it is assigned to m_exec.
CreateThread ==
    /\ main = "creatingThread"
    /\ exec' = "testing"
    /\ main' = "assigning"
    /\ UNCHANGED <<handler, flags, reports, work>>

AssignThread ==
    /\ main = "assigning"
    /\ joinable' = TRUE
    /\ main' = "waitingForThread"
    /\ UNCHANGED <<handler, exec, mStop, event, serving, reports, work>>

WaitForThread ==
    /\ main = "waitingForThread" /\ exec = "ended"
    /\ main' = "waitingForEvent"
    /\ UNCHANGED <<handler, exec, flags, reports, work>>

WaitForEvent ==
    /\ main = "waitingForEvent" /\ event = "set"
    /\ main' = "fillStopped"
    /\ UNCHANGED <<handler, exec, flags, reports, work>>

FillStopped   == MainFills("fillStopped", "STOPPED", "reportStopped")
ReportStopped == MainReports("reportStopped", "returned")

MainStep ==
    \/ Register \/ RegisterFails \/ FillPending \/ ReportPending \/ CreateEvent
    \/ FillRunning \/ ReportRunning \/ StartServer \/ CreateThread \/ AssignThread
    \/ WaitForThread \/ WaitForEvent \/ FillStopped \/ ReportStopped

-----------------------------------------------------------------------------
(***************************************************************************)
(* The service manager sends a control that the service accepts, and STOP  *)
(* only once.  The branches of service_control_handler for SHUTDOWN, PAUSE *)
(* and CONTINUE are never entered: see OnlyStopAccepted.                   *)
(***************************************************************************)
SendStop ==
    /\ handler = "idle"
    /\ scm.state = "RUNNING" /\ "STOP" \in scm.accepted
    /\ handler' = "fillPending"
    /\ UNCHANGED <<main, exec, flags, reports, work>>

HandlerFillsPending ==
    /\ handler = "fillPending"
    /\ Fill("STOP_PENDING")
    /\ handler' = "reportPending"
    /\ UNCHANGED <<main, exec, argument, scm, flags, work>>

HandlerReports(from, to) ==
    /\ handler = from
    /\ SetServiceStatus
    /\ handler' = to
    /\ UNCHANGED <<main, exec, status, argument, flags, work>>

HandlerReportsPending == HandlerReports("reportPending", "stopping")

\* change_service::stop.
SetStop ==
    /\ handler = "stopping"
    /\ mStop' = TRUE
    /\ handler' = "joining"
    /\ UNCHANGED <<main, exec, joinable, event, serving, reports, work>>

\* Mutant of Join: stop() does not wait for the thread.
JoinNot ==
    /\ handler = "joining"
    /\ joinable' = FALSE
    /\ handler' = "storing"
    /\ UNCHANGED <<main, exec, mStop, event, serving, reports, work>>

\* Only a thread that is already assigned is joined.
Join ==
    /\ handler = "joining"
    /\ joinable => exec = "ended"
    /\ joinable' = FALSE
    /\ handler' = "storing"
    /\ UNCHANGED <<main, exec, mStop, event, serving, reports, work>>

\* What store_state() writes, and what it does not, is ChangeServer's matter.
StoreState ==
    /\ handler = "storing"
    /\ unstored' = FALSE
    /\ handler' = "signalling"
    /\ UNCHANGED <<main, exec, queued, flags, reports>>

SetEvent ==
    /\ handler = "signalling"
    /\ event' = "set"
    /\ handler' = "reading"
    /\ UNCHANGED <<main, exec, joinable, mStop, serving, reports, work>>

\* The argument of the last report is the state as it is now; service_main may
\* fill in STOPPED before that report is made.
ReadState ==
    /\ handler = "reading"
    /\ argument' = status.state
    /\ handler' = "fillAgain"
    /\ UNCHANGED <<main, exec, status, scm, flags, work>>

HandlerFillsAgain ==
    /\ handler = "fillAgain"
    /\ Fill(argument)
    /\ handler' = "reportAgain"
    /\ UNCHANGED <<main, exec, argument, scm, flags, work>>

HandlerReportsAgain == HandlerReports("reportAgain", "done")

HandlerStep ==
    \/ HandlerFillsPending \/ HandlerReportsPending \/ SetStop \/ Join
    \/ StoreState \/ SetEvent \/ ReadState \/ HandlerFillsAgain \/ HandlerReportsAgain

-----------------------------------------------------------------------------
(***************************************************************************)
(* The update loop.  update(-1) tests the live queue again after each      *)
(* message and returns only when it finds it empty.                        *)
(***************************************************************************)
\* The server's I/O thread queues a request.
RequestArrives ==
    /\ serving /\ main # "crashed" /\ queued < MaxQueue
    /\ queued' = queued + 1
    /\ UNCHANGED <<main, handler, exec, flags, reports, unstored>>

\* Mutant of TestStop: the flag is not tested.
TestStopNot ==
    /\ exec = "testing"
    /\ exec' = "updating"
    /\ UNCHANGED <<main, handler, flags, reports, work>>

TestStop ==
    /\ exec = "testing"
    /\ exec' = IF mStop THEN "ended" ELSE "updating"
    /\ UNCHANGED <<main, handler, flags, reports, work>>

ServeRequest ==
    /\ exec = "updating" /\ queued > 0
    /\ queued' = queued - 1
    /\ unstored' = TRUE
    /\ UNCHANGED <<main, handler, exec, flags, reports>>

UpdateReturns ==
    /\ exec = "updating" /\ queued = 0
    /\ exec' = "testing"
    /\ UNCHANGED <<main, handler, flags, reports, work>>

ExecStep == TestStop \/ ServeRequest \/ UpdateReturns

\* What a request, or what is to be stored, throws leaves the update thread or
\* the noexcept store_state(): the process is terminated, and the service
\* manager finds it gone.
Terminates ==
    /\ main # "crashed"
    /\ \/ exec = "updating" /\ queued > 0
       \/ handler = "storing"
    /\ main' = "crashed" /\ handler' = "crashed" /\ exec' = "crashed"
    /\ scm' = [state |-> "STOPPED", accepted |-> {}]
    /\ UNCHANGED <<flags, status, argument, work>>

-----------------------------------------------------------------------------
AllDone ==
    \/ main = "returned" /\ handler \in {"idle", "done"} /\ exec \in {"none", "ended"}
    \/ main = "crashed"

\* The process ends when the threads are done.
Terminated == AllDone /\ UNCHANGED vars

Next ==
    \/ MainStep \/ HandlerStep \/ ExecStep \/ SendStop
    \/ RequestArrives \/ Terminates \/ Terminated

\* Every thread runs when it can; nothing forces the service manager to send
\* STOP, or the clients to be quiet.
Fairness == WF_vars(MainStep) /\ WF_vars(HandlerStep) /\ WF_vars(ExecStep)

Spec     == Init /\ [][Next]_vars
LiveSpec == Spec /\ Fairness

-----------------------------------------------------------------------------
MainPlaces == {"registering", "fillPending", "reportPending", "creatingEvent",
               "fillRunning", "reportRunning", "starting", "creatingThread",
               "assigning", "waitingForThread", "waitingForEvent", "fillStopped",
               "reportStopped", "returned", "crashed"}

HandlerPlaces == {"idle", "fillPending", "reportPending", "stopping", "joining",
                  "storing", "signalling", "reading", "fillAgain", "reportAgain",
                  "done", "crashed"}

TypeOK ==
    /\ main \in MainPlaces /\ handler \in HandlerPlaces
    /\ exec \in {"none", "testing", "updating", "ended", "crashed"}
    /\ joinable \in BOOLEAN /\ mStop \in BOOLEAN /\ serving \in BOOLEAN
    /\ event \in {"none", "unset", "set"}
    /\ status \in Statuses /\ argument \in States /\ scm \in Statuses
    /\ queued \in 0..MaxQueue /\ unstored \in BOOLEAN

\* The service manager is never told that the service can be paused or wants to
\* hear of a shutdown: those branches of the control handler are dead.
OnlyStopAccepted == scm.accepted \subseteq {"STOP"}

\* When service_main goes on to report STOPPED after a STOP, the update thread
\* has ended and store_state() was called after the last request it served.  The
\* exception is a STOP before start() has assigned its thread: stop() did not wait
\* for that thread, and m_exec is still joinable.
Assigned == main \in {"waitingForThread", "waitingForEvent", "fillStopped",
                      "reportStopped", "returned"}

StoringComesLast ==
    event = "set" /\ Assigned /\ ~ joinable => exec \in {"none", "ended"} /\ ~ unstored

\* STOP is followed once the clients are quiet: service_main returns, so that the
\* process can end, unless it has been terminated.  As long as requests keep
\* coming update(-1) need not return, and nobody tests m_stop.
QuietAtLast == <>[][queued' < queued]_queued

StopEnds ==
    QuietAtLast =>
        (handler # "idle" ~> (main = "returned" /\ handler = "done") \/ main = "crashed")

-----------------------------------------------------------------------------
\* "Report the status of the service to the SCM": a service that has been
\* stopped is known to be stopped.
StopIsReported == QuietAtLast => (handler # "idle" ~> scm.state = "STOPPED")
=============================================================================
