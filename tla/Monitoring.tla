----------------------------- MODULE Monitoring ------------------------------
(***************************************************************************)
(* What watches the system: the dashboard, with its feeds (DashboardFeeds) *)
(* and as a client of the JobManager (DashboardPoll), and the JobManager's *)
(* web sockets (WebSocketServer).  The lists of uploads and job output,    *)
(* the demo, the poll and the sockets share no state, so a behaviour       *)
(* follows one of them.                                                    *)
(***************************************************************************)
EXTENDS DashboardFeeds, DashboardPoll, WebSocketServer

VARIABLE part

monitoringVars == <<part, feedVars, pollVars, socketVars>>

MonitoringInit ==
    /\ part \in {"output", "demo", "poll", "sockets"}
    /\ FeedsInit /\ PollInit /\ SocketInit
    /\ part # "poll" => up

Output == part = "output" /\ OutputNext /\ UNCHANGED <<part, pollVars, socketVars>>
Demo == part = "demo" /\ DemoNext /\ UNCHANGED <<part, pollVars, socketVars>>
Poll == part = "poll" /\ PollNext /\ UNCHANGED <<part, feedVars, socketVars>>
Sockets == part = "sockets" /\ SocketNext /\ UNCHANGED <<part, feedVars, pollVars>>

MonitoringNext == Output \/ Demo \/ Poll \/ Sockets

\* Threads are scheduled, their sleeps end, and every call of the dashboard
\* and every send of the server returns or raises.
MonitoringSpec ==
    /\ MonitoringInit /\ [][MonitoringNext]_monitoringVars
    /\ \A d \in Demos : WF_feedVars(part = "demo" /\ DemoThread(d))
    /\ WF_pollVars(part = "poll" /\ PollThread)
    /\ \A c \in Clients : WF_socketVars(part = "sockets" /\ Coroutine(c))
=============================================================================
