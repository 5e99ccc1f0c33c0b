---------------------------- MODULE DashboardPoll ----------------------------
(***************************************************************************)
(* The dashboard of gui/app_gcp.py as a client of the JobManager's REST    *)
(* API: its poll thread, which copies what the JobManager knows into the   *)
(* page's state piece by piece, and the requests it forwards, whose answer *)
(* may come after the dashboard has given it up.  The JobManager is an     *)
(* external here: it is up or not, has TaskManagers, and runs jobs.        *)
(***************************************************************************)
EXTENDS Naturals, FiniteSets

CONSTANTS
    Requests,       \* bound: what is forwarded; a submission makes a job of its name
    TaskManagerIds,
    MaxOutages      \* bound: times the JobManager goes away

ASSUME PollAssumption == MaxOutages \in Nat

Statuses == {"RUNNING", "FAILED", "CANCELED"}

VARIABLES
    up, outages,    \* the JobManager answers
    job,            \* its registry: request -> "none" or the status of its job
    members,        \* its TaskManagers
    request,        \* request -> what is forwarded and where it is
    poller,         \* where the poll thread is
    connected, jobs, cluster_metrics, stats     \* the dashboard's state

managerVars == <<up, outages, job, members>>
pageVars == <<poller, connected, jobs, cluster_metrics, stats>>
pollVars == <<managerVars, request, pageVars>>

Registry == {<<r, job[r]>> : r \in {q \in Requests : job[q] # "none"}}
With(list, status) == Cardinality({entry \in list : entry[2] = status})
JobStats(list) ==
    [total |-> Cardinality(list), running |-> With(list, "RUNNING"),
     failed |-> With(list, "FAILED")]

Unsent == [kind |-> "none", at |-> "unsent"]

PollInit ==
    /\ up \in BOOLEAN /\ outages = 0
    /\ job = [r \in Requests |-> "none"]
    /\ members = {}
    /\ request = [r \in Requests |-> Unsent]
    /\ poller = "check"
    /\ connected = up           \* main asks once before the thread is started
    /\ jobs = {} /\ cluster_metrics = {}
    /\ stats = [jobs |-> JobStats({}), managers |-> 0]

----------------------------------------------------------------------------
(* The JobManager *)

GoDown ==
    /\ up /\ outages < MaxOutages
    /\ up' = FALSE /\ outages' = outages + 1
    /\ UNCHANGED <<job, members, request, pageVars>>

ComeUp == ~up /\ up' = TRUE /\ UNCHANGED <<outages, job, members, request, pageVars>>

TaskManagerJoins(t) ==
    /\ t \notin members /\ members' = members \cup {t}
    /\ UNCHANGED <<up, outages, job, request, pageVars>>

JobFails(r) ==
    /\ job[r] = "RUNNING" /\ job' = [job EXCEPT ![r] = "FAILED"]
    /\ UNCHANGED <<up, outages, members, request, pageVars>>

----------------------------------------------------------------------------
(* Forwarded requests *)

\* A file or an example is submitted, or the demo's thread submits its job.
Submit(r, kind) ==
    /\ request[r] = Unsent
    /\ request' = [request EXCEPT ![r] = [kind |-> kind, at |-> "sent"]]
    /\ UNCHANGED <<managerVars, pageVars>>

\* The user cancels a job that the page shows.
Cancel(r, shown) ==
    /\ request[r] = Unsent /\ shown \in jobs
    /\ request' = [request EXCEPT ![r] = [kind |-> "cancel", at |-> "sent", of |-> shown[1]]]
    /\ UNCHANGED <<managerVars, pageVars>>

Answered(r, answer) == [request EXCEPT ![r].at = IF @ = "sent" THEN answer ELSE "over"]

\* The JobManager handles a request whether or not anybody waits for it.
Handle(r) ==
    /\ up /\ request[r].at \in {"sent", "given up"}
    /\ request' = Answered(r, "answered")
    /\ job' = IF request[r].kind = "cancel"
              THEN [job EXCEPT ![request[r].of] = "CANCELED"]
              ELSE [job EXCEPT ![r] = "RUNNING"]
    /\ UNCHANGED <<up, outages, members, pageVars>>

\* It refuses it, or nobody is there to hear it.
Refuse(r) ==
    /\ request[r].at \in {"sent", "given up"}
    /\ request' = Answered(r, "error")
    /\ UNCHANGED <<managerVars, pageVars>>

\* timeout=30 or 10; submit_demo_job has none.
TimeOut(r) ==
    /\ request[r].at = "sent" /\ request[r].kind # "demo"
    /\ request' = [request EXCEPT ![r].at = "given up"]
    /\ UNCHANGED <<managerVars, pageVars>>

----------------------------------------------------------------------------
(* poll_jobmanager *)

Reached == IF up THEN "cluster" ELSE "sleep"

CheckConnection ==
    /\ poller = "check" /\ poller' = Reached
    /\ connected' = up
    /\ UNCHANGED <<managerVars, request, jobs, cluster_metrics, stats>>

\* Without an answer the last figures stay.
FetchClusterMetrics ==
    /\ poller = "cluster" /\ poller' = "jobs"
    /\ cluster_metrics' = IF up THEN members ELSE cluster_metrics
    /\ stats' = [stats EXCEPT !.managers = IF up THEN Cardinality(members) ELSE @]
    /\ UNCHANGED <<managerVars, request, connected, jobs>>

\* Mutant of Fetched: what is new is added to the list.
FetchedNew == IF up THEN jobs \cup Registry ELSE jobs

\* Without an answer there are no jobs.
Fetched == IF up THEN Registry ELSE {}

FetchJobs ==
    /\ poller = "jobs" /\ poller' = "stats"
    /\ jobs' = Fetched
    /\ UNCHANGED <<managerVars, request, connected, cluster_metrics, stats>>

UpdateStats ==
    /\ poller = "stats" /\ poller' = "sleep"
    /\ stats' = [stats EXCEPT !.jobs = JobStats(jobs)]
    /\ UNCHANGED <<managerVars, request, connected, jobs, cluster_metrics>>

Sleep ==
    /\ poller = "sleep" /\ poller' = "check"
    /\ UNCHANGED <<managerVars, request, connected, jobs, cluster_metrics, stats>>

PollThread == CheckConnection \/ FetchClusterMetrics \/ FetchJobs \/ UpdateStats \/ Sleep

PollNext ==
    \/ GoDown \/ ComeUp
    \/ \E t \in TaskManagerIds : TaskManagerJoins(t)
    \/ \E r \in Requests :
          \/ JobFails(r) \/ Handle(r) \/ Refuse(r) \/ TimeOut(r)
          \/ \E kind \in {"submit", "demo"} : Submit(r, kind)
          \/ \E shown \in jobs : Cancel(r, shown)
    \/ PollThread
----------------------------------------------------------------------------
(* Properties *)

ShowsTheTruth ==
    /\ connected /\ jobs = Registry /\ cluster_metrics = members
    /\ stats = [jobs |-> JobStats(Registry), managers |-> Cardinality(members)]

\* However outages, submissions, failures and cancellations come between the
\* pieces of a poll: when the JobManager stays up the page comes to show what
\* it knows, each figure, and when it stays away the page comes to say so.
PageCatchesUp ==
    /\ <>[]up => <>[]ShowsTheTruth
    /\ <>[]~up => <>[]~connected
=============================================================================
