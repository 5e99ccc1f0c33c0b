--------------------------- MODULE WebSocketServer ---------------------------
(***************************************************************************)
(* jobmanager/websocket_server.py: one coroutine per client streams the    *)
(* metrics of a job, and the ConnectionManager keeps the clients of each   *)
(* job.  A coroutine gives way only where it awaits, so a step goes from   *)
(* one await to the next.  A client leaves whenever it likes, and nobody   *)
(* is told: only a send to it raises.                                      *)
(***************************************************************************)
EXTENDS FiniteSets

CONSTANTS Clients, JobIds

VARIABLES
    open,               \* the clients that are there
    coroutine,          \* client -> the await it is at, and its job
    active_connections  \* a dictionary: job -> its clients

socketVars == <<open, coroutine, active_connections>>

Idle == [at |-> "idle"]

SocketInit ==
    /\ open = {}
    /\ coroutine = [c \in Clients |-> Idle]
    /\ active_connections = [j \in {} |-> {}]

Active(job) == IF job \in DOMAIN active_connections THEN active_connections[job] ELSE {}

\* A dictionary's entry is set, or deleted when nothing is left in it.
Set(job, clients) ==
    [j \in (DOMAIN active_connections \ {job}) \cup (IF clients = {} THEN {} ELSE {job}) |->
        IF j = job THEN clients ELSE active_connections[j]]

Await(c, at) == coroutine' = [coroutine EXCEPT ![c].at = at]

\* The client asks for the socket of a job; the handshake is awaited.
Accept(c, job) ==
    /\ coroutine[c] = Idle
    /\ open' = open \cup {c}
    /\ coroutine' = [coroutine EXCEPT ![c] = [at |-> "accept", job |-> job]]
    /\ UNCHANGED active_connections

Leave(c) == c \in open /\ open' = open \ {c} /\ UNCHANGED <<coroutine, active_connections>>

\* ConnectionManager.connect
Connect(c) ==
    /\ coroutine[c].at = "accept" /\ c \in open
    /\ active_connections' = Set(coroutine[c].job, Active(coroutine[c].job) \cup {c})
    /\ Await(c, "send")
    /\ UNCHANGED open

\* accept() raises outside of the try: there is nothing to take back.
AcceptFails(c) ==
    /\ coroutine[c].at = "accept" /\ c \notin open
    /\ coroutine' = [coroutine EXCEPT ![c] = Idle]
    /\ UNCHANGED <<open, active_connections>>

\* send_json(metrics) returns, or whatever it raises is caught and a message
\* is sent in its place; that too the handler may have sent for a client
\* that is there, when the metrics themselves could not be had.
Send(c) ==
    /\ coroutine[c].at = "send"
    /\ \/ c \in open /\ Await(c, "sleep")
       \/ Await(c, "error")
    /\ UNCHANGED <<open, active_connections>>

SendError(c) ==
    /\ coroutine[c].at = "error" /\ c \in open
    /\ Await(c, "sleep")
    /\ UNCHANGED <<open, active_connections>>

SleepOver(c) == coroutine[c].at = "sleep" /\ Await(c, "send") /\ UNCHANGED <<open, active_connections>>

\* Mutant of Disconnected: the handler ends without it.
StillConnected(c) == active_connections

\* ConnectionManager.disconnect
Disconnected(c) == Set(coroutine[c].job, Active(coroutine[c].job) \ {c})

\* The message raises as well: the handler ends.
Disconnect(c) ==
    /\ coroutine[c].at = "error" /\ c \notin open
    /\ active_connections' = Disconnected(c)
    /\ coroutine' = [coroutine EXCEPT ![c] = Idle]
    /\ UNCHANGED open

Coroutine(c) ==
    \/ Connect(c) \/ AcceptFails(c) \/ Send(c) \/ SendError(c) \/ SleepOver(c) \/ Disconnect(c)

SocketNext ==
    \E c \in Clients : Leave(c) \/ Coroutine(c) \/ \E job \in JobIds : Accept(c, job)
----------------------------------------------------------------------------
(* Properties *)

\* Nobody tells the server that a client has left, and its handler answers
\* every exception with one more send: a client that stays away is forgotten
\* all the same, and when all stay away no job has an entry any more.
LeaversAreForgotten ==
    /\ \A c \in Clients :
          <>[](c \notin open) => <>[](\A job \in JobIds : c \notin Active(job))
    /\ <>[](open = {}) => <>[](DOMAIN active_connections = {})
=============================================================================
