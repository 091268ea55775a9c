-------------------------- MODULE ConnectionLanes --------------------------
(***************************************************************************)
(* How a connection reaches a handler thread (src/src/server.rs).  One     *)
(* thread accepts; it peeks at what the client has sent so far and hands   *)
(* the connection to the bounded channel of one of three lanes, each with  *)
(* its own pool of worker threads, so that a command which is over at once *)
(* never queues behind requests that wait for a touch.                     *)
(*                                                                         *)
(* A client is a slot that connects again once its connection has ended.   *)
(* What handling a request does to the daemon's state is module Broker;    *)
(* here a GET, REQUEST or AUTHORIZE may take as long as it likes.          *)
(***************************************************************************)
EXTENDS Naturals, Sequences, FiniteSets, SequencesExt

CONSTANTS
    Clients,
    Commands,     \* the commands they send
    MainWorkers,  \* CONNECTION_WORKERS
    MainDepth,    \* CONNECTION_QUEUE_DEPTH
    SideWorkers,  \* FAST_ and CONTROL_CONNECTION_WORKERS
    SideDepth     \* FAST_ and CONTROL_CONNECTION_QUEUE_DEPTH

ASSUME LanesAssumption ==
    /\ Commands \subseteq {"GET", "REQUEST", "AUTHORIZE", "HELLO", "REGISTER",
                           "UNREGISTER", "GRANTS", "REDEEM", "DENY", "LOCK"}
    /\ MainWorkers \in Nat /\ MainDepth \in Nat
    /\ SideWorkers \in Nat /\ SideDepth \in Nat

Lanes == {"Main", "Fast", "Control"}
Workers(l) == IF l = "Main" THEN MainWorkers ELSE SideWorkers
Depth(l) == IF l = "Main" THEN MainDepth ELSE SideDepth

VARIABLES
    client,   \* what each client sends, and the place of its connection
    backlog,  \* connections the listener has not accepted yet
    channel   \* the connections queued for each lane

vars == <<client, backlog, channel>>

(* sent is what a peek would find: no whole line yet, a line that parses,  *)
(* a line that does not, or the end of the stream.  foreign marks a peer   *)
(* of another uid, or one whose identity the kernel does not give.         *)
Client == [phase   : {"closed", "backlog", "queued", "reading", "working",
                      "answered", "rejected"},
           command : Commands \cup {"none"},
           sent    : {"nothing", "request", "garbage", "eof"},
           foreign : BOOLEAN,
           lane    : Lanes]

(* A connection that has ended leaves only how: with the answer, with the  *)
(* capacity response, or just closed, as before the first connection.      *)
NoConnection(phase) == [phase |-> phase, command |-> "none", sent |-> "nothing",
                        foreign |-> FALSE, lane |-> "Main"]

TypeOK ==
    /\ client \in [Clients -> Client]
    /\ backlog \in Seq(Clients)
    /\ channel \in [Lanes -> Seq(Clients)]

Init ==
    /\ client = [c \in Clients |-> NoConnection("closed")]
    /\ backlog = <<>>
    /\ channel = [l \in Lanes |-> <<>>]

Move(c, phase) == client' = [client EXCEPT ![c].phase = phase]

End(c, phase) == client' = [client EXCEPT ![c] = NoConnection(phase)]

Ended(c) == client[c].phase \in {"closed", "answered", "rejected"}

-----------------------------------------------------------------------------
(* Clients. *)

Connect(c, m, f) ==
    /\ Ended(c)
    /\ client' = [client EXCEPT ![c] = [phase |-> "backlog", command |-> m,
                                        sent |-> "nothing", foreign |-> f,
                                        lane |-> "Main"]]
    /\ backlog' = Append(backlog, c)
    /\ UNCHANGED channel

(* The bytes arrive, or the client hangs up, at any time after connecting. *)
Send(c, what) ==
    /\ ~Ended(c)
    /\ client[c].sent = "nothing"
    /\ client' = [client EXCEPT ![c].sent = what]
    /\ UNCHANGED <<backlog, channel>>

-----------------------------------------------------------------------------
(* The accepting thread. *)

LockInMainLane(m) ==
    CASE m \in {"GET", "REQUEST", "AUTHORIZE", "LOCK"} -> "Main"
      [] m = "DENY"                                    -> "Control"
      [] OTHER                                         -> "Fast"

RequestLane(m) ==
    CASE m \in {"GET", "REQUEST", "AUTHORIZE"} -> "Main"
      [] m \in {"DENY", "LOCK"}                -> "Control"
      [] OTHER                                 -> "Fast"

Ready(c) == client[c].sent = "request"

LaneFromUnreadCommand(c) == RequestLane(client[c].command)

(* A connection with no complete request to peek at goes to the main lane. *)
AdmissionLane(c) == IF Ready(c) THEN RequestLane(client[c].command) ELSE "Main"

AcceptWhenRoom ==
    /\ backlog # <<>>
    /\ LET c == Head(backlog)
           l == AdmissionLane(c)
       IN  /\ Len(channel[l]) < Depth(l)
           /\ client' = [client EXCEPT ![c] = [@ EXCEPT !.phase = "queued", !.lane = l]]
           /\ channel' = [channel EXCEPT ![l] = Append(@, c)]
    /\ backlog' = Tail(backlog)

(* try_send never blocks: a full channel ends the connection, with a       *)
(* capacity response if the request was complete and silently if not.      *)
Accept ==
    /\ backlog # <<>>
    /\ LET c == Head(backlog)
           l == AdmissionLane(c)
       IN  IF Len(channel[l]) < Depth(l)
           THEN /\ client' = [client EXCEPT ![c] = [@ EXCEPT !.phase = "queued",
                                                             !.lane = l]]
                /\ channel' = [channel EXCEPT ![l] = Append(@, c)]
           ELSE /\ End(c, IF Ready(c) THEN "rejected" ELSE "closed")
                /\ UNCHANGED channel
    /\ backlog' = Tail(backlog)

(* The peek fails on a connection that the client has reset. *)
AcceptFails ==
    /\ backlog # <<>>
    /\ client[Head(backlog)].sent = "eof"
    /\ End(Head(backlog), "closed")
    /\ backlog' = Tail(backlog)
    /\ UNCHANGED channel

-----------------------------------------------------------------------------
(* The worker threads of a lane. *)

Handled(l) == {c \in Clients : client[c].lane = l
                                /\ client[c].phase \in {"reading", "working"}}

ReceiveBeyondPool(l) ==
    /\ channel[l] # <<>>
    /\ Move(Head(channel[l]), "reading")
    /\ channel' = [channel EXCEPT ![l] = Tail(@)]
    /\ UNCHANGED backlog

Receive(l) ==
    /\ channel[l] # <<>>
    /\ Cardinality(Handled(l)) < Workers(l)
    /\ Move(Head(channel[l]), "reading")
    /\ channel' = [channel EXCEPT ![l] = Tail(@)]
    /\ UNCHANGED backlog

RefusePeer(c) ==
    /\ client[c].phase = "reading"
    /\ client[c].foreign
    /\ End(c, "closed")
    /\ UNCHANGED <<backlog, channel>>

(* The whole line is read; one that does not parse is answered at once. *)
ReadFrame(c) ==
    /\ client[c].phase = "reading"
    /\ ~client[c].foreign
    /\ client[c].sent # "nothing"
    /\ IF Ready(c) THEN Move(c, "working") ELSE End(c, "answered")
    /\ UNCHANGED <<backlog, channel>>

(* CONNECTION_READ_TIMEOUT passes before the line is complete. *)
ReadTimeout(c) ==
    /\ client[c].phase = "reading"
    /\ ~client[c].foreign
    /\ client[c].sent = "nothing"
    /\ End(c, "closed")
    /\ UNCHANGED <<backlog, channel>>

Respond(c) ==
    /\ client[c].phase = "working"
    /\ End(c, "answered")
    /\ UNCHANGED <<backlog, channel>>

Read(c) == RefusePeer(c) \/ ReadFrame(c) \/ ReadTimeout(c)

-----------------------------------------------------------------------------
Next ==
    \/ \E c \in Clients :
          \/ \E m \in Commands, f \in BOOLEAN : Connect(c, m, f)
          \/ \E what \in {"request", "garbage", "eof"} : Send(c, what)
          \/ Read(c)
          \/ Respond(c)
    \/ Accept
    \/ AcceptFails
    \/ \E l \in Lanes : Receive(l)

Spec == Init /\ [][Next]_vars

NeverWaits(m) == m \notin {"GET", "REQUEST", "AUTHORIZE"}

(* The threads run.  Nothing is assumed of clients, nor of the requests    *)
(* that wait for a touch: their handlers may be busy for ever.             *)
FairSpec ==
    /\ Spec
    /\ WF_vars(Accept \/ AcceptFails)
    /\ \A l \in Lanes : WF_vars(Receive(l))
    /\ \A c \in Clients : /\ WF_vars(Read(c))
                          /\ WF_vars(NeverWaits(client[c].command) /\ Respond(c))

-----------------------------------------------------------------------------
(* A thread of the fast or the control lane is never held up: whatever is  *)
(* queued for, or handled in, such a lane has its whole request in the     *)
(* socket already and is a command of that very lane, although the lane    *)
(* was picked by a peek and the request is read much later.                *)
SideLanesNeverWait ==
    \A c \in Clients :
        client[c].phase \in {"queued", "reading", "working"}
          /\ client[c].lane # "Main"
        => Ready(c) /\ RequestLane(client[c].command) = client[c].lane

(* Every connection is in exactly one place: a channel holds each of its   *)
(* connections once and no other, and the pools are never oversubscribed.  *)
OnePlaceEach ==
    /\ \A l \in Lanes :
          /\ IsInjective(channel[l])
          /\ ToSet(channel[l]) = {c \in Clients : client[c].phase = "queued"
                                                   /\ client[c].lane = l}
          /\ Len(channel[l]) <= Depth(l)
          /\ Cardinality(Handled(l)) <= Workers(l)
    /\ IsInjective(backlog)
    /\ ToSet(backlog) = {c \in Clients : client[c].phase = "backlog"}

(* Every LOCK or DENY that is complete when the listener gets to it ends   *)
(* with an answer, or with the capacity response, even if every thread of  *)
(* the main lane waits for a touch that never comes.                       *)
ControlAnswered ==
    \A c \in Clients :
        client[c].phase = "backlog" /\ Ready(c) /\ ~client[c].foreign
          /\ NeverWaits(client[c].command)
        ~> client[c].phase \in {"answered", "rejected"}

(* The listener gets to every connection: it is never blocked by a lane.   *)
EveryConnectionAccepted ==
    \A c \in Clients : []<>(client[c].phase # "backlog")

=============================================================================
