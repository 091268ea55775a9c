----------------------------- MODULE LaneProofs -----------------------------
(***************************************************************************)
(* For any number of clients, threads and channel slots: the fast and the  *)
(* control lane hold only commands that are complete and theirs, and every *)
(* connection is in one place.                                             *)
(***************************************************************************)
EXTENDS ConnectionLanes, FiniteSetTheorems, TLAPS

(* What makes SideLanesNeverWait inductive: a connection carries a lane of *)
(* its own only from its admission to its end.                             *)
Unassigned(r) ==
    r.phase \in {"closed", "backlog", "answered", "rejected"} => r.lane = "Main"

InItsLane(r) ==
    r.phase \in {"queued", "reading", "working"} /\ r.lane # "Main"
    => r.sent = "request" /\ RequestLane(r.command) = r.lane

LaneInv ==
    /\ TypeOK
    /\ \A c \in Clients : Unassigned(client[c]) /\ InItsLane(client[c])

(* The lane a connection is admitted to is one of the three. *)
LEMMA AdmissionLaneType ==
    ASSUME NEW c \in Clients
    PROVE  AdmissionLane(c) \in Lanes
BY DEF AdmissionLane, RequestLane, Lanes

(* Clients of which one is changed satisfy the invariant when the changed  *)
(* one does.                                                               *)
LEMMA OneClientChanges ==
    ASSUME LaneInv, NEW c \in Clients, NEW r \in Client,
           client' = [client EXCEPT ![c] = r],
           Unassigned(r), InItsLane(r),
           backlog' \in Seq(Clients), channel' \in [Lanes -> Seq(Clients)]
    PROVE  LaneInv'
<1>1. client' \in [Clients -> Client]
  BY DEF LaneInv, TypeOK
<1>2. ASSUME NEW d \in Clients
      PROVE  Unassigned(client'[d]) /\ InItsLane(client'[d])
  <2>1. client'[d] = IF d = c THEN r ELSE client[d]
    BY DEF LaneInv, TypeOK
  <2> QED
    BY <2>1 DEF LaneInv
<1>3. ASSUME NEW d \in Clients
      PROVE  (Unassigned(client[d]) /\ InItsLane(client[d]))'
  BY <1>2 DEF Unassigned, InItsLane
<1> QED
  BY <1>1, <1>3 DEF LaneInv, TypeOK

(* A connection that ends satisfies the invariant. *)
LEMMA EndKeeps ==
    ASSUME LaneInv, NEW c \in Clients,
           NEW p \in {"closed", "answered", "rejected"}, End(c, p),
           backlog' \in Seq(Clients), channel' \in [Lanes -> Seq(Clients)]
    PROVE  LaneInv'
<1>1. /\ NoConnection(p) \in Client
      /\ Unassigned(NoConnection(p)) /\ InItsLane(NoConnection(p))
  BY DEF NoConnection, Client, Lanes, Unassigned, InItsLane
<1> QED
  BY <1>1, OneClientChanges, Zenon DEF End

(* A connection that goes on in its lane still satisfies it. *)
LEMMA MoveKeeps ==
    ASSUME LaneInv, NEW c \in Clients, NEW p \in {"reading", "working"}, Move(c, p),
           backlog' \in Seq(Clients), channel' \in [Lanes -> Seq(Clients)]
    PROVE  LaneInv'
<1> DEFINE r == [client[c] EXCEPT !.phase = p]
<1>1. client[c] \in Client /\ Unassigned(client[c]) /\ InItsLane(client[c])
  BY DEF LaneInv, TypeOK
<1>2. r \in Client /\ Unassigned(r) /\ InItsLane(r)
  BY <1>1, Zenon DEF Client, Unassigned, InItsLane
<1>3. client' = [client EXCEPT ![c] = r]
  BY DEF Move
<1> QED
  BY <1>2, <1>3, OneClientChanges, Zenon

-----------------------------------------------------------------------------
LEMMA LaneInit == Init => LaneInv
BY DEF Init, LaneInv, TypeOK, NoConnection, Client, Lanes, Unassigned, InItsLane

LEMMA LaneStep == LaneInv /\ [Next]_vars => LaneInv'
<1> SUFFICES ASSUME LaneInv, [Next]_vars PROVE LaneInv'
  OBVIOUS
<1>t. /\ client \in [Clients -> Client]
      /\ backlog \in Seq(Clients)
      /\ channel \in [Lanes -> Seq(Clients)]
      /\ \A l \in Lanes : channel[l] \in Seq(Clients)
  BY DEF LaneInv, TypeOK
<1>1. ASSUME NEW c \in Clients, NEW m \in Commands, NEW f \in BOOLEAN, Connect(c, m, f)
      PROVE  LaneInv'
  <2> DEFINE r == [phase |-> "backlog", command |-> m, sent |-> "nothing",
                   foreign |-> f, lane |-> "Main"]
  <2>1. r \in Client /\ Unassigned(r) /\ InItsLane(r)
    BY DEF Client, Lanes, Unassigned, InItsLane
  <2>2. /\ client' = [client EXCEPT ![c] = r]
        /\ backlog' \in Seq(Clients) /\ channel' \in [Lanes -> Seq(Clients)]
    BY <1>1, <1>t DEF Connect
  <2> QED
    BY <2>1, <2>2, OneClientChanges, Zenon
<1>2. ASSUME NEW c \in Clients, NEW what \in {"request", "garbage", "eof"}, Send(c, what)
      PROVE  LaneInv'
  <2> DEFINE r == [client[c] EXCEPT !.sent = what]
  <2>1. client[c] \in Client /\ Unassigned(client[c]) /\ InItsLane(client[c])
    BY DEF LaneInv, TypeOK
  <2>2. r \in Client /\ Unassigned(r) /\ InItsLane(r)
    BY <1>2, <2>1, Zenon DEF Send, Client, Unassigned, InItsLane
  <2>3. /\ client' = [client EXCEPT ![c] = r]
        /\ backlog' \in Seq(Clients) /\ channel' \in [Lanes -> Seq(Clients)]
    BY <1>2, <1>t, Zenon DEF Send
  <2> QED
    BY <2>2, <2>3, OneClientChanges, Zenon
<1>3. CASE Accept
  <2> DEFINE c == Head(backlog)
             l == AdmissionLane(c)
             r == [client[c] EXCEPT !.phase = "queued", !.lane = l]
  <2>1. c \in Clients /\ backlog' \in Seq(Clients)
    BY <1>3, <1>t DEF Accept
  <2>2. l \in Lanes
    BY <2>1, AdmissionLaneType, ZenonT(30)
  <2>3. CASE Len(channel[l]) < Depth(l)
    <3>0. client' = [client EXCEPT ![c] = r] /\ channel' = [channel EXCEPT ![l] = Append(@, c)]
      BY <1>3, <2>3, Zenon DEF Accept
    <3>1. client' = [client EXCEPT ![c] = r] /\ channel' \in [Lanes -> Seq(Clients)]
      <4>1. Append(channel[l], c) \in Seq(Clients)
        BY <2>1, <2>2, <1>t
      <4> HIDE DEF l, c
      <4> QED
        BY <3>0, <4>1, <2>2, <1>t, Zenon
    <3>2. client[c] \in Client
      BY <1>t, <2>1, ZenonT(30)
    <3>3. /\ r \in Client /\ r.sent = client[c].sent
          /\ r.command = client[c].command /\ r.lane = l /\ r.phase = "queued"
      BY <3>2, <2>2, Zenon DEF Client
    <3>4. Unassigned(r) /\ InItsLane(r)
      BY <3>3 DEF AdmissionLane, Ready, Unassigned, InItsLane
    <3> QED
      BY <2>1, <3>1, <3>3, <3>4, OneClientChanges, Zenon
  <2>4. CASE ~(Len(channel[l]) < Depth(l))
    <3>1. /\ \E p \in {"rejected", "closed"} : End(c, p)
          /\ channel' \in [Lanes -> Seq(Clients)]
      BY <1>3, <2>4, <1>t, Zenon DEF Accept
    <3> QED
      BY <2>1, <3>1, EndKeeps, Zenon
  <2> QED
    BY <2>3, <2>4, Zenon
<1>4. CASE AcceptFails
  <2>1. Head(backlog) \in Clients /\ backlog' \in Seq(Clients)
    BY <1>4, <1>t DEF AcceptFails
  <2> QED
    BY <1>4, <1>t, <2>1, EndKeeps, Zenon DEF AcceptFails
<1>5. ASSUME NEW l \in Lanes, Receive(l) PROVE LaneInv'
  <2>1. /\ Head(channel[l]) \in Clients
        /\ channel' \in [Lanes -> Seq(Clients)] /\ backlog' \in Seq(Clients)
    BY <1>5, <1>t DEF Receive
  <2> QED
    BY <1>5, <2>1, MoveKeeps, Zenon DEF Receive
<1>6. ASSUME NEW c \in Clients, Read(c) PROVE LaneInv'
  <2>1. backlog' \in Seq(Clients) /\ channel' \in [Lanes -> Seq(Clients)]
    BY <1>6, <1>t, Zenon DEF Read, RefusePeer, ReadFrame, ReadTimeout
  <2>2. Move(c, "working") \/ End(c, "closed") \/ End(c, "answered")
    BY <1>6, Zenon DEF Read, RefusePeer, ReadFrame, ReadTimeout
  <2> QED
    BY <2>1, <2>2, MoveKeeps, EndKeeps, Zenon
<1>7. ASSUME NEW c \in Clients, Respond(c) PROVE LaneInv'
  BY <1>7, <1>t, EndKeeps, Zenon DEF Respond
<1>8. CASE UNCHANGED vars
  BY <1>8 DEF vars, LaneInv, TypeOK, Unassigned, InItsLane
<1> QED
  BY <1>1, <1>2, <1>3, <1>4, <1>5, <1>6, <1>7, <1>8, ZenonT(30) DEF Next

(* Whatever the number of clients, threads and slots, a thread of the fast *)
(* or the control lane never finds an incomplete request or a command that *)
(* waits for a touch: the lane that the peek picked is still right when    *)
(* the request is read.                                                    *)
THEOREM SideLanesNeverWaitHolds == Spec => []SideLanesNeverWait
<1>1. LaneInv => SideLanesNeverWait
  BY DEF LaneInv, InItsLane, SideLanesNeverWait, Ready
<1> QED
  BY LaneInit, LaneStep, <1>1, PTL DEF Spec

-----------------------------------------------------------------------------
(* One place each. *)

(* The sequence s holds each element of S once, and nothing else. *)
Lists(s, S) == IsInjective(s) /\ ToSet(s) = S

Queued(l) == {c \in Clients : client[c].phase = "queued" /\ client[c].lane = l}

Unaccepted == {c \in Clients : client[c].phase = "backlog"}

PoolOK(l) == IsFiniteSet(Handled(l)) /\ Cardinality(Handled(l)) <= Workers(l)

LinesOK ==
    /\ \A l \in Lanes : Lists(channel[l], Queued(l)) /\ Len(channel[l]) <= Depth(l)
    /\ Lists(backlog, Unaccepted)

PlaceInv == LinesOK /\ \A l \in Lanes : PoolOK(l)

LEMMA ListsAppend ==
    ASSUME NEW s \in Seq(Clients), NEW S, Lists(s, S), NEW c \in Clients, c \notin S
    PROVE  Lists(Append(s, c), S \cup {c})
<1> DEFINE t == Append(s, c)
           n == Len(s)
<1>1. /\ n \in Nat /\ DOMAIN s = 1..n /\ DOMAIN t = 1..(n + 1)
      /\ \A i \in 1..n : t[i] = s[i]
      /\ t[n + 1] = c
  OBVIOUS
<1> HIDE DEF t, n
<1>2. \A i \in 1..n : s[i] # c
  BY <1>1 DEF Lists, ToSet
<1>3. \A i \in 1..(n + 1) : i \in 1..n \/ i = n + 1
  BY <1>1
<1>4. IsInjective(t)
  BY <1>1, <1>2, <1>3, Zenon DEF Lists, IsInjective
<1>5. ToSet(t) = S \cup {c}
  BY <1>1, <1>3 DEF Lists, ToSet
<1> QED
  BY <1>4, <1>5, Zenon DEF Lists, t

LEMMA ListsTail ==
    ASSUME NEW s \in Seq(Clients), NEW S, Lists(s, S), s # <<>>
    PROVE  Head(s) \in S /\ Lists(Tail(s), S \ {Head(s)})
<1> DEFINE t == Tail(s)
           n == Len(s)
<1>1. /\ n \in Nat \ {0} /\ DOMAIN s = 1..n /\ DOMAIN t = 1..(n - 1)
      /\ \A i \in 1..(n - 1) : t[i] = s[i + 1]
      /\ Head(s) = s[1]
  OBVIOUS
<1> HIDE DEF t, n
<1>2. Head(s) \in S
  BY <1>1 DEF Lists, ToSet
<1>3. IsInjective(t)
  <2>1. ASSUME NEW i \in 1..(n - 1), NEW j \in 1..(n - 1), t[i] = t[j] PROVE i = j
    <3>1. i + 1 \in 1..n /\ j + 1 \in 1..n /\ s[i + 1] = s[j + 1]
      BY <1>1, <2>1
    <3>2. \A a, b \in 1..n : s[a] = s[b] => a = b
      BY <1>1, Zenon DEF Lists, IsInjective
    <3>3. i + 1 = j + 1
      BY <3>1, <3>2, Zenon
    <3> QED
      BY <3>3
  <2> QED
    BY <1>1, <2>1, Zenon DEF IsInjective
<1>4. ASSUME NEW x \in ToSet(t) PROVE x \in S \ {Head(s)}
  BY <1>1 DEF Lists, IsInjective, ToSet
<1>5. ASSUME NEW x \in S \ {Head(s)} PROVE x \in ToSet(t)
  <2>1. PICK i \in 1..n : x = s[i]
    BY <1>1, Zenon DEF Lists, ToSet
  <2>2. i - 1 \in 1..(n - 1) /\ s[i] = t[i - 1]
    BY <1>1, <1>5, <2>1
  <2> QED
    BY <1>1, <2>1, <2>2, Zenon DEF ToSet
<1> QED
  BY <1>2, <1>3, <1>4, <1>5, Zenon DEF Lists, t

(* Where the connections are once that of client c has become r. *)
Shifts(c, r) ==
    /\ \A l \in Lanes :
          /\ Queued(l)' = IF r.phase = "queued" /\ r.lane = l
                          THEN Queued(l) \cup {c} ELSE Queued(l) \ {c}
          /\ Handled(l)' = IF r.phase \in {"reading", "working"} /\ r.lane = l
                           THEN Handled(l) \cup {c} ELSE Handled(l) \ {c}
    /\ Unaccepted' = IF r.phase = "backlog" THEN Unaccepted \cup {c}
                                            ELSE Unaccepted \ {c}

LEMMA Places ==
    ASSUME LaneInv, NEW c \in Clients, NEW r, client' = [client EXCEPT ![c] = r]
    PROVE  Shifts(c, r)
<1>1. client \in [Clients -> Client]
  BY DEF LaneInv, TypeOK
<1> QED
  BY <1>1 DEF Shifts, Queued, Handled, Unaccepted

(* A client has one connection, in one place. *)
Nowhere(c) ==
    /\ \A l \in Lanes :
          /\ ~(client[c].phase = "queued" /\ client[c].lane = l) =>
                Queued(l) \ {c} = Queued(l)
          /\ ~(client[c].phase \in {"reading", "working"} /\ client[c].lane = l) =>
                Handled(l) \ {c} = Handled(l)
    /\ client[c].phase # "backlog" => Unaccepted \ {c} = Unaccepted

LEMMA Elsewhere == ASSUME NEW c PROVE Nowhere(c)
BY DEF Nowhere, Queued, Unaccepted, Handled

LEMMA PoolShrinks ==
    ASSUME NEW l \in Lanes, PoolOK(l), Handled(l)' \subseteq Handled(l)
    PROVE  PoolOK(l)'
<1>1. /\ IsFiniteSet(Handled(l)') /\ Cardinality(Handled(l)') <= Cardinality(Handled(l))
      /\ Cardinality(Handled(l)) \in Nat /\ Cardinality(Handled(l)') \in Nat
  BY FS_Subset, FS_CardinalityType, Zenon DEF PoolOK
<1>2. Workers(l) \in Nat /\ Workers(l)' = Workers(l)
  BY LanesAssumption, Zenon DEF Workers
<1> QED
  BY <1>1, <1>2 DEF PoolOK

(* A connection that ends leaves the pool, and was in no line. *)
LEMMA EndPlaces ==
    ASSUME LaneInv, PlaceInv, NEW c \in Clients,
           NEW p \in {"closed", "answered", "rejected"}, End(c, p)
    PROVE  /\ \A l \in Lanes : Queued(l)' = Queued(l) \ {c} /\ PoolOK(l)'
           /\ Unaccepted' = Unaccepted \ {c}
<1> DEFINE r == NoConnection(p)
<1>1. client' = [client EXCEPT ![c] = r] /\ r.phase = p
  BY DEF End, NoConnection
<1> HIDE DEF r
<1>2. /\ \A l \in Lanes : Queued(l)' = Queued(l) \ {c} /\ Handled(l)' = Handled(l) \ {c}
      /\ Unaccepted' = Unaccepted \ {c}
  <2>1. Shifts(c, r)
    BY <1>1, Places, Zenon
  <2> QED
    BY <1>1, <2>1, Zenon DEF Shifts
<1> QED
  BY <1>2, PoolShrinks, Zenon DEF PlaceInv

(* Lines that keep their connections stay in order. *)
LEMMA LinesKept ==
    ASSUME LinesOK, UNCHANGED <<backlog, channel>>, Unaccepted' = Unaccepted,
           \A l \in Lanes : Queued(l)' = Queued(l)
    PROVE  LinesOK'
<1>1. \A l \in Lanes : Depth(l)' = Depth(l)
  BY DEF Depth
<1> QED
  BY <1>1 DEF LinesOK

(* The listener takes the first connection of the backlog. *)
LEMMA BacklogTaken ==
    ASSUME LaneInv, LinesOK, backlog # <<>>, backlog' = Tail(backlog),
           Unaccepted' = Unaccepted \ {Head(backlog)}
    PROVE  Lists(backlog, Unaccepted)'
<1>1. backlog \in Seq(Clients) /\ Lists(backlog, Unaccepted)
  BY DEF LaneInv, TypeOK, LinesOK
<1>2. Lists(Tail(backlog), Unaccepted \ {Head(backlog)})
  BY <1>1, ListsTail, Zenon
<1> QED
  BY <1>2, Zenon DEF Lists

LEMMA FirstUnaccepted ==
    ASSUME LaneInv, LinesOK, backlog # <<>>
    PROVE  Head(backlog) \in Clients /\ client[Head(backlog)].phase = "backlog"
<1>1. backlog \in Seq(Clients) /\ Lists(backlog, Unaccepted)
  BY DEF LaneInv, TypeOK, LinesOK
<1>2. Head(backlog) \in Unaccepted
  BY <1>1, ListsTail, Zenon
<1> QED
  BY <1>2, ZenonT(30) DEF Unaccepted

LEMMA PlaceConnect ==
    ASSUME LaneInv, PlaceInv, NEW c \in Clients, NEW m, NEW f, Connect(c, m, f)
    PROVE  PlaceInv'
<1> DEFINE r == [phase |-> "backlog", command |-> m, sent |-> "nothing",
                 foreign |-> f, lane |-> "Main"]
<1>1. client' = [client EXCEPT ![c] = r] /\ r.phase = "backlog"
  BY Zenon DEF Connect
<1> HIDE DEF r
<1>2. /\ \A l \in Lanes : Queued(l)' = Queued(l) /\ Handled(l)' = Handled(l)
      /\ Unaccepted' = Unaccepted \cup {c}
  <2>1. Shifts(c, r) /\ Nowhere(c)
    BY <1>1, Places, Elsewhere, ZenonT(30)
  <2>2. client[c].phase \in {"closed", "answered", "rejected"}
    BY DEF Connect, Ended
  <2> QED
    BY <1>1, <2>1, <2>2, ZenonT(30) DEF Shifts, Nowhere
<1>3. Lists(backlog, Unaccepted)'
  <2>0. c \notin Unaccepted
    BY DEF Connect, Ended, Unaccepted
  <2>1. Lists(Append(backlog, c), Unaccepted \cup {c})
    BY <2>0, ListsAppend, Zenon DEF PlaceInv, LinesOK, LaneInv, TypeOK
  <2> QED
    BY <1>2, <2>1, Zenon DEF Connect, Lists
<1>4. LinesOK'
  BY <1>2, <1>3, Zenon DEF PlaceInv, LinesOK, Connect, Depth
<1> QED
  BY <1>2, <1>4, PoolShrinks, Zenon DEF PlaceInv

LEMMA PlaceSend ==
    ASSUME LaneInv, PlaceInv, NEW c \in Clients, NEW what, Send(c, what)
    PROVE  PlaceInv'
<1>1. \A d \in Clients : client'[d].phase = client[d].phase
                         /\ client'[d].lane = client[d].lane
  BY DEF Send, LaneInv, TypeOK, Client
<1>2. /\ \A l \in Lanes : Queued(l)' = Queued(l) /\ Handled(l)' = Handled(l)
      /\ Unaccepted' = Unaccepted
  BY <1>1, Zenon DEF Queued, Handled, Unaccepted
<1> QED
  BY <1>2, LinesKept, PoolShrinks, Zenon DEF PlaceInv, Send

(* The first connection of the backlog joins the channel of lane k. *)
LEMMA PlaceAdmit ==
    ASSUME LaneInv, PlaceInv, backlog # <<>>, backlog' = Tail(backlog),
           NEW c \in Clients, c = Head(backlog), NEW k \in Lanes,
           Len(channel[k]) < Depth(k),
           client' = [client EXCEPT ![c] = [@ EXCEPT !.phase = "queued", !.lane = k]],
           channel' = [channel EXCEPT ![k] = Append(@, c)]
    PROVE  PlaceInv'
<1> DEFINE r == [client[c] EXCEPT !.phase = "queued", !.lane = k]
<1>t. /\ channel[k] \in Seq(Clients) /\ channel \in [Lanes -> Seq(Clients)]
      /\ Len(channel[k]) \in Nat /\ Depth(k) \in Nat
      /\ client[c].phase = "backlog"
  BY LanesAssumption, FirstUnaccepted DEF LaneInv, TypeOK, Depth, PlaceInv
<1>1. client' = [client EXCEPT ![c] = r] /\ r.phase = "queued" /\ r.lane = k
  BY DEF LaneInv, TypeOK, Client
<1> HIDE DEF r
<1>2. /\ Queued(k)' = Queued(k) \cup {c}
      /\ \A l \in Lanes \ {k} : Queued(l)' = Queued(l)
      /\ \A l \in Lanes : Handled(l)' = Handled(l)
      /\ Unaccepted' = Unaccepted \ {c}
  <2>1. Shifts(c, r) /\ Nowhere(c)
    BY <1>1, Places, Elsewhere, Zenon
  <2> QED
    BY <1>t, <1>1, <2>1, Zenon DEF Shifts, Nowhere
<1>3. Lists(Append(channel[k], c), Queued(k) \cup {c})
  <2>1. c \notin Queued(k)
    BY <1>t, Zenon DEF Queued
  <2> QED
    BY <1>t, <2>1, ListsAppend, ZenonT(30) DEF PlaceInv, LinesOK
<1>4. Lists(channel'[k], Queued(k)') /\ Len(channel'[k]) <= Depth(k)
  BY <1>t, <1>2, <1>3
<1>5. ASSUME NEW l \in Lanes, l # k
      PROVE  Lists(channel'[l], Queued(l)') /\ Len(channel'[l]) <= Depth(l)
  <2>1. channel'[l] = channel[l] /\ Queued(l)' = Queued(l)
    BY <1>t, <1>2, <1>5, Zenon
  <2> QED
    BY <2>1, Zenon DEF PlaceInv, LinesOK
<1>6. Lists(backlog, Unaccepted)'
  BY <1>2, BacklogTaken, Zenon DEF PlaceInv
<1>7. LinesOK'
  BY <1>4, <1>5, <1>6, Zenon DEF LinesOK, Depth, Lists, Queued
<1> QED
  BY <1>2, <1>7, PoolShrinks, Zenon DEF PlaceInv

LEMMA PlaceAccept ==
    ASSUME LaneInv, PlaceInv, Accept \/ AcceptFails
    PROVE  PlaceInv'
<1>0. /\ backlog # <<>> /\ backlog' = Tail(backlog)
      /\ Head(backlog) \in Clients /\ client[Head(backlog)].phase = "backlog"
  BY FirstUnaccepted, Zenon DEF Accept, AcceptFails, PlaceInv
<1>1. ASSUME NEW c \in Clients, c = Head(backlog), UNCHANGED channel,
             NEW p \in {"rejected", "closed"}, End(c, p)
      PROVE  PlaceInv'
  <2>1. /\ \A l \in Lanes : Queued(l)' = Queued(l) /\ PoolOK(l)'
        /\ Unaccepted' = Unaccepted \ {c}
    <3>1. /\ \A l \in Lanes : Queued(l)' = Queued(l) \ {c} /\ PoolOK(l)'
          /\ Unaccepted' = Unaccepted \ {c}
      BY <1>1, EndPlaces, Zenon
    <3>2. Nowhere(c)
      BY Elsewhere, Zenon
    <3> QED
      BY <1>0, <1>1, <3>1, <3>2, ZenonT(30) DEF Nowhere
  <2>2. Lists(backlog, Unaccepted)'
    BY <1>0, <1>1, <2>1, BacklogTaken, Zenon DEF PlaceInv
  <2> QED
    BY <1>1, <2>1, <2>2, Zenon DEF PlaceInv, LinesOK, Depth
<1>2. CASE Accept
  <2>1. PICK c \in Clients, k \in Lanes : c = Head(backlog) /\ k = AdmissionLane(c)
    BY <1>0, AdmissionLaneType, Zenon
  <2> QED
    BY <1>0, <1>1, <1>2, <2>1, PlaceAdmit, ZenonT(30) DEF Accept
<1>3. CASE AcceptFails
  BY <1>0, <1>1, <1>3, Zenon DEF AcceptFails
<1> QED
  BY <1>2, <1>3, Zenon

LEMMA PlaceReceive ==
    ASSUME LaneInv, PlaceInv, NEW k \in Lanes, Receive(k)
    PROVE  PlaceInv'
<1> DEFINE c == Head(channel[k])
           r == [client[c] EXCEPT !.phase = "reading"]
<1>t. /\ channel[k] \in Seq(Clients) /\ channel \in [Lanes -> Seq(Clients)]
      /\ client \in [Clients -> Client] /\ channel[k] # <<>>
      /\ Len(channel[k]) \in Nat /\ Len(Tail(channel[k])) <= Len(channel[k])
      /\ Len(Tail(channel[k])) \in Nat
      /\ Depth(k) \in Nat /\ Workers(k) \in Nat
  BY LanesAssumption DEF LaneInv, TypeOK, Depth, Workers, Receive
<1>1. c \in Queued(k) /\ Lists(Tail(channel[k]), Queued(k) \ {c})
  BY <1>t, ListsTail, Zenon DEF PlaceInv, LinesOK
<1>2. c \in Clients /\ client[c].phase = "queued" /\ client[c].lane = k
  BY <1>1, Zenon DEF Queued
<1>3. /\ client' = [client EXCEPT ![c] = r] /\ r.phase = "reading" /\ r.lane = k
      /\ channel' = [channel EXCEPT ![k] = Tail(@)] /\ backlog' = backlog
  BY <1>t, <1>2, Zenon DEF Receive, Move, Client
<1> HIDE DEF r, c
<1>4. /\ Queued(k)' = Queued(k) \ {c}
      /\ \A l \in Lanes \ {k} : Queued(l)' = Queued(l) /\ Handled(l)' = Handled(l)
      /\ Handled(k)' = Handled(k) \cup {c}
      /\ Unaccepted' = Unaccepted
  <2>1. Shifts(c, r) /\ Nowhere(c)
    BY <1>2, <1>3, Places, Elsewhere, ZenonT(30)
  <2> QED
    BY <1>2, <1>3, <2>1, ZenonT(30) DEF Shifts, Nowhere
<1>5. Lists(channel'[k], Queued(k)') /\ Len(channel'[k]) <= Depth(k)
  <2>1. channel'[k] = Tail(channel[k]) /\ Len(channel[k]) <= Depth(k)
    BY <1>t, <1>3, Zenon DEF PlaceInv, LinesOK
  <2> QED
    BY <1>t, <1>1, <1>4, <2>1, SMTT(30)
<1>8. ASSUME NEW l \in Lanes, l # k
      PROVE  Lists(channel'[l], Queued(l)') /\ Len(channel'[l]) <= Depth(l)
  <2>1. channel'[l] = channel[l] /\ Queued(l)' = Queued(l)
    BY <1>t, <1>3, <1>4, <1>8, Zenon
  <2> QED
    BY <2>1, Zenon DEF PlaceInv, LinesOK
<1>6. LinesOK'
  BY <1>3, <1>4, <1>5, <1>8, ZenonT(30) DEF PlaceInv, LinesOK, Depth, Lists, Queued
<1>7. PoolOK(k)'
  <2>1. /\ IsFiniteSet(Handled(k)) /\ Cardinality(Handled(k)) < Workers(k)
        /\ c \notin Handled(k)
    BY <1>2, Zenon DEF PlaceInv, PoolOK, Receive, Handled
  <2>2. /\ IsFiniteSet(Handled(k)')
        /\ Cardinality(Handled(k)') = Cardinality(Handled(k)) + 1
        /\ Cardinality(Handled(k)) \in Nat
    BY <1>4, <2>1, FS_AddElement, FS_CardinalityType
  <2> QED
    BY <1>t, <2>1, <2>2 DEF PoolOK, Workers
<1> QED
  BY <1>4, <1>6, <1>7, PoolShrinks, ZenonT(30) DEF PlaceInv

(* What a thread does with the connection it handles moves no other. *)
LEMMA PlaceHandle ==
    ASSUME LaneInv, PlaceInv, NEW c \in Clients, Read(c) \/ Respond(c)
    PROVE  PlaceInv'
<1>0. /\ client[c].phase \in {"reading", "working"}
      /\ UNCHANGED <<backlog, channel>>
      /\ Move(c, "working") \/ \E p \in {"closed", "answered"} : End(c, p)
  BY Zenon DEF Read, RefusePeer, ReadFrame, ReadTimeout, Respond
<1>1. CASE Move(c, "working")
  <2> DEFINE r == [client[c] EXCEPT !.phase = "working"]
  <2>1. client' = [client EXCEPT ![c] = r] /\ r.phase = "working" /\ r.lane = client[c].lane
    BY <1>1, Zenon DEF Move, LaneInv, TypeOK, Client
  <2> HIDE DEF r
  <2>2. /\ \A l \in Lanes : Queued(l)' = Queued(l) /\ Handled(l)' \subseteq Handled(l)
        /\ Unaccepted' = Unaccepted
    <3>1. Shifts(c, r) /\ Nowhere(c)
      BY <2>1, Places, Elsewhere, ZenonT(30)
    <3>2. \A l \in Lanes : client[c].lane = l => Handled(l) \cup {c} = Handled(l)
      BY <1>0, Zenon DEF Handled
    <3> QED
      BY <1>0, <2>1, <3>1, <3>2, ZenonT(30) DEF Shifts, Nowhere
  <2> QED
    BY <1>0, <2>2, LinesKept, PoolShrinks, Zenon DEF PlaceInv
<1>2. ASSUME NEW p \in {"closed", "answered"}, End(c, p) PROVE PlaceInv'
  <2>1. /\ \A l \in Lanes : Queued(l)' = Queued(l) /\ PoolOK(l)'
        /\ Unaccepted' = Unaccepted
    <3>1. /\ \A l \in Lanes : Queued(l)' = Queued(l) \ {c} /\ PoolOK(l)'
          /\ Unaccepted' = Unaccepted \ {c}
      BY <1>2, EndPlaces, Zenon
    <3>2. Nowhere(c)
      BY Elsewhere, Zenon
    <3> QED
      BY <1>0, <3>1, <3>2, Zenon DEF Nowhere
  <2> QED
    BY <1>0, <2>1, LinesKept, Zenon DEF PlaceInv
<1> QED
  BY <1>0, <1>1, <1>2, Zenon

LEMMA PlaceInit == Init => PlaceInv
<1> SUFFICES ASSUME Init PROVE PlaceInv
  OBVIOUS
<1>1. \A l \in Lanes : Queued(l) = {} /\ Handled(l) = {} /\ channel[l] = <<>>
  BY DEF Init, NoConnection, Queued, Handled
<1>2. Unaccepted = {} /\ backlog = <<>>
  BY DEF Init, NoConnection, Unaccepted
<1>3. Lists(<<>>, {}) /\ Len(<<>>) = 0
  BY DEF Lists, IsInjective, ToSet
<1>4. \A l \in Lanes : Depth(l) \in Nat /\ Workers(l) \in Nat
  BY LanesAssumption, Zenon DEF Depth, Workers
<1>5. IsFiniteSet({}) /\ Cardinality({}) = 0
  BY FS_EmptySet
<1>6. ASSUME NEW l \in Lanes
      PROVE  Lists(channel[l], Queued(l)) /\ Len(channel[l]) <= Depth(l) /\ PoolOK(l)
  <2>1. Lists(channel[l], Queued(l)) /\ Len(channel[l]) = 0
    BY <1>1, <1>3, Zenon
  <2>2. IsFiniteSet(Handled(l)) /\ Cardinality(Handled(l)) = 0
    BY <1>1, <1>5, Zenon
  <2> QED
    BY <1>4, <2>1, <2>2 DEF PoolOK
<1>7. Lists(backlog, Unaccepted)
  BY <1>2, <1>3, Zenon
<1> QED
  BY <1>6, <1>7, Zenon DEF PlaceInv, LinesOK

LEMMA PlaceStep == LaneInv /\ PlaceInv /\ [Next]_vars => PlaceInv'
<1> SUFFICES ASSUME LaneInv, PlaceInv, [Next]_vars PROVE PlaceInv'
  BY Zenon
<1>1. CASE UNCHANGED vars
  BY <1>1, ZenonT(30)
  DEF vars, PlaceInv, LinesOK, PoolOK, Lists, Queued, Unaccepted, Handled, Depth, Workers
<1> QED
  BY <1>1, PlaceConnect, PlaceSend, PlaceAccept, PlaceReceive, PlaceHandle, ZenonT(30) DEF Next

(* Every accepted connection waits in the channel of one lane, once, or is *)
(* handled by one thread, whatever order clients and threads run in; no    *)
(* channel outgrows its depth and no pool its number of threads.           *)
THEOREM OnePlaceEachHolds == Spec => []OnePlaceEach
<1>1. PlaceInv => OnePlaceEach
  BY DEF PlaceInv, LinesOK, PoolOK, Lists, Queued, Unaccepted, OnePlaceEach
<1> QED
  BY LaneInit, LaneStep, PlaceInit, PlaceStep, <1>1, PTL DEF Spec

=============================================================================
