--------------------------- MODULE RingRefinement ---------------------------
(***************************************************************************)
(* While nodes join and none fails, Ring implements AbstractRing, whatever *)
(* the number of nodes, the length of the lists, the number of exchanges   *)
(* in flight and the order in which they are handled.  Hence the network   *)
(* is never split, its ring is always in order, and first successors only  *)
(* ever get nearer.                                                        *)
(*                                                                         *)
(* The invariant rests on the node b that created the network: nobody      *)
(* points past b.  A member only ever turns to a nearer node, whatever     *)
(* stale answer makes it, and whoever joins is told a successor that is    *)
(* no further than b: the node that answers points no further than b, so b *)
(* does not lie inside the arc on which it finds the joiner.               *)
(***************************************************************************)
EXTENDS RingProofs, PointersProofs

USE IdSpaceAssumption, NodesAssumption, RingAssumption

NoFailures == MaxCrashes = 0 /\ MaxTimeouts = 0

-----------------------------------------------------------------------------
(***************************************************************************)
(* The invariant.                                                          *)
(***************************************************************************)

ListsHold ==
    \A n \in Nodes :
        /\ n \in Members => successor[n][0] # Nil
        /\ \A i \in Index : successor[n][i] \in Members \cup {Nil}

(* Nobody points past b. *)
Anchored(b) ==
    /\ b \in Members
    /\ \A n \in Members : Gap(n, successor[n][0]) <= Gap(n, b)

PredecessorsAreMembers == \A n \in Nodes : predecessor[n] \in Members \cup {Nil}

(* What holds of a call as long as it is in flight. *)
Fits(c, b) ==
    /\ c.to \in Members
    /\ c.kind # "join" => c.from \in Up
    /\ c.kind = "join" =>
          /\ status[c.from] = "joining" /\ c.id = c.from
          /\ c.phase = "rep" =>
                c.res \in Members /\ Gap(c.from, c.res) <= Gap(c.from, b)
    /\ c.kind = "succs" =>
          c.entry # 0 /\ (c.phase = "rep" => c.res \in Members)
    /\ c.kind = "stab" /\ c.phase = "rep" => c.res \in Members \cup {Nil}
    /\ c.kind \in CheckKinds => c.phase = "req"

(* A node joins once at a time. *)
OneJoin ==
    \A c, d \in calls :
        c.from = d.from /\ c.kind = "join" /\ d.kind = "join" => c = d

(* There is a network, and b created it. *)
Network(b) ==
    /\ ListsHold /\ Anchored(b) /\ PredecessorsAreMembers
    /\ (\A c \in calls : Fits(c, b)) /\ OneJoin

(* Nobody has created a network yet. *)
Nobody ==
    /\ \A n \in Nodes : status[n] = "down" /\ predecessor[n] = Nil
    /\ \A n \in Nodes : successor[n] = EmptyList
    /\ calls = {}

Joining == TypeOK /\ (Nobody \/ \E b \in Nodes : Network(b))

-----------------------------------------------------------------------------
(***************************************************************************)
(* A member points at the first entry of its list.                         *)
(***************************************************************************)

LEMMA FirstSuccIsEntry0 ==
    ASSUME NEW n, NEW list \in [Index -> Nodes \cup {Nil}], list[0] # Nil
    PROVE  node_first_alive_succ(list) = 0 /\ FirstSucc(n, list) = list[0]
<1> DEFINE Here(i) == i \in Index /\ list[i] # Nil /\ \A j \in 0 .. i-1 : list[j] = Nil
<1>1. 0 \in Index /\ \A i \in Index : i \in Nat
  BY DEF Index
<1>2. Here(0)
  BY <1>1
<1>3. ASSUME NEW i \in Index, Here(i)
      PROVE  i = 0
  <2>1. i # 0 => 0 \in 0 .. i-1
    BY <1>1
  <2> QED
    BY <1>3, <2>1
<1>4. node_first_alive_succ(list) =
        CHOOSE i \in Index : list[i] # Nil /\ \A j \in 0 .. i-1 : list[j] = Nil
  BY <1>1 DEF node_first_alive_succ
<1>5. node_first_alive_succ(list) = 0
  BY <1>1, <1>2, <1>3, <1>4
<1> QED
  BY <1>5 DEF FirstSucc, SuccAt

PointsAreEntries ==
    /\ Points = [n \in Nodes |-> IF n \in Members THEN successor[n][0] ELSE Nil]
    /\ Shape(Points) /\ Pointing(Points) = Members /\ Closed(Points)
    /\ \A n \in Members : First(n) = successor[n][0] /\ First(n) \in Members

LEMMA PointsFacts == TypeOK /\ ListsHold => PointsAreEntries
<1> SUFFICES ASSUME TypeOK, ListsHold
             PROVE  PointsAreEntries
  OBVIOUS
<1>1. 0 \in Index
  BY DEF Index
<1>2. ASSUME NEW n \in Members
      PROVE  First(n) = successor[n][0] /\ First(n) \in Members
  <2>1. n \in Nodes /\ successor[n] \in [Index -> Nodes \cup {Nil}]
    BY DEF Members, TypeOK
  <2>2. successor[n][0] # Nil /\ successor[n][0] \in Members \cup {Nil}
    BY <1>1, <2>1 DEF ListsHold
  <2> QED
    BY <2>1, <2>2, FirstSuccIsEntry0 DEF First
<1>3. Points = [n \in Nodes |-> IF n \in Members THEN First(n) ELSE Nil]
  BY DEF Points, Members
<1>4. \A n \in Members : n \in Nodes /\ n # Nil
  BY DEF Members
<1>5. Shape(Points) /\ Pointing(Points) = Members
  BY <1>2, <1>3, <1>4 DEF Shape, Pointing
<1>6. Closed(Points)
  BY <1>2, <1>3, <1>4, <1>5 DEF Closed
<1> QED
  BY <1>2, <1>3, <1>4, <1>5, <1>6 DEF PointsAreEntries

(* A call to a member goes out. *)
LEMMA ConnectToMember ==
    ASSUME NEW c, c.to \in Members
    PROVE  Connect(c) = {c}
BY DEF Connect, Running, Members

-----------------------------------------------------------------------------
(***************************************************************************)
(* What a network does for the ring.                                       *)
(***************************************************************************)

LEMMA NetworkPoints ==
    ASSUME TypeOK, NEW b \in Nodes, Network(b)
    PROVE  PointsAreEntries /\ Anchor(Points, b)
<1>1. PointsAreEntries
  BY PointsFacts DEF Network
<1>2. \A n \in Members : Points[n] = successor[n][0]
  BY <1>1 DEF PointsAreEntries, Members
<1> QED
  BY <1>1, <1>2 DEF Anchor, Network, Anchored, PointsAreEntries

LEMMA NetworkPointsNext ==
    ASSUME TypeOK', NEW b \in Nodes, Network(b)'
    PROVE  PointsAreEntries'
<1>1. (TypeOK /\ ListsHold => PointsAreEntries)'
  BY PointsFacts, PTL
<1> QED
  BY <1>1 DEF Network

LEMMA NobodyPoints ==
    ASSUME Nobody
    PROVE  Members = {} /\ Points = [n \in Nodes |-> Nil]
BY DEF Nobody, Members, Points

LEMMA JoiningIsSound == Joining => OneRing /\ Ordered
<1>1. ASSUME Nobody
      PROVE  Connected(Points) /\ InOrder(Points)
  <2>1. Pointing(Points) = {}
    BY <1>1, NobodyPoints DEF Pointing
  <2> QED
    BY <2>1 DEF Connected, Closed, InOrder, Core
<1>2. ASSUME TypeOK, NEW b \in Nodes, Network(b)
      PROVE  Connected(Points) /\ InOrder(Points)
  BY <1>2, NetworkPoints, AnchorConnects, AnchorOrders DEF PointsAreEntries
<1> QED
  BY <1>1, <1>2 DEF Joining, OneRing, Ordered

-----------------------------------------------------------------------------
(***************************************************************************)
(* Steps that change nobody's first successor.                             *)
(***************************************************************************)

LEMMA FitsKept ==
    ASSUME NEW c, NEW b, Fits(c, b), Members \subseteq Members', Up \subseteq Up',
           c.kind = "join" => status'[c.from] = "joining"
    PROVE  Fits(c, b)'
BY DEF Fits

Implemented(b) == Network(b)' /\ [Abs!Next]_Points

LEMMA SamePoints ==
    ASSUME TypeOK, TypeOK', NEW b \in Nodes, Network(b), Members' = Members,
           \A n \in Nodes : successor'[n][0] = successor[n][0],
           ListsHold', PredecessorsAreMembers', OneJoin',
           \A d \in calls' : Fits(d, b)'
    PROVE  Implemented(b)
<1>1. Anchored(b)'
  BY DEF Network, Anchored, Members
<1>2. Network(b)'
  BY <1>1 DEF Network
<1>3. PointsAreEntries /\ PointsAreEntries'
  BY <1>2, NetworkPoints, NetworkPointsNext
<1>4. Points' = Points
  BY <1>3 DEF PointsAreEntries
<1> QED
  BY <1>2, <1>4 DEF Implemented

(* Steps that change neither a list nor what the process is at.            *)
LEMMA QuietStep ==
    ASSUME TypeOK, TypeOK', NEW b \in Nodes, Network(b),
           UNCHANGED <<status, successor>>, PredecessorsAreMembers', OneJoin',
           \A d \in calls' : d \in calls \/ Fits(d, b)
    PROVE  Implemented(b)
<1>1. Members' = Members /\ Up' = Up
  BY DEF Members, Up
<1>2. ListsHold'
  BY <1>1 DEF Network, ListsHold
<1>3. ASSUME NEW d \in calls'
      PROVE  Fits(d, b)'
  <2>1. Fits(d, b)
    BY DEF Network
  <2> QED
    BY <1>1, <2>1, FitsKept DEF Fits
<1> QED
  BY <1>1, <1>2, <1>3, SamePoints

(* Timers and handlers that send calls other than joins.                   *)
LEMMA QuietSend ==
    ASSUME TypeOK, TypeOK', NEW b \in Nodes, Network(b),
           UNCHANGED <<status, successor, predecessor>>,
           NEW N, calls' \subseteq calls \cup N,
           \A d \in N : d.kind # "join" /\ Fits(d, b)
    PROVE  Implemented(b)
<1>1. Members' = Members
  BY DEF Members
<1>2. PredecessorsAreMembers'
  BY <1>1 DEF Network, PredecessorsAreMembers
<1>3. OneJoin'
  BY DEF Network, OneJoin
<1> QED
  BY <1>2, <1>3, QuietStep

(* A call takes the place of one of the same node and kind.                *)
LEMMA QuietReplace ==
    ASSUME TypeOK, TypeOK', NEW b \in Nodes, Network(b),
           UNCHANGED <<status, successor, predecessor>>,
           NEW c \in calls, NEW d, d.from = c.from, d.kind = c.kind, Fits(d, b),
           calls' \subseteq (calls \ {c}) \cup {d}
    PROVE  Implemented(b)
<1>1. Members' = Members
  BY DEF Members
<1>2. PredecessorsAreMembers'
  BY <1>1 DEF Network, PredecessorsAreMembers
<1>3. OneJoin'
  BY DEF Network, OneJoin
<1> QED
  BY <1>2, <1>3, QuietStep

-----------------------------------------------------------------------------
(***************************************************************************)
(* Quiet steps of the handlers.                                            *)
(***************************************************************************)

(***************************************************************************)
(* The answer to a join: x is the node that answers and s its successor.   *)
(* If x is its own successor it is b; else the joiner n is on the arc from *)
(* x to s, and b, which x does not point past, is not before s.            *)
(***************************************************************************)
LEMMA AnsweredNoFurtherThanAnchor ==
    ASSUME NEW x \in Id, NEW s \in Id, NEW n \in Id, NEW b \in Id,
           n # x, n # b, n # s,
           Gap(x, s) <= Gap(x, b), Answers(x, n, s)
    PROVE  Gap(n, s) <= Gap(n, b)
BY DEF Answers, node_id_in_range, Gap, Dist, Id

LEMMA LookupHandled ==
    ASSUME TypeOK, TypeOK', NEW b \in Nodes, Network(b), NEW c \in calls, HandleLookup(c)
    PROVE  Implemented(b)
<1> DEFINE x == c.to
           s == FirstSucc(x, successor[x])
           answered == [c EXCEPT !.phase = "rep", !.res = s]
           passed   == [c EXCEPT !.relays = Append(c.relays, x), !.to = s]
<1>1. /\ c \in Call /\ Fits(c, b) /\ c.kind \in LookupKinds /\ c.phase = "req"
      /\ x \in Members /\ c.id # x
      /\ UNCHANGED <<status, successor, predecessor>>
  BY DEF TypeOK, Network, Fits, HandleLookup
<1>2. s = successor[x][0] /\ s \in Members
  BY <1>1, NetworkPoints DEF PointsAreEntries, First
<1>3. /\ x \in Id /\ s \in Id /\ b \in Id /\ c.from \in Id
      /\ Gap(x, s) <= Gap(x, b)
  BY <1>1, <1>2 DEF Members, Network, Anchored, Call
<1>4. CASE Answers(x, c.id, s)
  <2>1. /\ answered.kind = c.kind /\ answered.to = c.to /\ answered.from = c.from
        /\ answered.id = c.id /\ answered.entry = c.entry /\ answered.res = s
    BY <1>1 DEF Call
  <2>2. calls' \subseteq (calls \ {c}) \cup {answered}
    BY <1>4 DEF HandleLookup
  <2> HIDE DEF answered
  <2>3. c.kind = "join" => Gap(c.from, s) <= Gap(c.from, b)
    <3>1. SUFFICES ASSUME c.kind = "join"
                   PROVE  Gap(c.from, s) <= Gap(c.from, b)
      OBVIOUS
    <3>2. c.id = c.from /\ status[c.from] = "joining"
      BY <1>1, <3>1 DEF Fits
    <3>3. c.from # b /\ c.from # s
      BY <1>2, <3>2 DEF Network, Anchored, Members
    <3> HIDE DEF s
    <3> QED
      BY <1>1, <1>3, <1>4, <3>2, <3>3, AnsweredNoFurtherThanAnchor
  <2>4. Fits(answered, b)
    BY <1>1, <1>2, <2>1, <2>3 DEF Fits, LookupKinds, CheckKinds
  <2> QED
    BY <1>1, <2>1, <2>2, <2>4, QuietReplace
<1>5. CASE ~Answers(x, c.id, s)
  <2>1. /\ passed.kind = c.kind /\ passed.to = s /\ passed.from = c.from
        /\ passed.id = c.id /\ passed.entry = c.entry /\ passed.phase = "req"
    BY <1>1 DEF Call
  <2>2. Connect(passed) = {passed}
    BY <1>2, <2>1, ConnectToMember
  <2>3. calls' \subseteq (calls \ {c}) \cup {passed}
    BY <1>5, <2>2 DEF HandleLookup
  <2> HIDE DEF passed
  <2>4. Fits(passed, b)
    BY <1>1, <1>2, <2>1 DEF Fits, LookupKinds, CheckKinds
  <2> QED
    BY <1>1, <2>1, <2>3, <2>4, QuietReplace
<1> QED
  BY <1>4, <1>5

LEMMA ReplyRelayed ==
    ASSUME TypeOK, TypeOK', NEW b \in Nodes, Network(b), NEW c \in calls, RelayReply(c)
    PROVE  Implemented(b)
<1> DEFINE d == [c EXCEPT !.relays = SubSeq(c.relays, 1, Len(c.relays) - 1)]
<1>1. c \in Call /\ Fits(c, b)
  BY DEF TypeOK, Network
<1>2. calls' \subseteq (calls \ {c}) \cup {d} /\ UNCHANGED <<status, successor, predecessor>>
  BY DEF RelayReply
<1>3. /\ d.kind = c.kind /\ d.to = c.to /\ d.from = c.from /\ d.phase = c.phase
      /\ d.entry = c.entry /\ d.res = c.res /\ d.id = c.id
  BY <1>1 DEF Call
<1> HIDE DEF d
<1>4. Fits(d, b)
  BY <1>1, <1>3 DEF Fits
<1> QED
  BY <1>2, <1>3, <1>4, QuietReplace

LEMMA PredHandled ==
    ASSUME TypeOK, TypeOK', NEW b \in Nodes, Network(b), NEW c \in calls, HandlePred(c)
    PROVE  Implemented(b)
<1> DEFINE d == [c EXCEPT !.phase = "rep", !.res = predecessor[c.to]]
<1>1. c \in Call /\ Fits(c, b) /\ c.kind = "stab"
  BY DEF TypeOK, Network, HandlePred
<1>2. calls' \subseteq (calls \ {c}) \cup {d} /\ UNCHANGED <<status, successor, predecessor>>
  BY DEF HandlePred
<1>3. /\ d.kind = c.kind /\ d.to = c.to /\ d.from = c.from
      /\ d.res = predecessor[c.to]
  BY <1>1 DEF Call
<1> HIDE DEF d
<1>4. predecessor[c.to] \in Members \cup {Nil}
  BY <1>1 DEF Network, PredecessorsAreMembers, Call
<1>5. Fits(d, b)
  BY <1>1, <1>3, <1>4 DEF Fits, CheckKinds
<1> QED
  BY <1>2, <1>3, <1>5, QuietReplace

LEMMA NotifHandled ==
    ASSUME TypeOK, TypeOK', NEW b \in Nodes, Network(b), NEW c \in calls, HandleNotif(c)
    PROVE  Implemented(b)
<1>1. c \in Call /\ Fits(c, b) /\ c.kind = "notif"
  BY DEF TypeOK, Network, HandleNotif
<1>2. /\ calls' \subseteq calls /\ UNCHANGED <<status, successor>>
      /\ \/ predecessor' = predecessor
         \/ predecessor' = [predecessor EXCEPT ![c.to] = c.from]
  BY DEF HandleNotif
<1>3. OneJoin'
  BY <1>2 DEF Network, OneJoin
<1>4. c.from \in Members /\ Members' = Members
  BY <1>1, <1>2 DEF Fits, Members, Up
<1>5. PredecessorsAreMembers'
  BY <1>2, <1>4 DEF Network, PredecessorsAreMembers, TypeOK
<1> QED
  BY <1>2, <1>3, <1>5, QuietStep

LEMMA AliveReplied ==
    ASSUME TypeOK, TypeOK', NEW b \in Nodes, Network(b), NEW c \in calls, AliveReply(c)
    PROVE  Implemented(b)
<1>1. PICK N : N = {}
  OBVIOUS
<1>2. calls' \subseteq calls \cup N /\ UNCHANGED <<status, successor, predecessor>>
  BY DEF AliveReply
<1> QED
  BY <1>1, <1>2, QuietSend

-----------------------------------------------------------------------------
(***************************************************************************)
(* Quiet steps of the timers.                                              *)
(***************************************************************************)

(* What stabilisation sends, and the walk when it starts.                  *)
LEMMA StabSends ==
    ASSUME TypeOK, NEW b \in Nodes, Network(b), NEW n \in Members, NEW no,
           NEW d \in StabCall(n, no, successor[n])
    PROVE  d.to \in Members /\ d.from = n /\ d.kind = "stab" /\ d.phase = "req"
<1> DEFINE s == FirstSucc(n, successor[n])
           r == Request("stab", no, n, s, n, 0)
<1>1. s \in Members
  BY NetworkPoints DEF PointsAreEntries, First
<1>2. r.to = s /\ r.from = n /\ r.kind = "stab" /\ r.phase = "req"
  BY DEF Request
<1>3. StabCall(n, no, successor[n]) = Connect(r)
  BY DEF StabCall
<1> HIDE DEF r
<1>4. Connect(r) = {r}
  BY <1>1, <1>2, ConnectToMember
<1> QED
  BY <1>1, <1>2, <1>3, <1>4

LEMMA WalkSends ==
    ASSUME TypeOK, NEW b \in Nodes, Network(b), NEW n \in Members, NEW no,
           NEW d \in UpdateCall(n, no, successor[n])
    PROVE  /\ d.to \in Members /\ d.from = n /\ d.kind = "succs" /\ d.phase = "req"
           /\ d.entry = 1
<1> DEFINE s == successor[n][0]
           r == Request("succs", no, n, s, IdPlus(s, 1), 1)
<1>1. s \in Members /\ successor[n] \in [Index -> Nodes \cup {Nil}] /\ s # Nil
  BY NetworkPoints DEF PointsAreEntries, Members, TypeOK
<1>2. node_first_alive_succ(successor[n]) = 0
  BY <1>1, FirstSuccIsEntry0
<1>3. UpdateCall(n, no, successor[n]) = Connect(r)
  BY <1>1, <1>2 DEF UpdateCall, node_update_succ, SuccAt
<1>4. r.to = s /\ r.from = n /\ r.kind = "succs" /\ r.phase = "req" /\ r.entry = 1
  BY DEF Request
<1> HIDE DEF r
<1>5. Connect(r) = {r}
  BY <1>1, <1>4, ConnectToMember
<1> QED
  BY <1>1, <1>3, <1>4, <1>5

LEMMA StabiliseSent ==
    ASSUME TypeOK, TypeOK', NEW b \in Nodes, Network(b), NEW n \in Nodes, Stabilise(n)
    PROVE  Implemented(b)
<1>1. PICK no \in Numbers(n, StabKinds) : Timer(n, StabCall(n, no, successor[n]))
  BY DEF Stabilise
<1>2. /\ n \in Members /\ n \in Up /\ UNCHANGED <<status, successor, predecessor>>
      /\ calls' \subseteq calls \cup StabCall(n, no, successor[n])
  BY <1>1 DEF Timer, Members, Up
<1>3. ASSUME NEW d \in StabCall(n, no, successor[n])
      PROVE  d.kind # "join" /\ Fits(d, b)
  BY <1>2, StabSends DEF Fits, CheckKinds
<1> QED
  BY <1>2, <1>3, QuietSend

LEMMA WalkSent ==
    ASSUME TypeOK, TypeOK', NEW b \in Nodes, Network(b), NEW n \in Nodes, UpdateSuccs(n)
    PROVE  Implemented(b)
<1>1. PICK no \in Numbers(n, LookupKinds) : Timer(n, UpdateCall(n, no, successor[n]))
  BY DEF UpdateSuccs
<1>2. /\ n \in Members /\ n \in Up /\ UNCHANGED <<status, successor, predecessor>>
      /\ calls' \subseteq calls \cup UpdateCall(n, no, successor[n])
  BY <1>1 DEF Timer, Members, Up
<1>3. ASSUME NEW d \in UpdateCall(n, no, successor[n])
      PROVE  d.kind # "join" /\ Fits(d, b)
  BY <1>2, WalkSends DEF Fits, CheckKinds
<1> QED
  BY <1>2, <1>3, QuietSend

(* Liveness checks are sent to members, so they go out. *)
LEMMA ChecksSent ==
    ASSUME TypeOK, TypeOK', NEW b \in Nodes, Network(b), NEW n \in Nodes,
           CheckSuccs(n) \/ CheckPred(n)
    PROVE  Implemented(b)
<1>1. n \in Up /\ UNCHANGED <<status, successor, predecessor>>
  BY DEF CheckSuccs, CheckPred, Timer, Up
<1>2. ASSUME NEW m \in Members, NEW kind \in CheckKinds, NEW i,
             NEW d \in Connect(Request(kind, 1, n, m, n, i))
      PROVE  d.kind # "join" /\ Fits(d, b)
  <2> DEFINE r == Request(kind, 1, n, m, n, i)
  <2>1. r.to = m /\ r.from = n /\ r.kind = kind /\ r.phase = "req"
    BY DEF Request
  <2> HIDE DEF r
  <2>2. Connect(r) = {r}
    BY <2>1, ConnectToMember
  <2>3. d = r
    BY <1>2, <2>2 DEF r
  <2> QED
    BY <1>1, <2>1, <2>3 DEF Fits, CheckKinds
<1>3. PICK N : calls' \subseteq calls \cup N /\ \A d \in N : d.kind # "join" /\ Fits(d, b)
  <2>1. CASE CheckSuccs(n)
    <3>1. calls' = calls \cup CheckCalls(n)
      BY <2>1 DEF CheckSuccs, Timer
    <3>2. \A i \in Index : successor[n][i] # Nil => successor[n][i] \in Members
      BY DEF Network, ListsHold
    <3>3. \A d \in CheckCalls(n) : d.kind # "join" /\ Fits(d, b)
      BY <1>2, <3>2 DEF CheckCalls, CheckKinds
    <3> QED
      BY <3>1, <3>3
  <2>2. CASE CheckPred(n)
    <3>1. /\ predecessor[n] # Nil
          /\ calls' = calls \cup Connect(Request("check_pred", 1, n, predecessor[n], n, 0))
      BY <2>2 DEF CheckPred, Timer
    <3>2. predecessor[n] \in Members
      BY <3>1 DEF Network, PredecessorsAreMembers
    <3> QED
      BY <1>2, <3>1, <3>2 DEF CheckKinds
  <2> QED
    BY <2>1, <2>2
<1> QED
  BY <1>1, <1>3, QuietSend

-----------------------------------------------------------------------------
(***************************************************************************)
(* Steps that change what a process is at, or a list after its first entry.*)
(***************************************************************************)

LEMMA JoinImplemented ==
    ASSUME TypeOK, TypeOK', NEW b \in Nodes, Network(b), NEW n \in Nodes, NEW m \in Nodes,
           Join(n, m)
    PROVE  Implemented(b)
<1> DEFINE d == Request("join", 1, n, m, n, 0)
<1>1. /\ status[n] = "down" /\ status[m] = "up" /\ calls' = calls \cup {d}
      /\ status' = [status EXCEPT ![n] = "joining"] /\ status \in [Nodes -> Status]
      /\ UNCHANGED <<successor, predecessor>>
  BY DEF Join, Running, TypeOK
<1>2. Members' = Members /\ Up' = Up
  BY <1>1 DEF Members, Up
<1>3. ListsHold' /\ PredecessorsAreMembers'
  BY <1>1, <1>2 DEF Network, ListsHold, PredecessorsAreMembers
<1>4. d.kind = "join" /\ d.from = n /\ d.to = m /\ d.phase = "req" /\ d.id = n
  BY DEF Request
<1> HIDE DEF d
<1>5. ASSUME NEW e \in calls
      PROVE  Fits(e, b)' /\ ~(e.from = n /\ e.kind = "join")
  <2>1. Fits(e, b) /\ e.from \in Nodes
    BY DEF Network, TypeOK, Call
  <2>2. e.kind = "join" => e.from # n /\ status'[e.from] = "joining"
    BY <1>1, <2>1 DEF Fits
  <2> QED
    BY <1>2, <2>1, <2>2, FitsKept
<1>6. Fits(d, b)'
  BY <1>1, <1>2, <1>4 DEF Fits, Members, CheckKinds
<1>7. OneJoin'
  BY <1>1, <1>4, <1>5 DEF Network, OneJoin
<1> QED
  BY <1>1, <1>2, <1>3, <1>5, <1>6, <1>7, SamePoints

LEMMA JoinedImplemented ==
    ASSUME TypeOK, TypeOK', NEW b \in Nodes, Network(b), NEW n \in Nodes, Joined(n)
    PROVE  Implemented(b)
<1> DEFINE N == StabCall(n, 1, successor[n]) \cup UpdateCall(n, 1, successor[n])
<1>1. /\ status[n] = "ready" /\ calls' = calls \cup N
      /\ status' = [status EXCEPT ![n] = "up"] /\ status \in [Nodes -> Status]
      /\ UNCHANGED <<successor, predecessor>>
  BY DEF Joined, TypeOK
<1>2. Members' = Members /\ n \in Members /\ Up' = Up \cup {n}
  BY <1>1 DEF Members, Up
<1>3. ListsHold' /\ PredecessorsAreMembers'
  BY <1>1, <1>2 DEF Network, ListsHold, PredecessorsAreMembers
<1>4. \A e \in N : /\ e.to \in Members /\ e.from = n /\ e.phase = "req"
                   /\ \/ e.kind = "stab"
                      \/ e.kind = "succs" /\ e.entry = 1
  BY <1>2, StabSends, WalkSends
<1> HIDE DEF N
<1>5. ASSUME NEW e \in calls
      PROVE  Fits(e, b)'
  <2>1. Fits(e, b) /\ e.from \in Nodes
    BY DEF Network, TypeOK, Call
  <2>2. e.kind = "join" => status'[e.from] = "joining"
    BY <1>1, <2>1 DEF Fits
  <2> QED
    BY <1>2, <2>1, <2>2, FitsKept
<1>6. \A e \in N : Fits(e, b)'
  BY <1>2, <1>4 DEF Fits, CheckKinds
<1>7. OneJoin'
  BY <1>1, <1>4 DEF Network, OneJoin
<1> QED
  BY <1>1, <1>2, <1>3, <1>5, <1>6, <1>7, SamePoints

(***************************************************************************)
(* The walk down the list never writes the first entry: it starts there    *)
(* and fills the ones after it.                                            *)
(***************************************************************************)
LEMMA WalkImplemented ==
    ASSUME TypeOK, TypeOK', NEW b \in Nodes, Network(b), NEW c \in calls, SuccsFound(c)
    PROVE  Implemented(b)
<1> DEFINE n == c.from
           k == c.entry
           list == IF k \in Index THEN [successor[n] EXCEPT ![k] = c.res] ELSE successor[n]
           N == IF Continues(k) THEN node_update_succ(n, c.no, list, k) ELSE {}
<1>1. /\ c \in Call /\ Fits(c, b) /\ c.kind = "succs" /\ c.phase = "rep"
      /\ successor' = [successor EXCEPT ![n] = list]
      /\ calls' = (calls \ {c}) \cup N
      /\ UNCHANGED <<status, predecessor>>
  BY DEF TypeOK, Network, SuccsFound
<1>2. /\ c.res \in Members /\ k # 0 /\ k \in Nat /\ n \in Up /\ n \in Nodes
      /\ successor \in [Nodes -> [Index -> Nodes \cup {Nil}]]
  BY <1>1 DEF Fits, Call, TypeOK
<1>3. Members' = Members /\ Up' = Up /\ 0 \in Index
  BY <1>1 DEF Members, Up, Index
<1>4. /\ list \in [Index -> Nodes \cup {Nil}] /\ list[0] = successor[n][0]
      /\ \A i \in Index : list[i] = successor[n][i] \/ list[i] = c.res
      /\ k \in Index => list[k] = c.res
  BY <1>2, <1>3 DEF Members
<1> HIDE DEF list
<1>5. \A m \in Nodes : successor'[m][0] = successor[m][0]
  BY <1>1, <1>2, <1>4
<1>6. ListsHold' /\ PredecessorsAreMembers'
  <2>1. \A m \in Nodes : \A i \in Index :
           successor'[m][i] = successor[m][i] \/ successor'[m][i] = c.res
    BY <1>1, <1>2, <1>4
  <2> QED
    BY <1>1, <1>2, <1>3, <1>5, <2>1 DEF Network, ListsHold, PredecessorsAreMembers
<1>7. ASSUME NEW d \in N
      PROVE  Fits(d, b)' /\ d.kind = "succs"
  <2> DEFINE r == Request("succs", c.no, n, c.res, IdPlus(c.res, 1), k + 1)
  <2>1. k \in Index
    BY <1>2, <1>7 DEF Continues, Index
  <2>2. r.to = c.res /\ r.from = n /\ r.kind = "succs" /\ r.phase = "req" /\ r.entry = k + 1
    BY DEF Request
  <2>3. node_update_succ(n, c.no, list, k) = Connect(r)
    BY <1>2, <1>4, <2>1 DEF node_update_succ, SuccAt, Members, Index
  <2> HIDE DEF r
  <2>4. d = r
    BY <1>2, <1>7, <2>2, <2>3, ConnectToMember
  <2> QED
    BY <1>2, <1>3, <2>2, <2>4 DEF Fits, CheckKinds
<1> HIDE DEF N
<1>8. OneJoin'
  BY <1>1, <1>7 DEF Network, OneJoin
<1>9. ASSUME NEW e \in calls
      PROVE  Fits(e, b)'
  <2>1. Fits(e, b)
    BY DEF Network
  <2> QED
    BY <1>1, <1>3, <2>1, FitsKept DEF Fits
<1> QED
  BY <1>1, <1>3, <1>5, <1>6, <1>7, <1>8, <1>9, SamePoints

-----------------------------------------------------------------------------
(***************************************************************************)
(* The steps of AbstractRing.                                              *)
(***************************************************************************)

(* The node that creates the network anchors it. *)
LEMMA CreateImplemented ==
    ASSUME Nobody, TypeOK, TypeOK', NEW n \in Nodes, Create(n)
    PROVE  Implemented(n)
<1>1. /\ \A m \in Nodes : status[m] = "down" /\ successor[m] = EmptyList
      /\ \A m \in Nodes : predecessor[m] = Nil
      /\ status' = [status EXCEPT ![n] = "ready"]
      /\ successor' = [successor EXCEPT ![n][0] = n]
      /\ predecessor' = [predecessor EXCEPT ![n] = n]
      /\ calls' = {} /\ 0 \in Index
      /\ status \in [Nodes -> Status]
      /\ successor \in [Nodes -> [Index -> Nodes \cup {Nil}]]
      /\ predecessor \in [Nodes -> Nodes \cup {Nil}]
  BY DEF Create, Nobody, TypeOK, Index
<1>2. Members' = {n}
  BY <1>1 DEF Members
<1>3. ListsHold' /\ PredecessorsAreMembers'
  BY <1>1, <1>2 DEF ListsHold, PredecessorsAreMembers, EmptyList
<1>4. successor'[n][0] = n
  BY <1>1
<1>5. Anchored(n)'
  BY <1>2, <1>4, GapType DEF Anchored
<1>6. Network(n)'
  BY <1>1, <1>3, <1>5 DEF Network, OneJoin
<1>7. PointsAreEntries'
  BY <1>6, NetworkPointsNext
<1>8. Points = [m \in Nodes |-> Nil]
  BY NobodyPoints
<1>9. Points' = [Points EXCEPT ![n] = n]
  BY <1>2, <1>4, <1>7, <1>8 DEF PointsAreEntries
<1>10. Abs!Create(n)
  BY <1>8, <1>9 DEF Abs!Create
<1> QED
  BY <1>6, <1>10 DEF Implemented, Abs!Next

(* The node that has found its successor points no further than b.         *)
LEMMA JoinFoundImplemented ==
    ASSUME TypeOK, TypeOK', NEW b \in Nodes, Network(b), NEW c \in calls, JoinFound(c)
    PROVE  Implemented(b)
<1> DEFINE n == c.from
           s == c.res
<1>1. /\ c \in Call /\ Fits(c, b) /\ c.kind = "join" /\ c.phase = "rep"
      /\ successor' = [successor EXCEPT ![n][0] = s]
      /\ status' = [status EXCEPT ![n] = "ready"]
      /\ calls' = calls \ {c} /\ predecessor' = predecessor
  BY DEF TypeOK, Network, JoinFound
<1>2. /\ s \in Members /\ status[n] = "joining" /\ n \in Nodes /\ 0 \in Index
      /\ Gap(n, s) <= Gap(n, b)
      /\ status \in [Nodes -> Status]
      /\ successor \in [Nodes -> [Index -> Nodes \cup {Nil}]]
  BY <1>1 DEF Fits, Call, TypeOK, Index
<1>3. \A e \in calls \ {c} : e.kind = "join" => e.from # n
  BY <1>1 DEF Network, OneJoin
<1> HIDE DEF n, s
<1>4. Members' = Members \cup {n} /\ n \notin Members /\ s \in Nodes /\ s # Nil /\ Up' = Up
  BY <1>1, <1>2 DEF Members, Up
<1>5. ListsHold' /\ PredecessorsAreMembers'
  BY <1>1, <1>2, <1>4 DEF Network, ListsHold, PredecessorsAreMembers
<1>6. Anchored(b)'
  BY <1>1, <1>2, <1>4 DEF Network, Anchored, Members
<1>7. ASSUME NEW e \in calls'
      PROVE  Fits(e, b)'
  <2>1. Fits(e, b) /\ e.from \in Nodes /\ e \in calls \ {c}
    BY <1>1 DEF Network, TypeOK, Call
  <2>2. e.kind = "join" => status'[e.from] = "joining"
    BY <1>1, <1>2, <1>3, <2>1 DEF Fits
  <2> QED
    BY <1>4, <2>1, <2>2, FitsKept
<1>8. OneJoin'
  BY <1>1 DEF Network, OneJoin
<1>9. Network(b)'
  BY <1>5, <1>6, <1>7, <1>8 DEF Network
<1>10. PointsAreEntries /\ PointsAreEntries' /\ Anchor(Points, b)
  BY <1>9, NetworkPoints, NetworkPointsNext
<1>11. Points' = [Points EXCEPT ![n] = s]
  <2>1. \A m \in Nodes : Points'[m] = IF m = n THEN s ELSE Points[m]
    BY <1>1, <1>2, <1>4, <1>10 DEF PointsAreEntries
  <2> QED
    BY <2>1, <1>10 DEF PointsAreEntries, Shape
<1>12. Abs!Enter(n, s)
  <2>1. Abs!Anchor(Points, b) /\ Abs!Gap(n, s) <= Abs!Gap(n, b)
    BY <1>2, <1>10
    DEF Anchor, Abs!Anchor, Pointing, Abs!Pointing, Gap, Abs!Gap, Dist, Abs!Dist
  <2> QED
    BY <1>11, <2>1 DEF Abs!Enter
<1>13. n \in Nodes \ Abs!Pointing(Points) /\ s \in Abs!Pointing(Points)
  BY <1>2, <1>4, <1>10 DEF PointsAreEntries, Pointing, Abs!Pointing
<1> QED
  BY <1>9, <1>12, <1>13 DEF Implemented, Abs!Next

(***************************************************************************)
(* The test of node_stabilize_sp_found: a node other than the present      *)
(* successor that is adopted is strictly nearer.                           *)
(***************************************************************************)
LEMMA AdoptedIsNearer ==
    ASSUME NEW n \in Id, NEW p \in Id, NEW s \in Id, p # s,
           s = n \/ node_id_in_range(p, IdPlus(n, 1), s)
    PROVE  Gap(n, p) < Gap(n, s)
<1>1. AdoptionIsCloser(p, n, s)
  BY AdoptionOnlyCloser
<1>2. s = n \/ Gap(n, p) <= Gap(n, s)
  BY <1>1 DEF AdoptionIsCloser
<1> QED
  BY <1>2 DEF Gap, Dist, Id

(* Adopting is a turn, whichever successor the answer came from.           *)
LEMMA StabImplemented ==
    ASSUME TypeOK, TypeOK', NEW b \in Nodes, Network(b), NEW c \in calls, StabFound(c)
    PROVE  Implemented(b)
<1> DEFINE n == c.from
           p == c.res
           s == successor[n][0]
<1>0. PICK list : list = IF Adopts(n, p) THEN [successor[n] EXCEPT ![0] = p]
                                         ELSE successor[n]
  OBVIOUS
<1>1. PICK notif : notif = Request("notif", c.no, n, FirstSucc(n, list), n, 0)
  OBVIOUS
<1>2. /\ c \in Call /\ Fits(c, b) /\ c.kind = "stab" /\ c.phase = "rep"
      /\ successor' = [successor EXCEPT ![n] = list]
      /\ calls' = (calls \ {c}) \cup Connect(notif)
      /\ UNCHANGED <<status, predecessor>>
  BY <1>0, <1>1 DEF TypeOK, Network, StabFound
<1>3. /\ n \in Nodes /\ n \in Members /\ n \in Up /\ p \in Members \cup {Nil}
      /\ 0 \in Index /\ successor \in [Nodes -> [Index -> Nodes \cup {Nil}]]
  BY <1>2 DEF Fits, Call, TypeOK, Index, Up, Members
<1>4. PointsAreEntries /\ Anchor(Points, b)
  BY NetworkPoints
<1>5. FirstSucc(n, successor[n]) = s /\ Points[n] = s /\ s \in Members
  BY <1>3, <1>4 DEF PointsAreEntries, First
<1> HIDE DEF n, p, s
<1>6. Members' = Members /\ Up' = Up /\ \A m \in Members : m \in Nodes /\ m \in Id /\ m # Nil
  BY <1>2 DEF Members, Up
<1>7. \/ list = successor[n]
      \/ p \in Members /\ list = [successor[n] EXCEPT ![0] = p] /\ Gap(n, p) < Gap(n, s)
  <2>1. CASE ~Adopts(n, p)
    BY <1>0, <2>1
  <2>2. CASE Adopts(n, p)
    <3>1. p \in Members /\ (s = n \/ node_id_in_range(p, IdPlus(n, 1), s))
      BY <1>3, <1>5, <2>2 DEF Adopts
    <3>2. CASE p = s
      BY <1>0, <1>3, <3>2 DEF s
    <3>3. CASE p # s
      BY <1>0, <1>3, <1>5, <1>6, <2>2, <3>1, <3>3, AdoptedIsNearer
    <3> QED
      BY <3>2, <3>3
  <2> QED
    BY <2>1, <2>2
<1>8. /\ list \in [Index -> Nodes \cup {Nil}] /\ list[0] \in Members
      /\ list[0] = s \/ Gap(n, list[0]) < Gap(n, s)
      /\ \A i \in Index : list[i] = successor[n][i] \/ list[i] \in Members
  BY <1>3, <1>5, <1>6, <1>7 DEF s
<1>9. /\ \A m \in Nodes \ {n} : successor'[m] = successor[m]
      /\ successor'[n] = list
  BY <1>2, <1>3 DEF n
<1>10. ListsHold' /\ PredecessorsAreMembers'
  BY <1>2, <1>3, <1>6, <1>8, <1>9 DEF Network, ListsHold, PredecessorsAreMembers
<1>11. Anchored(b)'
  <2>1. Gap(n, s) <= Gap(n, b) /\ b \in Members
    BY <1>3 DEF Network, Anchored, s
  <2>2. Gap(n, s) \in Nat /\ Gap(n, b) \in Nat /\ Gap(n, list[0]) \in Nat
    BY <1>3, <1>5, <1>6, <1>8, <2>1, GapType
  <2>3. Gap(n, list[0]) <= Gap(n, b)
    BY <1>8, <2>1, <2>2
  <2> QED
    BY <1>6, <1>9, <2>3 DEF Network, Anchored
<1>12. notif.to = list[0] /\ notif.from = n /\ notif.kind = "notif"
  <2>1. FirstSucc(n, list) = list[0]
    BY <1>6, <1>8, FirstSuccIsEntry0
  <2> QED
    BY <1>1, <2>1 DEF Request, n
<1>13. Connect(notif) = {notif}
  BY <1>8, <1>12, ConnectToMember
<1>14. Fits(notif, b)'
  BY <1>3, <1>6, <1>8, <1>12 DEF Fits, CheckKinds
<1>15. ASSUME NEW e \in calls
       PROVE  Fits(e, b)'
  <2>1. Fits(e, b)
    BY DEF Network
  <2> QED
    BY <1>2, <1>6, <2>1, FitsKept DEF Fits
<1>16. OneJoin'
  BY <1>2, <1>12, <1>13 DEF Network, OneJoin
<1>17. Network(b)'
  BY <1>2, <1>10, <1>11, <1>13, <1>14, <1>15, <1>16 DEF Network
<1>18. PointsAreEntries'
  BY <1>17, NetworkPointsNext
<1>19. Points' = [Points EXCEPT ![n] = list[0]]
  <2>1. \A m \in Nodes : Points'[m] = IF m = n THEN list[0] ELSE Points[m]
    BY <1>3, <1>4, <1>6, <1>9, <1>18 DEF PointsAreEntries
  <2> QED
    BY <2>1, <1>4, <1>18 DEF PointsAreEntries, Shape
<1>20. CASE list[0] = s
  <2>1. Points' = Points
    BY <1>4, <1>5, <1>19, <1>20 DEF PointsAreEntries, Shape
  <2> QED
    BY <1>17, <2>1 DEF Implemented
<1>21. CASE Gap(n, list[0]) < Gap(n, s)
  <2>1. Abs!Turn(n, list[0])
    BY <1>5, <1>19, <1>21 DEF Abs!Turn, Abs!Gap, Gap, Abs!Dist, Dist
  <2>2. n \in Abs!Pointing(Points) /\ list[0] \in Abs!Pointing(Points)
    BY <1>3, <1>4, <1>8 DEF PointsAreEntries, Pointing, Abs!Pointing
  <2> QED
    BY <1>17, <2>1, <2>2 DEF Implemented, Abs!Next
<1> QED
  BY <1>8, <1>20, <1>21

-----------------------------------------------------------------------------
(***************************************************************************)
(* The specification.                                                      *)
(***************************************************************************)

LEMMA JoiningInit == Init => Joining /\ Abs!Init
<1> SUFFICES ASSUME Init
             PROVE  Joining /\ Abs!Init
  OBVIOUS
<1>1. TypeOK /\ Nobody
  BY TypeInit DEF Init, Nobody
<1> QED
  BY <1>1, NobodyPoints DEF Joining, Abs!Init

(* Before there is a network, all that can happen is that one is created.  *)
LEMMA NobodyStep ==
    ASSUME NoFailures, TypeOK, TypeOK', Nobody, [Next]_vars
    PROVE  Joining' /\ [Abs!Next]_Points
<1>1. calls = {} /\ \A n \in Nodes : status[n] = "down"
  BY DEF Nobody
<1>2. CASE \E n \in Nodes : Create(n)
  BY <1>2, CreateImplemented DEF Implemented, Joining
<1>3. CASE UNCHANGED vars
  <2>1. Nobody'
    BY <1>3 DEF vars, Nobody
  <2>2. Points' = Points
    BY <1>3 DEF vars, Points, First
  <2> QED
    BY <2>1, <2>2 DEF Joining
<1>4. ~(\E n, b \in Nodes : Join(n, b)) /\ ~Upkeep
  BY <1>1 DEF Join, Upkeep, Joined, Stabilise, UpdateSuccs, CheckSuccs, CheckPred, Timer,
              Crash, Running
<1> QED
  BY <1>2, <1>3, <1>4 DEF Next

LEMMA NetworkStep ==
    ASSUME NoFailures, TypeOK, TypeOK', NEW b \in Nodes, Network(b), [Next]_vars
    PROVE  Implemented(b)
<1>1. ASSUME NEW n \in Nodes, Create(n)
      PROVE  FALSE
  BY <1>1 DEF Create, Running, Network, Anchored, Members
<1>2. ASSUME NEW n \in Nodes, NEW m \in Nodes, Join(n, m)
      PROVE  Implemented(b)
  BY <1>2, JoinImplemented
<1>3. ASSUME NEW n \in Nodes, Joined(n)
      PROVE  Implemented(b)
  BY <1>3, JoinedImplemented
<1>4. ASSUME NEW n \in Nodes,
             Stabilise(n) \/ UpdateSuccs(n) \/ CheckSuccs(n) \/ CheckPred(n)
      PROVE  Implemented(b)
  BY <1>4, StabiliseSent, WalkSent, ChecksSent
<1>5. ASSUME NEW c \in calls, Handle(c)
      PROVE  Implemented(b)
  <2>1. CASE CheckFailed(c)
    BY <2>1 DEF CheckFailed, Network, Fits
  <2>2. CASE HandleLookup(c) \/ RelayReply(c) \/ HandlePred(c) \/ HandleNotif(c) \/ AliveReply(c)
    BY <2>2, LookupHandled, ReplyRelayed, PredHandled, NotifHandled, AliveReplied
  <2>3. CASE JoinFound(c) \/ SuccsFound(c) \/ StabFound(c)
    BY <2>3, JoinFoundImplemented, WalkImplemented, StabImplemented
  <2> QED
    BY <1>5, <2>1, <2>2, <2>3 DEF Handle
<1>6. ASSUME NEW n \in Nodes, Crash(n)
      PROVE  FALSE
  BY <1>6 DEF Crash, NoFailures, TypeOK
<1>7. ASSUME NEW c \in calls, Timeout(c)
      PROVE  FALSE
  BY <1>7 DEF Timeout, NoFailures, TypeOK
<1>8. CASE UNCHANGED vars
  <2>1. PICK N : N = {}
    OBVIOUS
  <2>2. calls' \subseteq calls \cup N /\ UNCHANGED <<status, successor, predecessor>>
    BY <1>8 DEF vars
  <2> QED
    BY <2>1, <2>2, QuietSend
<1> QED
  BY <1>1, <1>2, <1>3, <1>4, <1>5, <1>6, <1>7, <1>8 DEF Next, Upkeep

LEMMA JoiningStep == NoFailures /\ Joining /\ [Next]_vars => Joining' /\ [Abs!Next]_Points
<1> SUFFICES ASSUME NoFailures, Joining, [Next]_vars
             PROVE  Joining' /\ [Abs!Next]_Points
  OBVIOUS
<1>1. TypeOK /\ TypeOK'
  BY TypeNext DEF Joining
<1>2. CASE Nobody
  BY <1>1, <1>2, NobodyStep
<1>3. ASSUME NEW b \in Nodes, Network(b)
      PROVE  Joining' /\ [Abs!Next]_Points
  BY <1>1, <1>3, NetworkStep DEF Implemented, Joining
<1> QED
  BY <1>2, <1>3 DEF Joining

LEMMA JoiningInvariant == NoFailures /\ Spec => []Joining
<1>1. NoFailures => NoFailures'
  BY DEF NoFailures
<1> QED
  BY <1>1, JoiningInit, JoiningStep, PTL DEF Spec

(***************************************************************************)
(* A step of the abstract ring lengthens no pointer.                       *)
(***************************************************************************)
LEMMA AbstractStepOnlyCloser ==
    ASSUME PointsAreEntries, PointsAreEntries', [Abs!Next]_Points
    PROVE  \A n \in Members : Gap(n, First(n)') <= Gap(n, First(n))
<1> SUFFICES ASSUME NEW n \in Members
             PROVE  Gap(n, First(n)') <= Gap(n, First(n))
  OBVIOUS
<1>1. /\ n \in Nodes /\ n \in Id /\ Points[n] # Nil /\ Points[n] = First(n)
      /\ Points \in [Nodes -> Nodes \cup {Nil}] /\ First(n) \in Nodes
  BY DEF PointsAreEntries, Members, Pointing, Shape
<1>2. Points'[n] # Nil => n \in Members' /\ Points'[n] = First(n)'
  BY <1>1 DEF PointsAreEntries, Pointing
<1>3. Gap(n, First(n)) \in Nat
  BY <1>1, GapType
<1>4. CASE Points' = Points
  BY <1>1, <1>2, <1>3, <1>4
<1>5. ASSUME NEW m \in Nodes, Abs!Create(m)
      PROVE  FALSE
  BY <1>1, <1>5 DEF Abs!Create
<1>6. ASSUME NEW m \in Nodes \ Abs!Pointing(Points), NEW s \in Nodes, Abs!Enter(m, s)
      PROVE  Gap(n, First(n)') <= Gap(n, First(n))
  <2>1. Points'[n] = Points[n]
    BY <1>1, <1>6 DEF Abs!Enter, Abs!Pointing
  <2> QED
    BY <1>1, <1>2, <1>3, <2>1
<1>7. ASSUME NEW m \in Nodes, NEW p \in Nodes, Abs!Turn(m, p)
      PROVE  Gap(n, First(n)') <= Gap(n, First(n))
  <2>1. /\ Points' = [Points EXCEPT ![m] = p]
        /\ Gap(m, p) < Gap(m, Points[m])
    BY <1>7 DEF Abs!Turn, Abs!Gap, Gap, Abs!Dist, Dist
  <2>2. p \in Id /\ p # Nil /\ Gap(n, p) \in Nat
    BY <1>1, GapType
  <2>3. CASE m = n
    BY <1>1, <1>2, <1>3, <2>1, <2>2, <2>3
  <2>4. CASE m # n
    <3>1. Points'[n] = Points[n]
      BY <1>1, <2>1, <2>4
    <3> QED
      BY <1>1, <1>2, <1>3, <3>1
  <2> QED
    BY <2>3, <2>4
<1> QED
  BY <1>4, <1>5, <1>6, <1>7 DEF Abs!Next, Abs!Pointing

-----------------------------------------------------------------------------
(***************************************************************************)
(* While nodes only join, ring maintenance implements AbstractRing: members*)
(* enter no further than an anchor, and node_stabilize_sp_found turns one  *)
(* only to a nearer member, whatever number of stabilisations a node has   *)
(* open and however late their answers are used.                           *)
(***************************************************************************)
THEOREM RingImplements == NoFailures /\ Spec => ImplementsAbstractRing
<1>1. NoFailures => NoFailures'
  BY DEF NoFailures
<1> QED
  BY <1>1, JoiningInit, JoiningStep, JoiningInvariant, PTL
  DEF Spec, ImplementsAbstractRing, Abs!Spec

(***************************************************************************)
(* While nodes only join, the network is one: no join and no race of       *)
(* stabilisations leaves two groups that point only at themselves.         *)
(***************************************************************************)
THEOREM NeverSplit == NoFailures /\ Spec => []OneRing
BY JoiningIsSound, JoiningInvariant, PTL

(***************************************************************************)
(* While nodes only join, no node of the ring is skipped by the successor  *)
(* another one has.                                                        *)
(***************************************************************************)
THEOREM AlwaysOrdered == NoFailures /\ Spec => []Ordered
BY JoiningIsSound, JoiningInvariant, PTL

(***************************************************************************)
(* While nodes only join, no step moves the first successor of a member    *)
(* away: not a late answer, not the walk that refills the list.            *)
(***************************************************************************)
THEOREM SuccessorsOnlyCloser == NoFailures /\ Spec => SuccessorOnlyCloser
<1>1. NoFailures /\ Joining /\ [Next]_vars
        => \A n \in Members : Gap(n, First(n)') <= Gap(n, First(n))
  <2> SUFFICES ASSUME NoFailures, Joining, [Next]_vars
               PROVE  \A n \in Members : Gap(n, First(n)') <= Gap(n, First(n))
    OBVIOUS
  <2>1. TypeOK /\ TypeOK'
    BY TypeNext DEF Joining
  <2>2. CASE Nobody
    BY <2>2, NobodyPoints
  <2>3. ASSUME NEW b \in Nodes, Network(b)
        PROVE  \A n \in Members : Gap(n, First(n)') <= Gap(n, First(n))
    <3>1. Network(b)' /\ [Abs!Next]_Points
      BY <2>1, <2>3, NetworkStep DEF Implemented
    <3> QED
      BY <2>1, <2>3, <3>1, NetworkPoints, NetworkPointsNext, AbstractStepOnlyCloser
  <2> QED
    BY <2>2, <2>3 DEF Joining
<1>2. NoFailures => NoFailures'
  BY DEF NoFailures
<1> QED
  BY <1>1, <1>2, JoiningInvariant, PTL DEF Spec, SuccessorOnlyCloser

-----------------------------------------------------------------------------
(***************************************************************************)
(* Who has been told its successor and is about to start its timers has    *)
(* another node for it, or is the only process there is.                   *)
(***************************************************************************)

InCompany ==
    \A n \in Nodes : status[n] = "ready" =>
        successor[n][0] # n \/ \A m \in Nodes \ {n} : status[m] = "down"

LEMMA CompanyKept ==
    ASSUME InCompany, status' = status,
           \A n \in Nodes : status[n] = "ready" => successor'[n][0] = successor[n][0]
    PROVE  InCompany'
BY DEF InCompany

LEMMA CompanyStep == NoFailures /\ Joining /\ InCompany /\ [Next]_vars => InCompany'
<1> SUFFICES ASSUME NoFailures, Joining, InCompany, [Next]_vars
             PROVE  InCompany'
  OBVIOUS
<1>0. /\ status \in [Nodes -> Status] /\ 0 \in Index
      /\ successor \in [Nodes -> [Index -> Nodes \cup {Nil}]]
      /\ \A c \in calls : c \in Call /\ \E b \in Nodes : Fits(c, b)
  BY DEF Joining, TypeOK, Nobody, Network, Index
<1>1. ASSUME NEW n \in Nodes, Create(n)
      PROVE  InCompany'
  BY <1>0, <1>1 DEF Create, Running, InCompany
<1>2. ASSUME NEW n \in Nodes, NEW b \in Nodes, Join(n, b)
      PROVE  InCompany'
  BY <1>0, <1>2 DEF Join, InCompany
<1>3. ASSUME NEW n \in Nodes, Joined(n)
      PROVE  InCompany'
  BY <1>0, <1>3 DEF Joined, InCompany
<1>4. ASSUME NEW n \in Nodes,
             Stabilise(n) \/ UpdateSuccs(n) \/ CheckSuccs(n) \/ CheckPred(n)
      PROVE  InCompany'
  BY <1>4, CompanyKept DEF Stabilise, UpdateSuccs, CheckSuccs, CheckPred, Timer
<1>5. ASSUME NEW c \in calls, Handle(c)
      PROVE  InCompany'
  <2>1. CASE CheckFailed(c)
    BY <1>0, <2>1 DEF CheckFailed, Fits
  <2>2. CASE HandleLookup(c) \/ RelayReply(c) \/ HandlePred(c) \/ HandleNotif(c) \/ AliveReply(c)
    BY <2>2, CompanyKept DEF HandleLookup, RelayReply, HandlePred, HandleNotif, AliveReply
  <2>3. CASE JoinFound(c)
    <3>1. /\ c.from \in Nodes /\ status[c.from] = "joining" /\ c.res \in Members
          /\ successor' = [successor EXCEPT ![c.from][0] = c.res]
          /\ status' = [status EXCEPT ![c.from] = "ready"]
      BY <1>0, <2>3 DEF JoinFound, Fits, Call
    <3>2. c.res # c.from
      BY <3>1 DEF Members
    <3> QED
      BY <1>0, <3>1, <3>2 DEF InCompany
  <2>4. CASE SuccsFound(c)
    <3>1. /\ c.from \in Nodes /\ c.entry # 0 /\ status' = status
          /\ \/ successor' = [successor EXCEPT ![c.from][c.entry] = c.res]
             \/ successor' = [successor EXCEPT ![c.from] = successor[c.from]]
      BY <1>0, <2>4 DEF SuccsFound, Fits, Call
    <3>2. CASE successor' = [successor EXCEPT ![c.from] = successor[c.from]]
      BY <1>0, <3>1, <3>2, CompanyKept
    <3>3. CASE successor' = [successor EXCEPT ![c.from][c.entry] = c.res]
      <4>1. ASSUME NEW n \in Nodes
            PROVE  successor'[n][0] = successor[n][0]
        <5>1. CASE n = c.from
          <6>1. successor'[n] = [successor[n] EXCEPT ![c.entry] = c.res]
            BY <1>0, <3>3, <5>1
          <6> QED
            BY <1>0, <3>1, <6>1
        <5>2. CASE n # c.from
          BY <1>0, <3>3, <5>2
        <5> QED
          BY <5>1, <5>2
      <4> QED
        BY <3>1, <4>1, CompanyKept
    <3> QED
      BY <3>1, <3>2, <3>3
  <2>5. CASE StabFound(c)
    <3>1. /\ c.from \in Nodes /\ status[c.from] = "up" /\ status' = status
          /\ \A n \in Nodes \ {c.from} : successor'[n] = successor[n]
      BY <1>0, <2>5 DEF StabFound, Fits, Up, Call
    <3> QED
      BY <3>1, CompanyKept
  <2> QED
    BY <1>5, <2>1, <2>2, <2>3, <2>4, <2>5 DEF Handle
<1>6. ASSUME NEW n \in Nodes, Crash(n)
      PROVE  FALSE
  BY <1>6 DEF Crash, NoFailures, Joining, TypeOK
<1>7. ASSUME NEW c \in calls, Timeout(c)
      PROVE  FALSE
  BY <1>7 DEF Timeout, NoFailures, Joining, TypeOK
<1>8. CASE UNCHANGED vars
  BY <1>8, CompanyKept DEF vars
<1> QED
  BY <1>1, <1>2, <1>3, <1>4, <1>5, <1>6, <1>7, <1>8 DEF Next, Upkeep

-----------------------------------------------------------------------------
(***************************************************************************)
(* While nodes only join, nobody who joins a network of others starts with *)
(* itself for successor, hence a ring of its own.                          *)
(***************************************************************************)
THEOREM NobodyJoinsAlone == NoFailures /\ Spec => []JoinsOthers
<1>1. Init => InCompany
  BY DEF Init, InCompany
<1>2. Joining /\ InCompany => JoinsOthers
  <2> SUFFICES ASSUME Joining, InCompany, NEW n \in Nodes, NEW m \in Nodes,
                      status[n] = "ready", status[m] = "up"
               PROVE  First(n) # n
    BY DEF JoinsOthers
  <2>1. successor[n][0] # n /\ n \in Members
    BY DEF InCompany, Members
  <2>2. ~Nobody
    BY DEF Nobody
  <2> QED
    BY <2>1, <2>2, NetworkPoints DEF Joining, PointsAreEntries
<1>3. NoFailures => NoFailures'
  BY DEF NoFailures
<1> QED
  BY <1>1, <1>2, <1>3, CompanyStep, JoiningInvariant, PTL DEF Spec
=============================================================================
