-------------------------------- MODULE Ring --------------------------------
(***************************************************************************)
(* Ring maintenance: the part of src/src/node.c that joins a node to the   *)
(* overlay and keeps every node's successor list and predecessor right     *)
(* while nodes join and fail.  It is the build without finger tables       *)
(* (make nofinger), in which nothing reads the finger table.               *)
(*                                                                         *)
(* A node is one event loop: a handler runs to its end before the next one *)
(* starts, so a handler is one action.  Every request travels on a TCP     *)
(* connection of its own, so requests and replies overtake one another     *)
(* freely; a "call" is one such exchange.                                  *)
(***************************************************************************)
EXTENDS Pointers, Sequences, FiniteSets

CONSTANTS
    NUM_OF_SUCCS,   \* length of the successor list, 8 in the code
    MaxCalls,       \* bound: a timer fires only while fewer calls are open,
                    \* and a node has at most so many of one kind
    MaxCrashes,     \* bound: how many times a process may die
    MaxTimeouts     \* bound: how many calls to a live node may time out

ASSUME RingAssumption ==
    /\ NUM_OF_SUCCS \in Nat /\ NUM_OF_SUCCS > 1
    /\ MaxCalls \in Nat \ {0} /\ MaxCrashes \in Nat /\ MaxTimeouts \in Nat

VARIABLES
    status,         \* where each node's process is in its life
    successor,      \* struct node_self.successor: the list of each node
    predecessor,    \* struct node_self.predecessor; Nil when !has_pred
    calls,          \* the exchanges in flight
    overrun,        \* the nodes that wrote past the end of their list
    crashes,        \* how many processes have died
    timeouts        \* how many calls to a live node have timed out

vars == <<status, successor, predecessor, calls, overrun, crashes, timeouts>>

Index == 0 .. NUM_OF_SUCCS - 1

(***************************************************************************)
(* "down": no process.  "joining": node_network_join has asked for its     *)
(* successor.  "ready": the successor is known and node_network_joined is  *)
(* an active event.  "up": the timers run.                                 *)
(***************************************************************************)
Status == {"down", "joining", "ready", "up"}

LookupKinds == {"join", "succs"}            \* MSG_T_SUCC_REQ
CheckKinds  == {"check_pred", "check_succ"} \* MSG_T_ALIVE_REQ
StabKinds   == {"stab", "notif"}            \* MSG_T_PRED_REQ, MSG_T_NOTIF
Kinds == LookupKinds \cup CheckKinds \cup StabKinds

(***************************************************************************)
(* A call: `from' waits for the answer, the request is at `to' (phase      *)
(* "req") or its answer `res' is on the way back (phase "rep").  `relays'  *)
(* are the nodes that passed a lookup on and must pass its answer back,    *)
(* oldest first.  `id' is the identifier looked up; `entry' the index of   *)
(* the successor list that the callback will write.  `no' tells exchanges  *)
(* that a node has open at the same time apart.  The answer to a           *)
(* liveness check that needs handling is its failure: in phase "rep" a     *)
(* check has failed and `from' has not noticed yet.                        *)
(***************************************************************************)
Call == [kind : Kinds, no : 1 .. MaxCalls, phase : {"req", "rep"},
         from : Nodes, to : Nodes, relays : Seq(Nodes), id : Id,
         entry : 0 .. NUM_OF_SUCCS, res : Nodes \cup {Nil}]

Request(kind, no, n, to, id, entry) ==
    [kind |-> kind, no |-> no, phase |-> "req", from |-> n, to |-> to,
     relays |-> <<>>, id |-> id, entry |-> entry, res |-> Nil]

Running(n) == status[n] # "down"

(***************************************************************************)
(* node_connect_and_send_message.  Connecting to a dead process fails: the *)
(* event callback of lookups, predecessor requests and notifications then  *)
(* does nothing, so the call is as if never made; the one of liveness      *)
(* checks will report the failure.                                         *)
(***************************************************************************)
Connect(c) ==
    IF Running(c.to) THEN {c}
    ELSE IF c.kind \in CheckKinds THEN {[c EXCEPT !.phase = "rep"]} ELSE {}

Waiting(n, kind) == \E c \in calls : c.from = n /\ c.kind = kind

Room == Cardinality(calls) < MaxCalls

-----------------------------------------------------------------------------
(***************************************************************************)
(* The successor list.                                                     *)
(***************************************************************************)

EmptyList == [i \in Index |-> Nil]

(* Wrong variant of the next definition: scans from the end of the list.   *)
LastAliveSucc(list) ==
    IF \A i \in Index : list[i] = Nil
    THEN -1
    ELSE CHOOSE i \in Index : /\ list[i] # Nil
                              /\ \A j \in i+1 .. NUM_OF_SUCCS-1 : list[j] = Nil

(* node_first_alive_succ: the first entry in use, or -1.                   *)
node_first_alive_succ(list) ==
    IF \A i \in Index : list[i] = Nil
    THEN -1
    ELSE CHOOSE i \in Index : list[i] # Nil /\ \A j \in 0 .. i-1 : list[j] = Nil

(***************************************************************************)
(* self->successor[i].  Index -1, which node_first_alive_succ returns for  *)
(* a list with no entry, reads the field laid out before the array:        *)
(* self->self, the node itself.                                            *)
(***************************************************************************)
SuccAt(n, list, i) == IF i = -1 THEN n ELSE list[i]

FirstSucc(n, list) == SuccAt(n, list, node_first_alive_succ(list))

(***************************************************************************)
(* Requests the periodic work sends.  node_update_succ(self, k) asks entry *)
(* k for the successor of the identifier after its own, to fill entry k+1; *)
(* it sends nothing when entry k is empty.                                 *)
(***************************************************************************)
StabCall(n, no, list) == Connect(Request("stab", no, n, FirstSucc(n, list), n, 0))

node_update_succ(n, no, list, k) ==
    LET s == SuccAt(n, list, k) IN
    IF s = Nil THEN {} ELSE Connect(Request("succs", no, n, s, IdPlus(s, 1), k + 1))

UpdateCall(n, no, list) == node_update_succ(n, no, list, node_first_alive_succ(list))

CheckCalls(n) ==
    UNION { Connect(Request("check_succ", 1, n, successor[n][i], n, i)) :
              i \in {j \in Index : successor[n][j] # Nil} }

-----------------------------------------------------------------------------
(***************************************************************************)
(* Creating and joining a network.                                         *)
(***************************************************************************)

Init ==
    /\ status = [n \in Nodes |-> "down"]
    /\ successor = [n \in Nodes |-> EmptyList]
    /\ predecessor = [n \in Nodes |-> Nil]
    /\ calls = {}
    /\ overrun = {}
    /\ crashes = 0
    /\ timeouts = 0

(* node_network_create: one node starts a network of its own. *)
Create(n) ==
    /\ \A m \in Nodes : ~Running(m)
    /\ status' = [status EXCEPT ![n] = "ready"]
    /\ successor' = [successor EXCEPT ![n][0] = n]
    /\ predecessor' = [predecessor EXCEPT ![n] = n]
    /\ UNCHANGED <<calls, overrun, crashes, timeouts>>

(* node_network_join: ask member b for the successor of the own identifier. *)
Join(n, b) ==
    /\ ~Running(n)
    /\ status[b] = "up"
    /\ Room
    /\ status' = [status EXCEPT ![n] = "joining"]
    /\ calls' = calls \cup {Request("join", 1, n, b, n, 0)}
    /\ UNCHANGED <<successor, predecessor, overrun, crashes, timeouts>>

(* Wrong variants of JoinFound: the event is never made active; the node   *)
(* enters itself instead of the successor found.                           *)
JoinFoundNoEvent(c) ==
    /\ c \in calls /\ c.kind = "join" /\ c.phase = "rep" /\ c.relays = <<>>
    /\ successor' = [successor EXCEPT ![c.from][0] = c.res]
    /\ calls' = calls \ {c}
    /\ UNCHANGED <<status, predecessor, overrun, crashes, timeouts>>

JoinFoundSelf(c) ==
    /\ c \in calls /\ c.kind = "join" /\ c.phase = "rep" /\ c.relays = <<>>
    /\ successor' = [successor EXCEPT ![c.from][0] = c.from]
    /\ status' = [status EXCEPT ![c.from] = "ready"]
    /\ calls' = calls \ {c}
    /\ UNCHANGED <<predecessor, overrun, crashes, timeouts>>

(* node_network_join_succ_found: the first entry is filled and the event   *)
(* that runs node_network_joined is made active.                           *)
JoinFound(c) ==
    /\ c \in calls /\ c.kind = "join" /\ c.phase = "rep" /\ c.relays = <<>>
    /\ successor' = [successor EXCEPT ![c.from][0] = c.res]
    /\ status' = [status EXCEPT ![c.from] = "ready"]
    /\ calls' = calls \ {c}
    /\ UNCHANGED <<predecessor, overrun, crashes, timeouts>>

(* node_network_joined: start the timers, stabilise and update at once.    *)
Joined(n) ==
    /\ status[n] = "ready"
    /\ status' = [status EXCEPT ![n] = "up"]
    /\ calls' = calls \cup StabCall(n, 1, successor[n])
                      \cup UpdateCall(n, 1, successor[n])
    /\ UNCHANGED <<successor, predecessor, overrun, crashes, timeouts>>

-----------------------------------------------------------------------------
(***************************************************************************)
(* Timers.  Each fires every 30 s, again and again.  Predecessor requests  *)
(* and lookups wait up to 60 s (NODE_WAIT_TM_LONG), so the timer fires     *)
(* beside exchanges of the same kind that are still open.  Checks wait     *)
(* 20 s (NODE_WAIT_TM_DEFAULT), so those of the last round are over.       *)
(***************************************************************************)

(* The number of a new exchange of n: the least that none of these kinds   *)
(* has.                                                                    *)
Numbers(n, kinds) ==
    LET free == {i \in 1 .. MaxCalls :
                   ~\E c \in calls : c.from = n /\ c.kind \in kinds /\ c.no = i}
    IN  {i \in free : \A j \in free : i <= j}

Timer(n, new) ==
    /\ status[n] = "up"
    /\ calls' = calls \cup new
    /\ UNCHANGED <<status, successor, predecessor, overrun, crashes, timeouts>>

(* node_network_stabalize: ask the first live successor for its            *)
(* predecessor.                                                            *)
Stabilise(n) ==
    \E no \in Numbers(n, StabKinds) : Timer(n, StabCall(n, no, successor[n]))

(* node_update_succs: start a walk down the list at its first live entry.  *)
UpdateSuccs(n) ==
    \E no \in Numbers(n, LookupKinds) : Timer(n, UpdateCall(n, no, successor[n]))

(* node_check_successors: ask every entry whether it is there.             *)
CheckSuccs(n) == ~Waiting(n, "check_succ") /\ Timer(n, CheckCalls(n))

(* node_check_predecessor.                                                 *)
CheckPred(n) ==
    /\ predecessor[n] # Nil
    /\ ~Waiting(n, "check_pred")
    /\ Timer(n, Connect(Request("check_pred", 1, n, predecessor[n], n, 0)))

-----------------------------------------------------------------------------
(***************************************************************************)
(* Lookups.  A node that is its own successor, or whose arc to its first   *)
(* live successor holds the identifier, answers with that successor; any   *)
(* other node asks node_closest_preceding_node, without finger tables its  *)
(* successor, and passes the answer back.  A request for the identifier of *)
(* the node it reaches would run the callback twice; NoSelfLookup says no  *)
(* lookup of this module gets there.                                       *)
(***************************************************************************)

(* Wrong variants of Answers: without the arc; with the arc but without    *)
(* its upper end.                                                          *)
AnswersAlone(x, id, s) == x = s

AnswersBelow(x, id, s) == x = s \/ (node_id_in_range(id, x, s) /\ id # s)

(* The first two tests of node_find_successor on a node x whose first live *)
(* successor is s.                                                         *)
Answers(x, id, s) == x = s \/ node_id_in_range(id, x, s)

(* handle_succ_request and node_find_successor.                            *)
HandleLookup(c) ==
    LET x == c.to
        s == FirstSucc(x, successor[x])
    IN  /\ c \in calls /\ c.kind \in LookupKinds /\ c.phase = "req"
        /\ c.id # x
        /\ calls' = (calls \ {c}) \cup
             IF Answers(x, c.id, s)
             THEN {[c EXCEPT !.phase = "rep", !.res = s]}
             ELSE Connect([c EXCEPT !.relays = Append(@, x), !.to = s])
        /\ UNCHANGED <<status, successor, predecessor, overrun, crashes, timeouts>>

(* node_successor_found_for_remote: the last relay passes the answer back. *)
RelayReply(c) ==
    /\ c \in calls /\ c.phase = "rep" /\ c.relays # <<>>
    /\ calls' = (calls \ {c}) \cup
         {[c EXCEPT !.relays = SubSeq(@, 1, Len(@) - 1)]}
    /\ UNCHANGED <<status, successor, predecessor, overrun, crashes, timeouts>>

-----------------------------------------------------------------------------
(***************************************************************************)
(* Updating the successor list.                                            *)
(***************************************************************************)

(* Wrong variant of the next definition: the last entry is not the end.    *)
WalksOn(k) == k < NUM_OF_SUCCS

(* node_update_succs_found goes on from entry k.                           *)
Continues(k) == k < NUM_OF_SUCCS - 1

(***************************************************************************)
(* node_update_succs_found: fill the entry and ask the node found for the  *)
(* next one.  When the last entry was the first live one, the entry filled *)
(* is the one after the end of the array; what it overwrites is recorded   *)
(* in overrun only.                                                        *)
(***************************************************************************)
SuccsFound(c) ==
    LET n == c.from
        k == c.entry
        list == IF k \in Index THEN [successor[n] EXCEPT ![k] = c.res]
                               ELSE successor[n]
    IN  /\ c \in calls /\ c.kind = "succs" /\ c.phase = "rep" /\ c.relays = <<>>
        /\ successor' = [successor EXCEPT ![n] = list]
        /\ overrun' = IF k \in Index THEN overrun ELSE overrun \cup {n}
        /\ calls' = (calls \ {c}) \cup
             IF Continues(k) THEN node_update_succ(n, c.no, list, k) ELSE {}
        /\ UNCHANGED <<status, predecessor, crashes, timeouts>>

-----------------------------------------------------------------------------
(***************************************************************************)
(* Stabilisation.                                                          *)
(***************************************************************************)

(* handle_pred_request: "Y" and the predecessor, or "N" when there is none. *)
HandlePred(c) ==
    /\ c \in calls /\ c.kind = "stab" /\ c.phase = "req"
    /\ calls' = (calls \ {c}) \cup
         {[c EXCEPT !.phase = "rep", !.res = predecessor[c.to]]}
    /\ UNCHANGED <<status, successor, predecessor, overrun, crashes, timeouts>>

(* Wrong variant of Adopts: takes any predecessor it is told of.           *)
AdoptsAny(n, p) == p # Nil

(***************************************************************************)
(* Does n take p, the predecessor its successor reported, for its own      *)
(* successor?                                                              *)
(***************************************************************************)
Adopts(n, p) ==
    /\ p # Nil
    /\ LET s == FirstSucc(n, successor[n])
       IN  s = n \/ node_id_in_range(p, IdPlus(n, 1), s)

(***************************************************************************)
(* node_stabilize_sp_found: adopt the node between, always as entry 0, and *)
(* notify whichever successor now comes first.                             *)
(***************************************************************************)
StabFound(c) ==
    LET n == c.from
        list == IF Adopts(n, c.res) THEN [successor[n] EXCEPT ![0] = c.res]
                                    ELSE successor[n]
        notif == Request("notif", c.no, n, FirstSucc(n, list), n, 0)
    IN  /\ c \in calls /\ c.kind = "stab" /\ c.phase = "rep"
        /\ successor' = [successor EXCEPT ![n] = list]
        /\ calls' = (calls \ {c}) \cup Connect(notif)
        /\ UNCHANGED <<status, predecessor, overrun, crashes, timeouts>>

(* Wrong variant of Accepts: the node that created the network keeps       *)
(* itself.                                                                 *)
AcceptsInArc(x, n) ==
    predecessor[x] = Nil \/ node_id_in_range(n, predecessor[x], x)

(***************************************************************************)
(* node_notified: the test by which x takes n for its predecessor.  The    *)
(* range includes x itself.                                                *)
(***************************************************************************)
Accepts(x, n) ==
    \/ predecessor[x] = Nil
    \/ node_id_in_range(n, predecessor[x], x)
    \/ predecessor[x] = x

(* handle_notif_request and node_notified; the connection is then closed.  *)
HandleNotif(c) ==
    /\ c \in calls /\ c.kind = "notif"
    /\ predecessor' = IF Accepts(c.to, c.from)
                      THEN [predecessor EXCEPT ![c.to] = c.from]
                      ELSE predecessor
    /\ calls' = calls \ {c}
    /\ UNCHANGED <<status, successor, overrun, crashes, timeouts>>

-----------------------------------------------------------------------------
(***************************************************************************)
(* Checking that successors and predecessor are alive.                     *)
(***************************************************************************)

(***************************************************************************)
(* handle_alive_request and node_check_node_reply: the peer answers "Y",   *)
(* which changes no node's state.  Both handlers are one step because      *)
(* neither reads or writes anything that the other steps see.              *)
(***************************************************************************)
AliveReply(c) ==
    /\ c \in calls /\ c.kind \in CheckKinds /\ c.phase = "req"
    /\ calls' = calls \ {c}
    /\ UNCHANGED <<status, successor, predecessor, overrun, crashes, timeouts>>

(* Wrong variants of ClearChecked: a failed check of the predecessor, or   *)
(* one of a successor, has no effect.                                      *)
ClearSuccOnly(c) ==
    /\ successor' = IF c.kind = "check_succ"
                    THEN [successor EXCEPT ![c.from][c.entry] = Nil]
                    ELSE successor
    /\ predecessor' = predecessor

ClearPredOnly(c) ==
    /\ successor' = successor
    /\ predecessor' = IF c.kind = "check_pred"
                      THEN [predecessor EXCEPT ![c.from] = Nil]
                      ELSE predecessor

(***************************************************************************)
(* node_check_pred_result and node_check_succ_result without success: the  *)
(* predecessor, or the entry whose index was noted when the check was      *)
(* sent, is zeroed -- whoever is there by now.                             *)
(***************************************************************************)
ClearChecked(c) ==
    /\ successor' = IF c.kind = "check_succ"
                    THEN [successor EXCEPT ![c.from][c.entry] = Nil]
                    ELSE successor
    /\ predecessor' = IF c.kind = "check_pred"
                      THEN [predecessor EXCEPT ![c.from] = Nil]
                      ELSE predecessor

(* node_check_node_event with an error: the peer's process was dead.       *)
CheckFailed(c) ==
    /\ c \in calls /\ c.kind \in CheckKinds /\ c.phase = "rep"
    /\ ClearChecked(c)
    /\ calls' = calls \ {c}
    /\ UNCHANGED <<status, overrun, crashes, timeouts>>

-----------------------------------------------------------------------------
(***************************************************************************)
(* Failures.                                                               *)
(***************************************************************************)

(***************************************************************************)
(* A live peer is too slow and libevent reports a timeout.  A check then   *)
(* counts as failed (node_check_node_event).  A lookup or a predecessor    *)
(* request is given up silently: node_remote_find_event does nothing, and  *)
(* libevent reads no more from a connection that timed out.  A             *)
(* notification is lost (node_notify_rep_event closes its connection).     *)
(***************************************************************************)
Timeout(c) ==
    /\ c \in calls
    /\ c.kind \in CheckKinds => c.phase = "req"
    /\ timeouts < MaxTimeouts
    /\ timeouts' = timeouts + 1
    /\ ClearChecked(c)
    /\ calls' = calls \ {c}
    /\ UNCHANGED <<status, overrun, crashes>>

(***************************************************************************)
(* The process of n dies and its memory with it.  Exchanges it takes part  *)
(* in are lost, except answers it has already sent.  A check of n in       *)
(* flight fails, or ends without effect when the connection is closed in   *)
(* order: node_check_node_event reports no result on BEV_EVENT_EOF.        *)
(***************************************************************************)
Involves(c, n) ==
    \/ c.from = n
    \/ c.to = n /\ c.phase = "req"
    \/ \E i \in 1 .. Len(c.relays) : c.relays[i] = n

ChecksOf(n) == {c \in calls : /\ c.kind \in CheckKinds /\ c.phase = "req"
                              /\ c.to = n /\ c.from # n}

Crash(n) ==
    /\ Running(n)
    /\ crashes < MaxCrashes
    /\ crashes' = crashes + 1
    /\ status' = [status EXCEPT ![n] = "down"]
    /\ successor' = [successor EXCEPT ![n] = EmptyList]
    /\ predecessor' = [predecessor EXCEPT ![n] = Nil]
    /\ \E failed \in SUBSET ChecksOf(n) :
          calls' = {c \in calls : ~Involves(c, n)}
                     \cup {[c EXCEPT !.phase = "rep"] : c \in failed}
    /\ UNCHANGED <<overrun, timeouts>>

-----------------------------------------------------------------------------
Handle(c) ==
    \/ JoinFound(c) \/ HandleLookup(c) \/ RelayReply(c) \/ SuccsFound(c)
    \/ HandlePred(c) \/ StabFound(c) \/ HandleNotif(c)
    \/ AliveReply(c) \/ CheckFailed(c)

(* What happens to the nodes there are. *)
Upkeep ==
    \/ \E n \in Nodes : Joined(n)
    \/ Room /\ \E n \in Nodes : Stabilise(n)
    \/ Room /\ \E n \in Nodes : UpdateSuccs(n)
    \/ Room /\ \E n \in Nodes : CheckSuccs(n)
    \/ Room /\ \E n \in Nodes : CheckPred(n)
    \/ \E n \in Nodes : Crash(n)
    \/ \E c \in calls : Handle(c)
    \/ \E c \in calls : Timeout(c)

Next ==
    \/ \E n \in Nodes : Create(n)
    \/ \E n, b \in Nodes : Join(n, b)
    \/ Upkeep

Spec == Init /\ [][Next]_vars

-----------------------------------------------------------------------------
(* The types of the variables.                                             *)
TypeOK ==
    /\ status \in [Nodes -> Status]
    /\ successor \in [Nodes -> [Index -> Nodes \cup {Nil}]]
    /\ predecessor \in [Nodes -> Nodes \cup {Nil}]
    /\ calls \subseteq Call
    /\ overrun \subseteq Nodes
    /\ crashes \in 0 .. MaxCrashes
    /\ timeouts \in 0 .. MaxTimeouts

-----------------------------------------------------------------------------
(***************************************************************************)
(* Lookups, whatever fails.                                                *)
(***************************************************************************)

Asked == {c \in calls : c.kind \in LookupKinds /\ c.phase = "req"}

(***************************************************************************)
(* A lookup passed from node to node comes strictly nearer to its          *)
(* identifier at every hop, so it never visits a node twice, however stale *)
(* the lists it is routed by (node_find_successor relays without a hop     *)
(* limit: a routing loop would never end).                                 *)
(***************************************************************************)
LookupProgress ==
    \A c \in Asked : \A j \in 1 .. Len(c.relays) :
        /\ Dist(c.to, c.id) < Dist(c.relays[j], c.id)
        /\ \A i \in 1 .. j - 1 :
              Dist(c.relays[j], c.id) < Dist(c.relays[i], c.id)

(***************************************************************************)
(* No lookup reaches the node that has the identifier looked up.  There    *)
(* the code answers, and then, for want of braces after the else at        *)
(* node.c:483, answers a second time with the freed argument of the first: *)
(* the start of the node's own arc counts as inside it.                    *)
(***************************************************************************)
NoSelfLookup == \A c \in Asked : c.id # c.to

-----------------------------------------------------------------------------
(***************************************************************************)
(* The shape of the ring.                                                  *)
(***************************************************************************)

Members == {n \in Nodes : status[n] \in {"ready", "up"}}
First(n) == FirstSucc(n, successor[n])

(* A member points at its first live successor. *)
Points == [n \in Nodes |-> IF status[n] \in {"ready", "up"} THEN First(n) ELSE Nil]

Abs == INSTANCE AbstractRing WITH next <- Points

(***************************************************************************)
(* While nodes only join, ring maintenance implements AbstractRing: the    *)
(* answer to a join, however long it was under way and whoever came in     *)
(* meanwhile, does not lead past the member that nobody points past, and   *)
(* whatever answer stabilisation uses, at whatever time, a member turns    *)
(* only to a nearer one (node_network_join_succ_found,                     *)
(* node_stabilize_sp_found).                                               *)
(***************************************************************************)
ImplementsAbstractRing == Abs!Spec

(***************************************************************************)
(* While nodes only join, they form one network: no two groups of members  *)
(* have first successors in the group only and no member in common.  A     *)
(* join and the stabilisations racing with it never split the network.     *)
(***************************************************************************)
OneRing == Connected(Points)

(***************************************************************************)
(* While nodes only join, the ring is in the order of the identifiers: no  *)
(* node on the ring is skipped by the successor of another.                *)
(***************************************************************************)
Ordered == InOrder(Points)

(***************************************************************************)
(* A node that has joined a network of others is told another node for its *)
(* successor (node_network_join_succ_found), so it is part of that network *)
(* at once: with itself for successor it would start a ring of its own.    *)
(***************************************************************************)
JoinsOthers ==
    \A n, m \in Nodes :
        status[n] = "ready" /\ status[m] = "up" => First(n) # n

(***************************************************************************)
(* While nodes only join, the first successor of a member only ever gets   *)
(* nearer: neither an answer that was overtaken by a later one nor the     *)
(* walk that refills the list undoes an adoption.                          *)
(***************************************************************************)
SuccessorOnlyCloser ==
    [][\A n \in Members : Gap(n, First(n)') <= Gap(n, First(n))]_vars

-----------------------------------------------------------------------------
(***************************************************************************)
(* Failures.                                                               *)
(***************************************************************************)

(***************************************************************************)
(* A walk that will write past the end of the list (node_update_succs_found*)
(* tests the index only after the write) is one that starts when all       *)
(* entries but the last are empty; a walk along the list stops in time.    *)
(***************************************************************************)
OverrunsFromLastOnly ==
    [][\A c \in calls' \ calls :
          c.kind = "succs" /\ c.phase = "req" /\ c.relays = <<>> /\ c.entry \notin Index
          => \A i \in Index \ {NUM_OF_SUCCS - 1} : successor'[c.from][i] = Nil]_vars

(***************************************************************************)
(* What the comment on node_check_succ_result says: the entry cleared is   *)
(* that of a successor that did not respond.                               *)
(***************************************************************************)
ClearedDidNotRespond ==
    [][\A n \in Nodes : \A i \in Index :
          /\ successor[n][i] # Nil /\ successor'[n][i] = Nil
          /\ status'[n] # "down"
          => ~Running(successor[n][i])]_vars

-----------------------------------------------------------------------------
(***************************************************************************)
(* Fairness.                                                               *)
(***************************************************************************)

(***************************************************************************)
(* The timers of node_network_joined are EV_PERSIST: they fire again and   *)
(* again while the process lives.  The bound Room is no part of the        *)
(* actions, so it is no excuse for a timer not to fire.  libevent calls    *)
(* the callback of every connection with something to read and of every    *)
(* active event.  A notification follows its stabilisation, and a walk the *)
(* join, under the same number.                                            *)
(***************************************************************************)
Serves(n, kinds) ==
    \A no \in 1 .. MaxCalls :
       WF_vars(\E c \in calls :
                  c.from = n /\ c.kind \in kinds /\ c.no = no /\ Handle(c))

Runs(n) ==
    /\ WF_vars(Joined(n))
    /\ WF_vars(Stabilise(n)) /\ WF_vars(UpdateSuccs(n))
    /\ Serves(n, LookupKinds) /\ Serves(n, StabKinds)

Checks(n) ==
    /\ WF_vars(CheckSuccs(n)) /\ WF_vars(CheckPred(n))
    /\ Serves(n, {"check_succ"}) /\ Serves(n, {"check_pred"})

Fairness == \A n \in Nodes : Runs(n) /\ Checks(n)

FairSpec == Spec /\ Fairness

-----------------------------------------------------------------------------
(***************************************************************************)
(* What must eventually happen.                                            *)
(***************************************************************************)

Up == {n \in Nodes : status[n] = "up"}

(* The node that follows n on the circle among the nodes of S. *)
Following(S, n) == CHOOSE m \in S : \A k \in S : Gap(n, m) <= Gap(n, k)

(* Every node that is up knows its true successor, which knows it. *)
Ideal ==
    \A n \in Up : LET s == Following(Up, n) IN First(n) = s /\ predecessor[s] = n

(* The successor list of n in a network of the nodes of S. *)
TrueList(S, n) ==
    LET list[i \in Index] == Following(S, IF i = 0 THEN n ELSE list[i - 1])
    IN  list

FullLists == \A n \in Up : successor[n] = TrueList(Up, n)

(***************************************************************************)
(* node_notified takes a node for its own predecessor although it knows    *)
(* another one, because its range includes the node itself.                *)
(***************************************************************************)
SelfDisplaces ==
    \E n \in Nodes : predecessor[n] \notin {Nil, n} /\ predecessor'[n] = n

(***************************************************************************)
(* When nodes only join, stabilisation ends: the ring, the predecessors    *)
(* and all lists become right and stay right.  Unless a node that was      *)
(* alone displaces its predecessor with itself for ever: it can ask itself *)
(* for its predecessor just before another node notifies it, and notify    *)
(* itself just after, every time.                                          *)
(***************************************************************************)
SettlesUnlessDisplaced == <>[][~SelfDisplaces]_vars => <>[](Ideal /\ FullLists)

(***************************************************************************)
(* A node that starts to join an existing network comes to be a member, or *)
(* its process ends (node_network_join).                                   *)
(***************************************************************************)
JoinEnds ==
    \A n \in Nodes : status[n] = "joining" ~> status[n] \in {"up", "down"}

(***************************************************************************)
(* The ring heals: after the last failure every live node comes to know    *)
(* its true live successor and predecessor.                                *)
(***************************************************************************)
Heals == <>[]Ideal

(***************************************************************************)
(* The same unless nodes displace their predecessors with themselves for   *)
(* ever: with two exchanges in flight a stale answer can make a node       *)
(* notify itself each time its true predecessor has notified it.           *)
(***************************************************************************)
HealsUnlessDisplaced == <>[][~SelfDisplaces]_vars => Heals

(***************************************************************************)
(* The dead are forgotten: in the end no live node has a dead one for its  *)
(* predecessor or anywhere in its list (node_check_predecessor and         *)
(* node_check_successors).                                                 *)
(***************************************************************************)
Forgets ==
    <>[](\A n \in Up : /\ predecessor[n] \in Up \cup {Nil}
                       /\ \A i \in Index : successor[n][i] \in Up \cup {Nil})
=============================================================================
