------------------------------- MODULE Lookup -------------------------------
(***************************************************************************)
(* Lookups with finger tables: node_find_successor, the relaying of its    *)
(* requests and answers, and node_fix_fingers of src/src/node.c, in the    *)
(* build that uses fingers (make).  Nodes may die.  What ring maintenance  *)
(* does is Ring's matter; here it is two actions: the first successor of a *)
(* node may at any time come to be any node, as after a failed check that  *)
(* clears the entry of a live one, and some time later it is right again.  *)
(*                                                                         *)
(* Nothing ever asks whether a finger is alive.  A request sent along a    *)
(* finger to a dead node is lost without a word (node_remote_find_event    *)
(* does nothing), and a finger is replaced only by the answer to a lookup  *)
(* that its own node starts, and may itself route by dead fingers.         *)
(***************************************************************************)
EXTENDS NodeId, Sequences, FiniteSets

CONSTANTS
    ID_BITS,    \* 32 in the code
    Wanted,     \* bound: the identifiers the application looks up
    MaxCalls,   \* bound: lookups are started only while fewer are open
    MaxDeaths,  \* bound: how many processes are killed
    MaxLapses   \* bound: how often a first successor becomes another node

Finger == 1 .. ID_BITS - 1      \* entry 0 of the table is not used

(* two_to_the_n: the offset of finger i is that of i - 1. *)
two_to_the_n(n) == 2^n

ASSUME LookupAssumption ==
    /\ ID_BITS \in Nat /\ ID_BITS > 1 /\ IdSpace = 2^ID_BITS
    /\ \A i \in Finger : two_to_the_n(i - 1) \in 1 .. IdSpace - 1
    /\ Wanted \subseteq Id
    /\ MaxCalls \in Nat /\ MaxDeaths \in Nat /\ MaxLapses \in Nat

VARIABLES
    alive,      \* the nodes whose process runs
    succ,       \* the first successor each node knows
    finger,     \* struct node_self.finger_table; Nil is a zeroed entry
    calls,      \* the lookups in flight
    deaths,     \* how many processes were killed
    lapses      \* how often a first successor became another node

vars == <<alive, succ, finger, calls, deaths, lapses>>

(***************************************************************************)
(* A lookup in flight: `from' waits for the answer, the request is at `to' *)
(* (phase "req") or the answer `res' is on its way back (phase "rep").     *)
(* `relays' passed it on and must pass the answer back, oldest first.      *)
(* `finger' is the entry finger_update will write, 0 for a lookup of the   *)
(* application.  `doubt' is history: the live nodes that the first         *)
(* successor of some live node has pointed past since the lookup began and *)
(* until it was answered.                                                  *)
(***************************************************************************)
Call == [from : Nodes, finger : Finger \cup {0}, id : Id, to : Nodes,
         relays : Seq(Nodes), phase : {"req", "rep"}, res : Nodes \cup {Nil},
         doubt : SUBSET Nodes]

(* The live nodes that a live node points past, when s gives their first   *)
(* successors.                                                             *)
Passed(s) == {m \in alive : \E n \in alive : Gap(n, m) < Gap(n, s[n])}

(* Who must live for the answer to arrive. *)
Holders(c) ==
    {c.from} \cup {c.relays[j] : j \in 1 .. Len(c.relays)}
             \cup (IF c.phase = "req" THEN {c.to} ELSE {})

(* Wrong variant: nobody notices that a connection fails. *)
ConnectAnyway(c) == {c}

(***************************************************************************)
(* node_find_successor_remote: a connection to a process that does not     *)
(* run fails, and the lookup is never heard of again.                      *)
(***************************************************************************)
Connect(c) == IF c.to \in alive THEN {c} ELSE {}

(* Process x ends, and with it all it holds; N are the calls that it does  *)
(* not hand on.                                                            *)
End(x, N) ==
    /\ alive' = alive \ {x}
    /\ calls' = {c \in calls \ N : x \notin Holders(c)}

(* The node of S that has identifier id: the first one from id clockwise.  *)
Owner(S, id) == CHOOSE m \in S : \A k \in S : Dist(id, m) <= Dist(id, k)

-----------------------------------------------------------------------------
(***************************************************************************)
(* Routing.                                                                *)
(***************************************************************************)

(* Wrong variants: the arc from the other end; the furthest finger without *)
(* asking whether it comes before the identifier.                          *)
AnswersBehind(x, id, s) == x = s \/ node_id_in_range(x, id, s)

ClosestIsFurthest(x, table, id) ==
    LET fit == {i \in Finger : table[i] \notin {Nil, 0}}
    IN  IF fit = {} THEN succ[x]
        ELSE table[CHOOSE i \in fit : \A j \in fit : j <= i]

(* The first tests of node_find_successor on a node x whose first live     *)
(* successor is s, for an identifier that is not its own.                  *)
Answers(x, id, s) == x = s \/ node_id_in_range(id, x, s)

(***************************************************************************)
(* node_closest_preceding_node: the furthest finger that lies on the arc   *)
(* to id, the node at id included; a finger with identifier 0 counts as    *)
(* empty.                                                                  *)
(***************************************************************************)
node_closest_preceding_node(x, table, id) ==
    LET fit == {i \in Finger : /\ table[i] \notin {Nil, 0}
                               /\ node_id_in_range(table[i], x, id)}
    IN  IF fit = {} THEN succ[x]
        ELSE table[CHOOSE i \in fit : \A j \in fit : j <= i]

(* Node n asks the node that its finger table gives for id. *)
Request(n, table, i, id) ==
    [from |-> n, finger |-> i, id |-> id,
     to |-> node_closest_preceding_node(n, table, id),
     relays |-> <<>>, phase |-> "req", res |-> Nil, doubt |-> Passed(succ)]

-----------------------------------------------------------------------------
(***************************************************************************)
(* Fixing fingers.                                                         *)
(***************************************************************************)

FingerId(n, i) == IdPlus(n, two_to_the_n(i - 1))

(* finger_update: a node is not its own finger. *)
Entry(n, found) == IF found = n THEN Nil ELSE found

(***************************************************************************)
(* node_fix_fingers: look up every finger, in rounds that do not overlap   *)
(* here.  Those whose identifier lies before the first successor are found *)
(* at once; they are the first ones, so the others are routed by the table *)
(* they leave.                                                             *)
(***************************************************************************)
FixFingers(n) ==
    LET Here(i) == Answers(n, FingerId(n, i), succ[n])
    IN  /\ n \in alive
        /\ \A c \in calls : ~(c.from = n /\ c.finger # 0)
        /\ finger' = [finger EXCEPT ![n] =
                         [i \in Finger |-> IF Here(i) THEN Entry(n, succ[n]) ELSE @[i]]]
        /\ calls' = calls \cup
             UNION {Connect(Request(n, finger'[n], i, FingerId(n, i))) :
                      i \in {j \in Finger : ~Here(j)}}
        /\ UNCHANGED <<alive, succ, deaths, lapses>>

(* Wrong variant: an entry is only filled, never replaced. *)
FingerKept(c) ==
    /\ c \in calls /\ c.phase = "rep" /\ c.relays = <<>> /\ c.finger # 0
    /\ finger' = [finger EXCEPT ![c.from][c.finger] = IF @ = Nil THEN Entry(c.from, c.res) ELSE @]
    /\ calls' = calls \ {c}
    /\ UNCHANGED <<alive, succ, deaths, lapses>>

(* finger_update with the answer of another node. *)
FingerFound(c) ==
    /\ c \in calls /\ c.phase = "rep" /\ c.relays = <<>> /\ c.finger # 0
    /\ finger' = [finger EXCEPT ![c.from][c.finger] = Entry(c.from, c.res)]
    /\ calls' = calls \ {c}
    /\ UNCHANGED <<alive, succ, deaths, lapses>>

-----------------------------------------------------------------------------
(***************************************************************************)
(* Lookups of the application.                                             *)
(***************************************************************************)

(* node_find_successor for an identifier that another node must be asked.  *)
Ask(n, id) ==
    /\ n \in alive /\ id # n /\ ~Answers(n, id, succ[n])
    /\ calls' = calls \cup Connect(Request(n, finger[n], 0, id))
    /\ UNCHANGED <<alive, succ, finger, deaths, lapses>>

(***************************************************************************)
(* The same for the own identifier: the callback runs, and for want of     *)
(* braces after the else at node.c:483 it runs again with an argument that *)
(* the first call may have freed.  If the process survives that, nothing   *)
(* here has changed.                                                       *)
(***************************************************************************)
AskOwn(n) ==
    /\ n \in alive
    /\ End(n, {})
    /\ UNCHANGED <<succ, finger, deaths, lapses>>

(* The callback of the application. *)
Found(c) ==
    /\ c \in calls /\ c.phase = "rep" /\ c.relays = <<>> /\ c.finger = 0
    /\ calls' = calls \ {c}
    /\ UNCHANGED <<alive, succ, finger, deaths, lapses>>

-----------------------------------------------------------------------------
(***************************************************************************)
(* Relaying: handle_succ_request and node_find_successor on the node x a   *)
(* request has come to.                                                    *)
(***************************************************************************)

(* The identifier is another one's. *)
HandleOther(c) ==
    LET x == c.to
    IN  /\ c \in calls /\ c.phase = "req" /\ c.id # x
        /\ calls' = (calls \ {c}) \cup
             IF Answers(x, c.id, succ[x])
             THEN {[c EXCEPT !.phase = "rep", !.res = succ[x]]}
             ELSE Connect([c EXCEPT !.relays = Append(@, x),
                                    !.to = node_closest_preceding_node(x, finger[x], c.id)])
        /\ UNCHANGED <<alive, succ, finger, deaths, lapses>>

(***************************************************************************)
(* The identifier is that of x: the callback answers with x and frees its  *)
(* argument, and is called again with the freed argument.  The process may *)
(* end, or what follows the first answer on the connection is not read.    *)
(***************************************************************************)
HandleOwn(c) ==
    LET x == c.to
    IN  /\ c \in calls /\ c.phase = "req" /\ c.id = x
        /\ \/ /\ calls' = (calls \ {c}) \cup {[c EXCEPT !.phase = "rep", !.res = x]}
              /\ UNCHANGED alive
           \/ End(x, {c})
        /\ UNCHANGED <<succ, finger, deaths, lapses>>

(* node_successor_found_for_remote: the last relay passes the answer back. *)
RelayReply(c) ==
    /\ c \in calls /\ c.phase = "rep" /\ c.relays # <<>>
    /\ calls' = (calls \ {c}) \cup {[c EXCEPT !.relays = SubSeq(@, 1, Len(@) - 1)]}
    /\ UNCHANGED <<alive, succ, finger, deaths, lapses>>

Handle(c) ==
    HandleOther(c) \/ HandleOwn(c) \/ RelayReply(c) \/ Found(c) \/ FingerFound(c)

-----------------------------------------------------------------------------
(***************************************************************************)
(* Deaths and ring maintenance.                                            *)
(***************************************************************************)

Die(n) ==
    /\ n \in alive /\ deaths < MaxDeaths
    /\ End(n, {})
    /\ deaths' = deaths + 1
    /\ UNCHANGED <<succ, finger, lapses>>

(***************************************************************************)
(* What goes wrong in the list of node n.  A failed check clears the entry *)
(* whose index was noted when the check was sent, whoever is there by now, *)
(* also when a live node was only slow (node_check_succ_result), so that   *)
(* node_first_alive_succ finds a later entry, or in an empty list the node *)
(* itself; a late answer to a stabilisation brings back a node that has    *)
(* died (node_stabilize_sp_found).                                         *)
(***************************************************************************)
Lapse(n, s) ==
    /\ n \in alive /\ s # succ[n]
    /\ lapses < MaxLapses
    /\ lapses' = lapses + 1
    /\ LET next == [succ EXCEPT ![n] = s]
       IN  /\ succ' = next
           /\ calls' = {IF c.phase = "req" THEN [c EXCEPT !.doubt = @ \cup Passed(next)] ELSE c :
                          c \in calls}
    /\ UNCHANGED <<alive, finger, deaths>>

(***************************************************************************)
(* What checks, stabilisation and the walk down the list come to in the    *)
(* end, in many steps of Ring: the first successor is the next live node.  *)
(***************************************************************************)
Repair(n) ==
    /\ n \in alive /\ succ[n] # Owner(alive, IdPlus(n, 1))
    /\ succ' = [succ EXCEPT ![n] = Owner(alive, IdPlus(n, 1))]
    /\ UNCHANGED <<alive, finger, calls, deaths, lapses>>

-----------------------------------------------------------------------------
(***************************************************************************)
(* The specification.  node_create does not initialise the finger table:   *)
(* an entry holds whatever the memory held, which is not a node's address. *)
(***************************************************************************)
Init ==
    /\ alive = Nodes
    /\ succ = [n \in Nodes |-> Owner(Nodes, IdPlus(n, 1))]
    /\ finger \in [Nodes -> [Finger -> (Id \ Nodes) \cup {Nil}]]
    /\ calls = {}
    /\ deaths = 0 /\ lapses = 0

Next ==
    \/ Cardinality(calls) < MaxCalls /\ \E n \in Nodes : FixFingers(n)
    \/ Cardinality(calls) < MaxCalls /\ \E n \in Nodes, id \in Wanted : Ask(n, id)
    \/ \E n \in Nodes : Die(n) \/ Repair(n)
    \/ \E n, s \in Nodes : Lapse(n, s)
    \/ \E n \in Nodes \cap Wanted : AskOwn(n)
    \/ \E c \in calls : Handle(c)

Spec == Init /\ [][Next]_vars

TypeOK ==
    /\ alive \subseteq Nodes
    /\ succ \in [Nodes -> Nodes]
    /\ finger \in [Nodes -> [Finger -> Id \cup {Nil}]]
    /\ calls \subseteq Call
    /\ deaths \in 0 .. MaxDeaths /\ lapses \in 0 .. MaxLapses

-----------------------------------------------------------------------------
(***************************************************************************)
(* Whatever the fingers hold.                                              *)
(***************************************************************************)

Asked == {c \in calls : c.phase = "req"}

(***************************************************************************)
(* Every hop of a lookup is strictly nearer to its identifier than all     *)
(* hops before it, whatever dead or meaningless entries the finger tables  *)
(* hold, so no lookup goes round in circles (node_closest_preceding_node). *)
(***************************************************************************)
LookupProgress ==
    \A c \in Asked : \A j \in 1 .. Len(c.relays) :
        /\ Dist(c.to, c.id) < Dist(c.relays[j], c.id)
        /\ \A i \in 1 .. j - 1 :
              Dist(c.relays[j], c.id) < Dist(c.relays[i], c.id)

(***************************************************************************)
(* An answer skips a live node only when the first successor of some node  *)
(* pointed past that node while the lookup was on its way: fingers, dead   *)
(* or made up, are hints of where to ask and never change what is found,   *)
(* and what was wrong before the lookup began and is mended leaves no      *)
(* trace in its answer (node_find_successor).                              *)
(***************************************************************************)
AnswersSkipNone ==
    \A c \in calls : c.phase = "rep" =>
        \A m \in alive \ c.doubt : Dist(c.id, c.res) <= Dist(c.id, m)

(***************************************************************************)
(* What node.h says of node_closest_preceding_node, that it finds the      *)
(* highest known predecessor of an identifier: whoever is asked for the    *)
(* successor of an identifier comes before it, and is not the node that    *)
(* has it.                                                                 *)
(***************************************************************************)
AsksPredecessor == \A c \in Asked : c.to # c.id

-----------------------------------------------------------------------------
(***************************************************************************)
(* What must eventually happen.                                            *)
(***************************************************************************)

(***************************************************************************)
(* The timer of node_network_joined fires again and again, libevent calls  *)
(* the callback of every connection with something to read, so that each   *)
(* round of lookups ends, and rings heal.                                  *)
(***************************************************************************)
Fairness ==
    \A n \in Nodes :
        /\ WF_vars(FixFingers(n))
        /\ WF_vars(Repair(n))
        /\ WF_vars(\E c \in calls : c.from = n /\ c.finger # 0 /\ Handle(c))

FairSpec == Spec /\ Fairness

(* Every finger of every live node is the node that has its identifier. *)
FingersRight ==
    \A n \in alive : \A i \in Finger :
        finger[n][i] = Entry(n, Owner(alive, FingerId(n, i)))

(***************************************************************************)
(* Entry i of live node n names no running process, and lies on the way    *)
(* from n to the identifier of that entry, its two ends included.          *)
(***************************************************************************)
DrawsItsOwnLookup(n, i) ==
    /\ n \in alive /\ finger[n][i] \notin alive \cup {Nil, 0}
    /\ node_id_in_range(finger[n][i], n, FingerId(n, i))

(***************************************************************************)
(* The finger tables become right, and become right again after nodes have *)
(* died and successors were wrong, although lookups route by the dead      *)
(* entries they are to replace: the near fingers are repaired first, and   *)
(* the far ones by them (node_fix_fingers).  One thing alone can keep a    *)
(* table wrong for ever: a dead or made-up entry that lies on the way to   *)
(* its own identifier draws the lookup that should replace it to itself    *)
(* each time (node_closest_preceding_node).                                *)
(***************************************************************************)
FingersSettle ==
    (\A n \in Nodes : \A i \in Finger : []<>~DrawsItsOwnLookup(n, i)) => <>[]FingersRight
=============================================================================
