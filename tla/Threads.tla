------------------------------ MODULE Threads ------------------------------
(***************************************************************************)
(* Two threads in one node: its event loop, and the thread in which        *)
(* example/textsend.c looks names up (in_thread).  Both open connections,  *)
(* with connections_lock held for a part of it, and both close them, with  *)
(* no lock at all.  Each access to a shared slot is a step of its own, in  *)
(* the order of the source: the Makefile does not ask for optimisation.    *)
(*                                                                         *)
(* Left out: what libevent itself does with two threads, for which the     *)
(* program never prepares it (evthread), failing allocations, and          *)
(* net_cb_arg, which is written and cleared while the bufferevent is there.*)
(***************************************************************************)
EXTENDS Integers, FiniteSets

CONSTANTS
    MAX_OPEN_CONNECTIONS,   \* size of the pool, 256 in the code
    MaxConns,               \* bound: how often a thread sets out to open one
    None                    \* a null pointer, a zeroed address, a free lock

ASSUME ThreadsAssumption ==
    /\ MAX_OPEN_CONNECTIONS \in Nat \ {0}
    /\ MaxConns \in Nat
    /\ None \notin Nat \cup {"loop", "app"}

VARIABLES
    bev,        \* connections[k].bev, by slot: whose bufferevent
    sin,        \* connections[k].sin: the address of which connection
    conn,       \* what has become of each connection
    body,       \* the connections whose request has its body written to it
    connections_lock, succs_lock,
    pc,         \* where each thread is
    op,         \* what it opens a connection for
    mine,       \* the connection it opens
    at,         \* the slot it is at
    fault       \* it used the buffer of a slot without a bufferevent

vars == <<bev, sin, conn, body, connections_lock, succs_lock, pc, op, mine, at, fault>>

Threads == {"loop", "app"}

Slots == 0 .. MAX_OPEN_CONNECTIONS - 1

(* The connections, in the order in which the threads set out to open them. *)
Conns == 1 .. MaxConns

(***************************************************************************)
(* Why a thread opens a connection.  `succs': succs_lock is taken before   *)
(* ("held": and held meanwhile).  `late': a body is written after the      *)
(* connection was activated.                                               *)
(*   lookup  node_find_successor, passed on                                *)
(*   message found_node of textsend.c, called back by a lookup that was    *)
(*           answered from the own successor                               *)
(*   check   node_check_node, node_get_predecessor_remote, and found_node  *)
(*           called back by a remote answer                                *)
(*   update  node_update_succs                                             *)
(*   notify  node_notify_node from node_stabilize_sp_found                 *)
(*   accept  listen_evt_cb                                                 *)
(***************************************************************************)
Lookup  == [use |-> "lookup",  succs |-> "taken", late |-> TRUE]
Message == [use |-> "message", succs |-> "held",  late |-> FALSE]
Check   == [use |-> "check",   succs |-> "no",    late |-> FALSE]
Update  == [use |-> "update",  succs |-> "held",  late |-> TRUE]
Notify  == [use |-> "notify",  succs |-> "held",  late |-> TRUE]
Accept  == [use |-> "accept",  succs |-> "no",    late |-> FALSE]

Ops(t) == IF t = "app" THEN {Lookup, Message}
                       ELSE {Lookup, Check, Update, Notify, Accept}

Goto(t, where) == pc' = [pc EXCEPT ![t] = where]

-----------------------------------------------------------------------------
(***************************************************************************)
(* Opening: net_connection_create and listen_evt_cb.                       *)
(***************************************************************************)

Begin(t) ==
    /\ pc[t] = "idle"
    /\ \E c \in Conns, o \in Ops(t) :
          /\ conn[c] = "none" /\ \A d \in 1 .. c - 1 : conn[d] # "none"
          /\ conn' = [conn EXCEPT ![c] = "begun"]
          /\ mine' = [mine EXCEPT ![t] = c]
          /\ op' = [op EXCEPT ![t] = o]
          /\ Goto(t, IF o.succs = "no" THEN "lock" ELSE "succs")
    /\ UNCHANGED <<bev, sin, body, connections_lock, succs_lock, at, fault>>

(* A look at the successors; some go on with the lock held. *)
LockSuccs(t) ==
    /\ pc[t] = "succs"
    /\ succs_lock = None
    /\ succs_lock' = IF op[t].succs = "held" THEN t ELSE None
    /\ Goto(t, "lock")
    /\ UNCHANGED <<bev, sin, conn, body, connections_lock, op, mine, at, fault>>

(* Wrong variant of the next definition: the slot is looked for unlocked. *)
DoesNotLock(t) ==
    /\ pc[t] = "lock"
    /\ connections_lock' = t
    /\ at' = [at EXCEPT ![t] = 0]
    /\ Goto(t, "scan")
    /\ UNCHANGED <<bev, sin, conn, body, succs_lock, op, mine, fault>>

LockPool(t) ==
    /\ pc[t] = "lock"
    /\ connections_lock = None
    /\ connections_lock' = t
    /\ at' = [at EXCEPT ![t] = 0]
    /\ Goto(t, "scan")
    /\ UNCHANGED <<bev, sin, conn, body, succs_lock, op, mine, fault>>

(* The end of what a thread does, succs_lock released if held. *)
Return(t) ==
    /\ Goto(t, "idle")
    /\ op' = [op EXCEPT ![t] = None]
    /\ mine' = [mine EXCEPT ![t] = None]
    /\ at' = [at EXCEPT ![t] = 0]
    /\ succs_lock' = IF succs_lock = t THEN None ELSE succs_lock

(* Without a connection node_notify_node writes to that of number -1. *)
Failed(t) == fault' = (fault \/ op[t].use = "notify")

(* Wrong variant of the next definition: the lock is kept. *)
GiveUpLocked(t) ==
    /\ pc[t] = "scan" /\ bev[at[t]] # None /\ at[t] = MAX_OPEN_CONNECTIONS - 1
    /\ Failed(t)
    /\ Return(t)
    /\ UNCHANGED <<bev, sin, conn, body, connections_lock>>

(* The pool is full. *)
GiveUp(t) ==
    /\ pc[t] = "scan" /\ bev[at[t]] # None /\ at[t] = MAX_OPEN_CONNECTIONS - 1
    /\ connections_lock' = None
    /\ Failed(t)
    /\ Return(t)
    /\ UNCHANGED <<bev, sin, conn, body>>

(* Wrong variant: it looks at one slot too many. *)
ScanPastEnd(t) ==
    /\ pc[t] = "scan"
    /\ IF bev[at[t]] = None
       THEN Goto(t, "store") /\ UNCHANGED at
       ELSE at' = [at EXCEPT ![t] = @ + 1] /\ UNCHANGED pc
    /\ UNCHANGED <<bev, sin, conn, body, connections_lock, succs_lock, op, mine, fault>>

(* net_empty_connection_slot looks at one slot after the other. *)
Scan(t) ==
    /\ pc[t] = "scan"
    /\ \/ /\ bev[at[t]] = None
          /\ Goto(t, "store")
          /\ UNCHANGED at
       \/ /\ bev[at[t]] # None /\ at[t] < MAX_OPEN_CONNECTIONS - 1
          /\ at' = [at EXCEPT ![t] = @ + 1]
          /\ UNCHANGED pc
    /\ UNCHANGED <<bev, sin, conn, body, connections_lock, succs_lock, op, mine, fault>>

StoreBev(t) ==
    /\ pc[t] = "store"
    /\ bev' = [bev EXCEPT ![at[t]] = mine[t]]
    /\ conn' = [conn EXCEPT ![mine[t]] = "made"]
    /\ Goto(t, IF op[t].use = "accept" THEN "unlock" ELSE "address")
    /\ UNCHANGED <<sin, body, connections_lock, succs_lock, op, mine, at, fault>>

(* The family is stored first: wiped in between, it is as wiped after.     *)
StoreSin(t) ==
    /\ pc[t] = "address"
    /\ sin' = [sin EXCEPT ![at[t]] = mine[t]]
    /\ Goto(t, "unlock")
    /\ UNCHANGED <<bev, conn, body, connections_lock, succs_lock, op, mine, at, fault>>

UnlockPool(t) ==
    /\ pc[t] = "unlock"
    /\ connections_lock' = None
    /\ Goto(t, "activate")
    /\ UNCHANGED <<bev, sin, conn, body, succs_lock, op, mine, at, fault>>

-----------------------------------------------------------------------------
(***************************************************************************)
(* Using: incoming_connection, node_send_message, net_connection_activate, *)
(* and the body that callers of node_connect_and_send_message add.         *)
(***************************************************************************)

(* An accepted connection is enabled as it is. *)
Enable(t) ==
    /\ pc[t] = "activate" /\ op[t].use = "accept"
    /\ conn' = [conn EXCEPT ![mine[t]] = "open"]
    /\ Return(t)
    /\ UNCHANGED <<bev, sin, body, connections_lock, fault>>

(* bufferevent_socket_connect with the address in the slot.                *)
Activate(t) ==
    /\ pc[t] = "activate" /\ op[t].use # "accept"
    /\ sin[at[t]] # None
    /\ conn' = [conn EXCEPT ![mine[t]] =
                  IF sin[at[t]] = mine[t] THEN "open" ELSE "astray"]
    /\ IF op[t].late
       THEN Goto(t, "body") /\ UNCHANGED <<op, mine, at, succs_lock>>
       ELSE Return(t)
    /\ UNCHANGED <<bev, sin, body, connections_lock, fault>>

(* Wrong variant: the connection stays in its slot. *)
LeavesOpen(t) ==
    /\ pc[t] = "activate" /\ op[t].use # "accept"
    /\ sin[at[t]] = None
    /\ Failed(t)
    /\ Return(t)
    /\ UNCHANGED <<bev, sin, conn, body, connections_lock>>

(* A zeroed address has no family: connecting fails at once, and closes.   *)
FailToActivate(t) ==
    /\ pc[t] = "activate" /\ op[t].use # "accept"
    /\ sin[at[t]] = None
    /\ Failed(t)
    /\ Goto(t, "free")
    /\ UNCHANGED <<bev, sin, conn, body, connections_lock, succs_lock, op, mine, at>>

(* The body goes to whatever bufferevent is in the slot by now.            *)
AddBody(t) ==
    LET c == bev[at[t]] IN
    /\ pc[t] = "body"
    /\ IF c = None \/ conn[c] = "closed"
       THEN fault' = TRUE /\ UNCHANGED body
       ELSE body' = [body EXCEPT ![c] = @ \cup {mine[t]}] /\ UNCHANGED fault
    /\ Return(t)
    /\ UNCHANGED <<bev, sin, conn, connections_lock>>

-----------------------------------------------------------------------------
(***************************************************************************)
(* Closing: net_connection_close, in three steps and without a lock.       *)
(***************************************************************************)

(* A callback of the loop closes a connection: it was answered, or has     *)
(* ended.                                                                  *)
BeginClose(k) ==
    /\ pc["loop"] = "idle"
    /\ bev[k] # None /\ conn[bev[k]] = "open"
    /\ at' = [at EXCEPT !["loop"] = k]
    /\ Goto("loop", "free")
    /\ UNCHANGED <<bev, sin, conn, body, connections_lock, succs_lock, op, mine, fault>>

FreeBev(t) ==
    /\ pc[t] = "free"
    /\ conn' = [conn EXCEPT ![bev[at[t]]] = "closed"]
    /\ Goto(t, "forget")
    /\ UNCHANGED <<bev, sin, body, connections_lock, succs_lock, op, mine, at, fault>>

ForgetBev(t) ==
    /\ pc[t] = "forget"
    /\ bev' = [bev EXCEPT ![at[t]] = None]
    /\ Goto(t, "wipe")
    /\ UNCHANGED <<sin, conn, body, connections_lock, succs_lock, op, mine, at, fault>>

WipeSin(t) ==
    /\ pc[t] = "wipe"
    /\ sin' = [sin EXCEPT ![at[t]] = None]
    /\ Return(t)
    /\ UNCHANGED <<bev, conn, body, connections_lock, fault>>

-----------------------------------------------------------------------------
Init ==
    /\ bev = [k \in Slots |-> None] /\ sin = [k \in Slots |-> None]
    /\ conn = [c \in Conns |-> "none"] /\ body = [c \in Conns |-> {}]
    /\ connections_lock = None /\ succs_lock = None
    /\ pc = [t \in Threads |-> "idle"] /\ op = [t \in Threads |-> None]
    /\ mine = [t \in Threads |-> None] /\ at = [t \in Threads |-> 0]
    /\ fault = FALSE

Continue(t) ==
    \/ LockSuccs(t) \/ LockPool(t) \/ Scan(t) \/ GiveUp(t)
    \/ StoreBev(t) \/ StoreSin(t) \/ UnlockPool(t)
    \/ Enable(t) \/ Activate(t) \/ FailToActivate(t) \/ AddBody(t)
    \/ FreeBev(t) \/ ForgetBev(t) \/ WipeSin(t)

(* After a fault the process is no more. *)
Next ==
    /\ ~fault
    /\ \/ \E t \in Threads : Begin(t)
       \/ \E t \in Threads : Continue(t)
       \/ \E k \in Slots : BeginClose(k)

Spec == Init /\ [][Next]_vars

(* A thread that can run does so. *)
FairSpec == Spec /\ \A t \in Threads : WF_vars(~fault /\ Continue(t))

TypeOK ==
    /\ bev \in [Slots -> Conns \cup {None}]
    /\ sin \in [Slots -> Conns \cup {None}]
    /\ conn \in [Conns -> {"none", "begun", "made", "open", "astray", "closed"}]
    /\ body \in [Conns -> SUBSET Conns]
    /\ connections_lock \in Threads \cup {None}
    /\ succs_lock \in Threads \cup {None}
    /\ pc \in [Threads -> {"idle", "succs", "lock", "scan", "store", "address",
                           "unlock", "activate", "body", "free", "forget", "wipe"}]
    /\ op \in [Threads -> {None, Lookup, Message, Check, Update, Notify, Accept}]
    /\ mine \in [Threads -> Conns \cup {None}]
    /\ at \in [Threads -> Slots]
    /\ fault \in BOOLEAN

-----------------------------------------------------------------------------
(***************************************************************************)
(* Two connections never share a slot, none is lost from the pool, and no  *)
(* slot keeps a bufferevent that was freed, although net_connection_close  *)
(* takes no lock: a slot looks taken until its last occupant is forgotten. *)
(***************************************************************************)
OwnSlot ==
    /\ \A c \in Conns : conn[c] \in {"made", "open"} =>
          \E k \in Slots : \A j \in Slots : bev[j] = c <=> j = k
    /\ \A k \in Slots : bev[k] # None =>
          \/ conn[bev[k]] = "open"
          \/ \E t \in Threads : pc[t] # "idle" /\ at[t] = k

(***************************************************************************)
(* A connection never goes to another address than its own.  Its slot may  *)
(* still be wiped by the thread that closed the one before it there, but   *)
(* then connecting fails: an address is its own or none.                   *)
(***************************************************************************)
ConnectsHome == \A c \in Conns : conn[c] # "astray"

(***************************************************************************)
(* The body of a request, which is written after its connection was        *)
(* activated, is written to another connection, in the slot that it left,  *)
(* only when its own was answered or ended before: never when it is open.  *)
(***************************************************************************)
BodyHome == \A c \in Conns : \A d \in body[c] \ {c} : conn[d] = "closed"

(***************************************************************************)
(* Nobody waits in a circle: whoever holds connections_lock is on its way  *)
(* to release it, and whoever holds succs_lock waits for connections_lock  *)
(* at most, although a lookup that is answered from the own successor runs *)
(* its callback, and the connections that opens, with succs_lock held      *)
(* (node_find_successor).                                                  *)
(***************************************************************************)
LocksOrdered ==
    /\ connections_lock # None =>
          pc[connections_lock] \in {"scan", "store", "address", "unlock"}
    /\ succs_lock # None => pc[succs_lock] \notin {"idle", "succs"}

Pool == INSTANCE AbstractPool WITH holder <- bev

(***************************************************************************)
(* Seen through the bufferevents in them the slots are those of a pool in  *)
(* which taking and leaving are one step each, although a slot is looked   *)
(* for, filled, freed and forgotten in many steps of two threads, and left *)
(* without the lock (net_connection_create, net_connection_close).         *)
(***************************************************************************)
ImplementsPool == Pool!Spec

(***************************************************************************)
(* No deadlock: whoever waits for a lock gets it and comes to an end once  *)
(* the other thread opens no more.  succs_lock is always taken before      *)
(* connections_lock, and both are released on every path, the full pool    *)
(* and the failed connection included.                                     *)
(***************************************************************************)
LocksEnd ==
    \A t \in Threads : pc[t] \in {"succs", "lock"} ~> pc[t] = "idle" \/ fault
=============================================================================
