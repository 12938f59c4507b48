------------------------------ MODULE Exchange ------------------------------
(***************************************************************************)
(* The connections of one node: the pool of slots of src/src/netio.c and   *)
(* the exchanges that src/src/node.c runs over them.                       *)
(*                                                                         *)
(* A connection is known to the code by the number of its slot.  Callbacks *)
(* close it by that number, and a lookup that is passed on remembers the   *)
(* number of the connection its answer is owed to.  The node is one event  *)
(* loop, so a callback is one action.  The remote ends of the connections  *)
(* are processes running the same code: they close a connection once they  *)
(* have their answer, never for waiting too long (node_remote_find_event   *)
(* does nothing).                                                          *)
(***************************************************************************)
EXTENDS Integers, FiniteSets

CONSTANTS
    MAX_OPEN_CONNECTIONS,   \* size of the pool, 256 in the code
    Peers,                  \* the possible remote ends of connections
    None,                   \* bev = NULL; no peer
    MaxDeaths,              \* bound: how many remote ends may die
    MaxTimeouts             \* bound: how many read timeouts may occur

ASSUME ExchangeAssumption ==
    /\ MAX_OPEN_CONNECTIONS \in Nat \ {0}
    /\ None \notin Peers
    /\ MaxDeaths \in Nat /\ MaxTimeouts \in Nat

VARIABLES
    slot,       \* struct net_server.connections, by slot number
    peer,       \* what the remote end of a connection is at
    crashed,    \* the node has dereferenced a null pointer
    misled,     \* the peers that got an answer meant for another connection
    deaths,     \* how many remote ends have died
    timeouts    \* how many read timeouts have occurred

vars == <<slot, peer, crashed, misled, deaths, timeouts>>

Slots == 0 .. MAX_OPEN_CONNECTIONS - 1

(***************************************************************************)
(* What a connection is for: "incoming" from listen_evt_cb, the others     *)
(* opened by node_connect_and_send_message.  "relay" is a lookup on behalf *)
(* of the connection in slot `back' (incoming_handler_data.connection),    *)
(* which was then the connection of `asker'.  `hears' is false once        *)
(* libevent has reported a timeout or an error: it then reads no more.     *)
(***************************************************************************)
Uses == {"incoming", "relay", "own", "check", "notif"}

Free == [peer |-> None, use |-> "free", hears |-> FALSE, back |-> -1, asker |-> None]

Slot ==
    {Free}
    \cup [peer : Peers, use : Uses \ {"relay"}, hears : BOOLEAN,
          back : {-1}, asker : {None}]
    \cup [peer : Peers, use : {"relay"}, hears : BOOLEAN,
          back : Slots, asker : Peers]

Opened(p, use) ==
    [peer |-> p, use |-> use, hears |-> TRUE, back |-> -1, asker |-> None]

(***************************************************************************)
(* A remote end "knocks" until it is accepted, "asks" until its request is *)
(* read, "waits" for the answer, is "answered", and is "gone" when it has  *)
(* closed.  It is "stranded" when its connection was accepted by the       *)
(* system and dropped by the node.  One that the node has opened is        *)
(* "asked" and then has "replied".  The "dead" stay dead; one that was     *)
(* written an answer to "refuses" it.                                      *)
(***************************************************************************)
PeerState == {"idle", "knocks", "asks", "waits", "answered", "gone", "stranded",
              "asked", "replied", "dead", "refuses"}

Dead == {"dead", "refuses"}

-----------------------------------------------------------------------------
(***************************************************************************)
(* The pool.                                                               *)
(***************************************************************************)

(* net_empty_connection_slot: the first slot without a bufferevent, or -1. *)
net_empty_connection_slot ==
    IF \A k \in Slots : slot[k].peer # None
    THEN -1
    ELSE CHOOSE k \in Slots : /\ slot[k].peer = None
                              /\ \A j \in 0 .. k-1 : slot[j].peer # None

(* A remote end whose connection is closed: it may connect again, unless   *)
(* its process is dead.                                                    *)
Left(state) == IF state \in Dead THEN "dead" ELSE "idle"

(* Wrong variant of Close: the bufferevent is freed but stays in the slot.  *)
CloseDangling(k) ==
    /\ slot' = [slot EXCEPT ![k].use = "free"]
    /\ peer' = [peer EXCEPT ![slot[k].peer] = Left(@)]

(* net_connection_close on slot k; the other end notices.                  *)
Close(k) ==
    /\ slot' = [slot EXCEPT ![k] = Free]
    /\ peer' = [peer EXCEPT ![slot[k].peer] = Left(@)]

Init ==
    /\ slot = [k \in Slots |-> Free]
    /\ peer = [p \in Peers |-> "idle"]
    /\ crashed = FALSE
    /\ misled = {}
    /\ deaths = 0
    /\ timeouts = 0

-----------------------------------------------------------------------------
(***************************************************************************)
(* Incoming connections.                                                   *)
(***************************************************************************)

(* listen_evt_cb: without a free slot it returns and the socket is lost.   *)
Accept(p) ==
    LET k == net_empty_connection_slot IN
    /\ peer[p] = "knocks"
    /\ IF k = -1
       THEN /\ peer' = [peer EXCEPT ![p] = "stranded"]
            /\ UNCHANGED slot
       ELSE /\ peer' = [peer EXCEPT ![p] = "asks"]
            /\ slot' = [slot EXCEPT ![k] = Opened(p, "incoming")]
    /\ UNCHANGED <<crashed, misled, deaths, timeouts>>

(* The request in slot k is read by incoming_read_cb. *)
Reads(k) ==
    slot[k].use = "incoming" /\ slot[k].hears /\ peer[slot[k].peer] = "asks"

(* handle_alive_request, handle_pred_request, and handle_succ_request for  *)
(* an identifier on the node's own arc: the answer is written at once.     *)
Answer(k) ==
    /\ Reads(k)
    /\ peer' = [peer EXCEPT ![slot[k].peer] = "answered"]
    /\ UNCHANGED <<slot, crashed, misled, deaths, timeouts>>

(* handle_notif_request: no answer, the connection is closed.              *)
Notified(k) ==
    /\ Reads(k)
    /\ Close(k)
    /\ UNCHANGED <<crashed, misled, deaths, timeouts>>

(***************************************************************************)
(* handle_succ_request for any other identifier: the lookup is passed on   *)
(* to q.  Without a free slot node_find_successor_remote fails, nobody     *)
(* looks at its result, and the asker is left waiting.                     *)
(***************************************************************************)
Relay(k, q) ==
    LET p == slot[k].peer
        j == net_empty_connection_slot
        out == [Opened(q, "relay") EXCEPT !.back = k, !.asker = p]
    IN  /\ Reads(k)
        /\ peer[q] = "idle"
        /\ IF j = -1
           THEN /\ peer' = [peer EXCEPT ![p] = "waits"]
                /\ UNCHANGED slot
           ELSE /\ peer' = [peer EXCEPT ![p] = "waits", ![q] = "asked"]
                /\ slot' = [slot EXCEPT ![j] = out]
        /\ UNCHANGED <<crashed, misled, deaths, timeouts>>

(* Wrong variant of the next definition: closes on a timeout as well.      *)
ClosesAlways(event) == TRUE

(***************************************************************************)
(* The events on which incoming_event_cb closes.  It tests BEV_ERROR, a    *)
(* constant of libevent's filters equal to BEV_EVENT_WRITING, where        *)
(* BEV_EVENT_ERROR is meant: an error met while writing has that bit, the  *)
(* errors and timeouts of reading do not.                                  *)
(***************************************************************************)
IncomingCloses(event) == event \in {"EOF", "WRITE_ERROR"}

(* incoming_event_cb *)
IncomingEvent(k, event) ==
    /\ slot[k].use = "incoming"
    /\ IF IncomingCloses(event)
       THEN Close(k)
       ELSE /\ slot' = [slot EXCEPT ![k].hears = FALSE]
            /\ UNCHANGED peer
    /\ UNCHANGED <<crashed, misled, deaths>>

-----------------------------------------------------------------------------
(***************************************************************************)
(* Outgoing connections.                                                   *)
(***************************************************************************)

(***************************************************************************)
(* node_connect_and_send_message for the node's own purposes.  Without a   *)
(* free slot it returns -1: nothing is sent, but node_notify_node goes on  *)
(* to write to the buffer of connection -1, a null pointer.                *)
(***************************************************************************)
Ask(use, q) ==
    LET k == net_empty_connection_slot IN
    /\ peer[q] = "idle"
    /\ IF k = -1
       THEN /\ use = "notif"
            /\ crashed' = TRUE
            /\ UNCHANGED <<slot, peer>>
       ELSE /\ slot' = [slot EXCEPT ![k] = Opened(q, use)]
            /\ peer' = [peer EXCEPT ![q] = "asked"]
            /\ UNCHANGED crashed
    /\ UNCHANGED <<misled, deaths, timeouts>>

(* The answer in slot k is read. *)
Replied(k) == slot[k].peer # None /\ slot[k].hears /\ peer[slot[k].peer] = "replied"

(* node_found_remote_cb for a lookup or predecessor request of the node's  *)
(* own, and node_check_node_reply: both close the connection.              *)
OwnReply(k) ==
    /\ slot[k].use \in {"own", "check"} /\ Replied(k)
    /\ Close(k)
    /\ UNCHANGED <<crashed, misled, deaths, timeouts>>

(* Wrong variants of RelayReply: node_found_remote_cb does not close; the  *)
(* answer is not passed back.                                              *)
RelayReplyKeeps(k) ==
    /\ slot[k].use = "relay" /\ Replied(k)
    /\ peer' = [peer EXCEPT ![slot[k].peer] = "idle", ![slot[k].asker] = "answered"]
    /\ slot' = [slot EXCEPT ![k].hears = FALSE]
    /\ UNCHANGED <<crashed, misled, deaths, timeouts>>

RelayReplyDrops(k) ==
    /\ slot[k].use = "relay" /\ Replied(k)
    /\ Close(k)
    /\ UNCHANGED <<crashed, misled, deaths, timeouts>>

(***************************************************************************)
(* node_found_remote_cb and node_successor_found_for_remote: close, then   *)
(* write the answer to whatever connection is in the slot remembered.  A   *)
(* slot that is free has a null bufferevent.  A peer that waits takes any  *)
(* answer for its own.                                                     *)
(***************************************************************************)
RelayReply(k) ==
    LET q == slot[k].peer
        r == slot[slot[k].back].peer
    IN  /\ slot[k].use = "relay" /\ Replied(k)
        /\ slot' = [slot EXCEPT ![k] = Free]
        /\ peer' = [p \in Peers |->
                      IF p = q THEN Left(peer[p])
                      ELSE IF p = r /\ peer[p] = "waits" THEN "answered"
                      ELSE IF p = r /\ peer[p] = "dead" THEN "refuses"
                      ELSE peer[p]]
        /\ crashed' = (r = None)
        /\ misled' = misled \cup ({r} \ {None, slot[k].asker})
        /\ UNCHANGED <<deaths, timeouts>>

(***************************************************************************)
(* node_check_node_event and node_notify_rep_event close on every event;   *)
(* node_remote_find_event, for lookups and predecessor requests, does      *)
(* nothing, and nothing is read from the connection any more.              *)
(***************************************************************************)
OutgoingEvent(k) ==
    /\ slot[k].use \in {"relay", "own", "check", "notif"}
    /\ IF slot[k].use \in {"check", "notif"}
       THEN Close(k)
       ELSE /\ slot' = [slot EXCEPT ![k].hears = FALSE]
            /\ UNCHANGED peer
    /\ UNCHANGED <<crashed, misled, deaths>>

-----------------------------------------------------------------------------
(***************************************************************************)
(* The remote ends.                                                        *)
(***************************************************************************)

SetPeer(p, state) ==
    /\ peer' = [peer EXCEPT ![p] = state]
    /\ UNCHANGED <<slot, crashed, misled, timeouts>>

Knock(p) == peer[p] = "idle" /\ SetPeer(p, "knocks") /\ UNCHANGED deaths

UseOf(p) == {slot[k].use : k \in {j \in Slots : slot[j].peer = p}}

(* It answers the node's request; a notification it takes without answer   *)
(* and closes.                                                             *)
PeerReplies(p) ==
    /\ peer[p] = "asked"
    /\ SetPeer(p, IF "notif" \in UseOf(p) THEN "gone" ELSE "replied")
    /\ UNCHANGED deaths

(* It has its answer and closes. *)
PeerCloses(p) == peer[p] = "answered" /\ SetPeer(p, "gone") /\ UNCHANGED deaths

(* Its process dies.  One that dies before its request is read does as if  *)
(* it died just after: what it sent is read first.                         *)
PeerDies(p) ==
    /\ peer[p] \in {"waits", "answered", "asked"}
    /\ deaths < MaxDeaths
    /\ SetPeer(p, "dead")
    /\ deaths' = deaths + 1

(* A liveness check or notification that is stranded is given up.          *)
GivesUp(p) == peer[p] = "stranded" /\ SetPeer(p, "idle") /\ UNCHANGED deaths

(***************************************************************************)
(* The events of a connection whose other end is gone: the end of the      *)
(* stream or, when it died, possibly an error.                             *)
(***************************************************************************)
GoneEvent(k) ==
    /\ slot[k].peer # None /\ slot[k].hears /\ peer[slot[k].peer] \in {"gone"} \cup Dead
    /\ \/ IncomingEvent(k, "EOF")
       \/ peer[slot[k].peer] \in Dead /\ IncomingEvent(k, "ERROR")
       \/ OutgoingEvent(k)
    /\ UNCHANGED timeouts

(* The answer written to a dead end may be refused, heard of or not.       *)
WriteError(k) ==
    /\ slot[k].peer # None /\ peer[slot[k].peer] = "refuses"
    /\ IncomingEvent(k, "WRITE_ERROR")
    /\ UNCHANGED timeouts

(* Nothing arrived on the connection for as long as its timeout says.      *)
TimeoutEvent(k) ==
    /\ slot[k].peer # None /\ slot[k].hears
    /\ peer[slot[k].peer] \in {"waits", "answered", "asked"}
    /\ timeouts < MaxTimeouts
    /\ timeouts' = timeouts + 1
    /\ IncomingEvent(k, "TIMEOUT") \/ OutgoingEvent(k)

-----------------------------------------------------------------------------
Handle(k) ==
    \/ Answer(k) \/ Notified(k) \/ (\E q \in Peers : Relay(k, q))
    \/ OwnReply(k) \/ RelayReply(k) \/ GoneEvent(k)

(* A process that has crashed does nothing more. *)
Stopped == crashed /\ UNCHANGED vars

Next ==
    \/ Stopped
    \/ /\ ~crashed
       /\ \/ \E p \in Peers : Knock(p)
          \/ \E p \in Peers : Accept(p)
          \/ \E p \in Peers : PeerReplies(p)
          \/ \E p \in Peers : PeerCloses(p)
          \/ \E p \in Peers : PeerDies(p)
          \/ \E p \in Peers : GivesUp(p)
          \/ \E use \in {"own", "check", "notif"}, q \in Peers : Ask(use, q)
          \/ \E k \in Slots : Handle(k)
          \/ \E k \in Slots : WriteError(k)
          \/ \E k \in Slots : TimeoutEvent(k)

Spec == Init /\ [][Next]_vars

(***************************************************************************)
(* libevent calls the callback of every connection that has something to   *)
(* report, and the listener's; the remote ends run the same code.          *)
(***************************************************************************)
Fairness ==
    /\ \A k \in Slots : WF_vars(~crashed /\ Handle(k))
    /\ \A p \in Peers : WF_vars(~crashed /\ (Accept(p) \/ PeerReplies(p) \/ PeerCloses(p)))

FairSpec == Spec /\ Fairness

-----------------------------------------------------------------------------
(* The types of the variables. *)
TypeOK ==
    /\ slot \in [Slots -> Slot]
    /\ peer \in [Peers -> PeerState]
    /\ crashed \in BOOLEAN
    /\ misled \subseteq Peers
    /\ deaths \in 0 .. MaxDeaths
    /\ timeouts \in 0 .. MaxTimeouts

(***************************************************************************)
(* While an asker waits for the answer to a lookup that was passed on, its *)
(* connection stays open, in the slot whose number was remembered for it,  *)
(* whatever times out and whoever else dies (incoming_handler_data); save  *)
(* for one misled by the answer to an asker that died.                     *)
(***************************************************************************)
OwedAnswersKept ==
    \A k \in Slots :
        slot[k].use = "relay" /\ peer[slot[k].asker] = "waits"
        /\ slot[k].asker \notin misled
            => slot[slot[k].back].peer = slot[k].asker

(***************************************************************************)
(* A lookup passed on is followed to its end, whoever else dies and        *)
(* whatever comes to the slots around it: its connection is used for       *)
(* nothing else and closed by nothing but its answer, which frees its      *)
(* asker from waiting.  Only the death or silence of the node it was       *)
(* passed on to loses it (node_remote_find_event), and only an asker that  *)
(* was misled already may miss it (node_successor_found_for_remote).       *)
(***************************************************************************)
LookupsFollowed ==
    [][\A k \in Slots :
          /\ slot[k].use = "relay" /\ slot[k].hears
          /\ peer[slot[k].asker] = "waits" /\ slot[k].asker \notin misled
          => \/ slot'[k] = slot[k]
             \/ peer'[slot[k].asker] = "answered"
             \/ peer[slot[k].peer] \in Dead
             \/ timeouts' # timeouts]_vars

(***************************************************************************)
(* The answer of a lookup passed on goes to the connection that asked, and *)
(* to no other that has come to its slot, as long as no asker has died     *)
(* (node_successor_found_for_remote writes to a remembered slot number).   *)
(***************************************************************************)
AnswerToAsker == deaths = 0 => misled = {}

Pool == INSTANCE AbstractPool
            WITH Conns <- Peers, holder <- [k \in Slots |-> slot[k].peer]

(***************************************************************************)
(* The callbacks of a node use the pool as one: each takes or leaves one   *)
(* slot at most, takes only an empty one, and leaves only one that is in   *)
(* use, although slots are closed by number, and some after a wait.        *)
(***************************************************************************)
ImplementsPool == Pool!Spec

(* The same whatever dies, as proto.h has it: "req: find successor id",    *)
(* "resp: successor [of id] is s_id".                                      *)
NoneMisled == misled = {}

(***************************************************************************)
(* As long as no asker has died, the only null pointer the node comes to   *)
(* use for a connection is that of connection -1 of a full pool            *)
(* (node_notify_node), never that of a slot closed under a lookup passed   *)
(* on (node_successor_found_for_remote).                                   *)
(***************************************************************************)
CrashOnlyWhenFull == crashed /\ deaths = 0 => \A k \in Slots : slot[k].peer # None

(***************************************************************************)
(* The number of a connection is negative on error (libdhtnet.h), and a    *)
(* negative one is not used as a connection (node_notify_node).            *)
(***************************************************************************)
NoCrash == ~crashed

(***************************************************************************)
(* What the comment in incoming_event_cb says: a connection is closed on   *)
(* error.  One whose other end died is open only until that is noticed.    *)
(***************************************************************************)
ClosedOnError ==
    \A k \in Slots :
        slot[k].use = "incoming" /\ peer[slot[k].peer] \in Dead => slot[k].hears

(***************************************************************************)
(* Every slot taken from the pool comes back to it: whichever end closes   *)
(* first, the callback of the other closes too, exactly once.              *)
(***************************************************************************)
SlotsReturn ==
    \A k \in Slots : slot[k].peer # None ~> slot[k].peer = None

(***************************************************************************)
(* Every request that reaches the node is answered or closed: "req: find   *)
(* successor id, resp: successor [of id] is s_id" (proto.h).               *)
(***************************************************************************)
RequestsEnd ==
    \A p \in Peers : peer[p] = "knocks" ~> peer[p] \in {"answered", "gone", "idle"}
=============================================================================
