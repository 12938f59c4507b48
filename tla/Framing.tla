------------------------------ MODULE Framing ------------------------------
(***************************************************************************)
(* How a node finds one message in the bytes of a connection: a request or *)
(* a message of the application on an incoming one (incoming_connection,   *)
(* incoming_read_cb, node_parse_message_header and the handle_* functions  *)
(* of src/src/node.c, with the read watermark of the connection), or the   *)
(* answer on an outgoing one (node_found_remote_cb, node_check_node_reply).*)
(* It is the only one of its connection in that direction.  The former is  *)
(* a header of a type and a length, and a body; an answer is a body alone. *)
(* TCP delivers the bytes in order, cut anywhere.  A byte is its place.    *)
(***************************************************************************)
EXTENDS Integers, FiniteSets

CONSTANTS
    LEN_STR_BYTES,  \* hexadecimal digits of the length, 8 in the code
    ID_BYTES,       \* bytes of an identifier, 4 in the code
    Lengths         \* bound: lengths of the application's messages

PORT_BYTES == 2

(* No body of a request is as long as a header. *)
ASSUME FramingAssumption ==
    /\ LEN_STR_BYTES \in Nat /\ ID_BYTES \in Nat /\ Lengths \subseteq Nat
    /\ ID_BYTES + PORT_BYTES <= LEN_STR_BYTES

VARIABLES
    msg,        \* the message sent
    arrived,    \* how many of its bytes have arrived
    taken,      \* how many bytes were removed from the read buffer
    read_cb,    \* the read callback: "header", or the type whose handler it is
    low,        \* the low watermark: fewer bytes do not call back
    evt_cb,     \* the event callback
    cb_arg,     \* its argument: the node, a node_msg_arg, that one freed, or
                \* what an answer is for
    open,       \* the connection is open at the receiver
    reading,    \* and still read from
    handled,    \* how many times a handler ran
    got,        \* the bytes of the message that the last one read
    misused     \* a callback has used a freed argument or a null line

vars == <<msg, arrived, taken, read_cb, low, evt_cb, cb_arg, open, reading,
          handled, got, misused>>

HEADER == 1 + LEN_STR_BYTES

Answers == {"SUCC_REP", "PRED_REP", "ALIVE_REP"}

Types == {"SUCC_REQ", "PRED_REQ", "ALIVE_REQ", "NOTIF", "NODE_MSG"} \cup Answers

(* The answer "Y" with identifier, address and port; the hops that follow. *)
FOUND_BYTES == 1 + ID_BYTES + 4 + PORT_BYTES
HOPS_BYTES == 2

(* handle_alive_request answers with a line of two bytes, and asks for six *)
(* bytes of it to be sent.                                                 *)
LINE_BYTES == 2

(* The bytes that follow the header, or that are the answer.               *)
Message ==
    [type : {"SUCC_REQ"}, body : {ID_BYTES}]
    \cup [type : {"PRED_REQ", "ALIVE_REQ"}, body : {0}]
    \cup [type : {"NOTIF"}, body : {ID_BYTES + PORT_BYTES}]
    \cup [type : {"NODE_MSG"}, body : Lengths]
    \cup [type : {"SUCC_REP"}, body : {FOUND_BYTES + HOPS_BYTES}]
    \cup [type : {"PRED_REP"}, body : {1, FOUND_BYTES}]
    \cup [type : {"ALIVE_REP"}, body : {6}]

(* Answers have no header; their types in proto.h are never sent.          *)
Head == IF msg.type \in Answers THEN 0 ELSE HEADER

Total == Head + msg.body

(* The bytes that whoever handles the message is to read.                  *)
Content == Head + 1 .. IF msg.type = "ALIVE_REP" THEN LINE_BYTES ELSE Total

(***************************************************************************)
(* node_send_message: the length of a message with content is sent; the    *)
(* bodies of requests are added to the buffer later, and their length is   *)
(* sent as 0.                                                              *)
(***************************************************************************)
Announced == IF msg.type = "NODE_MSG" THEN msg.body ELSE 0

Least(a, b) == IF a <= b THEN a ELSE b

-----------------------------------------------------------------------------
(***************************************************************************)
(* Reading.                                                                *)
(***************************************************************************)

(***************************************************************************)
(* node_found_remote_cb removes what is there, for lookups and             *)
(* predecessors alike; node_check_node_reply a line, if there is one.      *)
(* Both then close.                                                        *)
(***************************************************************************)
WantedOfAnswer(type, there) ==
    IF type # "ALIVE_REP" THEN FOUND_BYTES + HOPS_BYTES
    ELSE IF there >= LINE_BYTES THEN LINE_BYTES ELSE 0

(***************************************************************************)
(* A handler runs when `at' bytes were taken and `here' have arrived.      *)
(* handle_succ_request and handle_notif_request remove what is there of    *)
(* their bodies (evbuffer_remove returns fewer bytes, not an error); the   *)
(* latter then closes.  handle_node_message passes the buffer to the       *)
(* application, which drains it (read_in_msg in textsend.c), and frees its *)
(* argument, that of the connection if it was set.                         *)
(***************************************************************************)
Wanted(type, there) ==
    CASE type = "SUCC_REQ" -> ID_BYTES
      [] type = "NOTIF"    -> ID_BYTES + PORT_BYTES
      [] type = "NODE_MSG" -> there
      [] type \in Answers  -> WantedOfAnswer(type, there)
      [] OTHER             -> 0

(* Wrong variant: the port of the notifying node is not read. *)
WithoutPort(type, there) ==
    CASE type \in {"SUCC_REQ", "NOTIF"} -> Least(ID_BYTES, there)
      [] type = "NODE_MSG" -> there
      [] type \in Answers -> Least(FOUND_BYTES + HOPS_BYTES, there)
      [] OTHER -> 0

(* Wrong variant: what is wanted is taken to be there. *)
NotAllThere(type, there) == Wanted(type, there)

Removed(type, there) == Least(Wanted(type, there), there)

Handler(type, at, here) ==
    LET n == Removed(type, here - at)
    IN  /\ taken' = at + n
        /\ got' = (at + 1) .. (at + n)
        /\ handled' = handled + 1
        /\ open' = (type \notin {"NOTIF"} \cup Answers)

(* Wrong variant: waits although the whole body is there. *)
WaitsForMore(here) == Announced > 0 /\ here - HEADER <= Announced

(* Wrong variant: the length is not looked at. *)
NeverIncomplete(here) == FALSE

(* The test of incoming_read_cb: fewer bytes than the length announced. *)
Incomplete(here) == here - HEADER < Announced

(* Wrong variant: the argument and the event callback are set before the   *)
(* length is looked at.                                                    *)
SetsFirst(here) ==
    /\ read_cb = "header"
    /\ evt_cb' = "incoming_event_msg_cb"
    /\ IF Incomplete(here)
       THEN /\ read_cb' = msg.type /\ low' = Announced /\ taken' = HEADER
            /\ cb_arg' = "node_msg_arg"
            /\ UNCHANGED <<open, handled, got>>
       ELSE /\ Handler(msg.type, HEADER, here)
            /\ cb_arg' = "freed"
            /\ UNCHANGED <<read_cb, low>>
    /\ UNCHANGED misused

(* incoming_read_cb, with the whole header there. *)
ReadHeader(here) ==
    /\ read_cb = "header"
    /\ IF Incomplete(here)
       THEN /\ read_cb' = msg.type
            /\ low' = Announced
            /\ taken' = HEADER
            /\ IF msg.type = "NODE_MSG"
               THEN evt_cb' = "incoming_event_msg_cb" /\ cb_arg' = "node_msg_arg"
               ELSE UNCHANGED <<evt_cb, cb_arg>>
            /\ UNCHANGED <<open, handled, got>>
       ELSE /\ Handler(msg.type, HEADER, here)
            /\ UNCHANGED <<read_cb, low, evt_cb, cb_arg>>
    /\ UNCHANGED misused

(***************************************************************************)
(* A handler that incoming_read_cb has set, or the one of the answer.      *)
(* evbuffer_readln gives a null pointer when there is no whole line.       *)
(***************************************************************************)
ReadBody(here) ==
    /\ read_cb # "header"
    /\ Handler(read_cb, taken, here)
    /\ cb_arg' = IF read_cb = "NODE_MSG" THEN "freed" ELSE cb_arg
    /\ misused' = (misused \/ (read_cb = "ALIVE_REP" /\ here < LINE_BYTES))
    /\ UNCHANGED <<read_cb, low, evt_cb>>

(* Some bytes arrive; libevent calls back when the buffer holds `low'. *)
Arrive(n) ==
    LET here == arrived + n
    IN  /\ open /\ reading
        /\ arrived' = here
        /\ IF here - taken >= low
           THEN ReadHeader(here) \/ ReadBody(here)
           ELSE UNCHANGED <<taken, read_cb, low, evt_cb, cb_arg, open, handled, got,
                            misused>>
        /\ UNCHANGED <<msg, reading>>

-----------------------------------------------------------------------------
(***************************************************************************)
(* Events of the connection, after which libevent reads no more.  Those of *)
(* incoming connections close at the end of the stream only, and the one   *)
(* set for a message looks for its node in the argument first.  That of a  *)
(* liveness check closes, and node_remote_find_event does nothing.         *)
(***************************************************************************)
Event ==
    /\ open
    /\ misused' = (misused \/ (evt_cb = "incoming_event_msg_cb" /\ cb_arg = "freed"))
    /\ UNCHANGED <<msg, arrived, taken, read_cb, low, evt_cb, cb_arg, handled, got>>

(* The other end has closed: on its own timeout, when it has its answer,   *)
(* or because it died with bytes still to send.                            *)
EndOfStream ==
    /\ reading
    /\ Event
    /\ open' = (evt_cb = "node_remote_find_event")
    /\ reading' = FALSE

(* The timeout of the connection. *)
Timeout ==
    /\ reading
    /\ Event
    /\ open' = (evt_cb # "node_check_node_event")
    /\ reading' = FALSE

-----------------------------------------------------------------------------
Init ==
    /\ msg \in Message
    /\ arrived = 0 /\ taken = 0
    /\ IF msg.type \in Answers
       THEN /\ read_cb = msg.type /\ low = 0
            /\ evt_cb = IF msg.type = "ALIVE_REP" THEN "node_check_node_event"
                                                  ELSE "node_remote_find_event"
            /\ cb_arg = "call"
       ELSE /\ read_cb = "header" /\ low = HEADER
            /\ evt_cb = "incoming_event_cb" /\ cb_arg = "node_self"
    /\ open = TRUE /\ reading = TRUE
    /\ handled = 0 /\ got = {}
    /\ misused = FALSE

Segment == \E n \in 1 .. Total - arrived : Arrive(n)

Next == Segment \/ EndOfStream \/ Timeout

Spec == Init /\ [][Next]_vars

(* TCP delivers what was sent unless one end gives up. *)
FairSpec == Spec /\ WF_vars(Segment)

TypeOK ==
    /\ msg \in Message
    /\ arrived \in 0 .. Total /\ taken \in 0 .. arrived
    /\ read_cb \in Types \cup {"header"} /\ low \in Nat
    /\ evt_cb \in {"incoming_event_cb", "incoming_event_msg_cb",
                   "node_remote_find_event", "node_check_node_event"}
    /\ cb_arg \in {"node_self", "node_msg_arg", "freed", "call"}
    /\ open \in BOOLEAN /\ reading \in BOOLEAN
    /\ handled \in Nat /\ got \in SUBSET (1 .. Total)
    /\ misused \in BOOLEAN

HandledWhole ==
    handled' # handled =>
        /\ handled = 0
        /\ arrived' = Total => got' = Content

-----------------------------------------------------------------------------
(***************************************************************************)
(* Wherever TCP cuts a message of the application, it is handed up once,   *)
(* and whole: its body, all of it, and no byte of the header.              *)
(***************************************************************************)
MessageWhole ==
    msg.type = "NODE_MSG" /\ handled > 0 =>
        handled = 1 /\ got = HEADER + 1 .. Total

(***************************************************************************)
(* Whatever is sent is handled in the end, unless the other end closes or  *)
(* the connection times out first: the watermark set behind a header is    *)
(* met by the last byte, and not set when that byte is there already.      *)
(***************************************************************************)
MessageArrives == <>(handled > 0 \/ ~open \/ ~reading)

(***************************************************************************)
(* A request, a message or an answer is handled once, and when all of it   *)
(* has arrived by then its handler reads all it is to read.  Nothing makes *)
(* a handler wait for that: a request announces the length 0, an answer    *)
(* none at all, and no watermark is set for it.  One whose bytes come in   *)
(* parts (handle_succ_request, handle_notif_request, node_found_remote_cb) *)
(* is read as far as it is there, and beyond that what the memory held.    *)
(***************************************************************************)
WholeIfThere == [][HandledWhole]_vars

(***************************************************************************)
(* handle_node_message frees the argument that the event callback of the   *)
(* connection still uses when the sender closes, and node_check_node_reply *)
(* uses the line it was given.  The one is freed, and the other missing,   *)
(* only where TCP has cut: after a message whose header came before the    *)
(* rest, and in an answer whose first byte came alone.                     *)
(***************************************************************************)
MisusedOnlyWhenSplit ==
    misused => \/ read_cb = "NODE_MSG" /\ handled = 1
               \/ read_cb = "ALIVE_REP" /\ arrived < LINE_BYTES
=============================================================================
