--------------------------- MODULE FramingProofs ---------------------------
(***************************************************************************)
(* That a message is read whole, for every length and every way in which   *)
(* TCP may cut it.  Before a handler has run, either nothing was taken and *)
(* the watermark is the header, or the header was taken and the watermark  *)
(* is the body; after it has run there are fewer bytes to come than the    *)
(* watermark asks for, so that none runs again.  Answers have no watermark *)
(* and a handler that closes.                                              *)
(***************************************************************************)
EXTENDS Framing, TLAPS

USE FramingAssumption

(* No handler has run yet. *)
Waiting ==
    handled = 0 => \/ read_cb \in {"header"} \cup Answers /\ taken = 0
                   \/ read_cb = "NODE_MSG" /\ taken = HEADER /\ msg.body > 0

(* The watermark. *)
Marked ==
    \/ read_cb = "header" /\ msg.type \notin Answers /\ low = HEADER
    \/ read_cb = "NODE_MSG" /\ msg.type = "NODE_MSG" /\ low = msg.body
    \/ read_cb \in Answers /\ msg.type = read_cb /\ low = 0

(* A handler has run. *)
Done ==
    handled > 0 =>
        /\ handled = 1
        /\ IF msg.type \in Answers THEN ~open ELSE taken >= HEADER
        /\ msg.type = "NODE_MSG" => arrived = Total /\ got = HEADER + 1 .. Total

(* The argument that was freed, and the line that was not there. *)
Freed ==
    /\ misused => \/ cb_arg = "freed"
                  \/ read_cb = "ALIVE_REP" /\ handled = 1 /\ arrived < LINE_BYTES
    /\ cb_arg = "freed" => read_cb = "NODE_MSG" /\ handled = 1

Inv == TypeOK /\ Waiting /\ Marked /\ Done /\ Freed

-----------------------------------------------------------------------------
LEMMA MessageType ==
    ASSUME msg \in Message
    PROVE  /\ msg.type \in Types /\ msg.body \in Nat
           /\ msg.type = "SUCC_REQ" => msg.body = ID_BYTES
           /\ msg.type = "NOTIF" => msg.body = ID_BYTES + PORT_BYTES
           /\ msg.type \in {"PRED_REQ", "ALIVE_REQ"} => msg.body = 0
           /\ msg.type \notin {"NODE_MSG"} \cup Answers => msg.body < HEADER
           /\ msg.type \in {"SUCC_REP", "PRED_REP"} => msg.body <= FOUND_BYTES + HOPS_BYTES
           /\ msg.type = "ALIVE_REP" => msg.body = 6
           /\ HEADER \in Nat \ {0} /\ FOUND_BYTES + HOPS_BYTES \in Nat
           /\ Head = IF msg.type \in Answers THEN 0 ELSE HEADER
           /\ Total \in Nat /\ Total = Head + msg.body
           /\ Announced \in Nat
<1>1. /\ HEADER \in Nat \ {0} /\ HEADER = 1 + LEN_STR_BYTES /\ PORT_BYTES \in Nat
      /\ FOUND_BYTES \in Nat /\ HOPS_BYTES \in Nat /\ 1 <= FOUND_BYTES
  BY DEF HEADER, PORT_BYTES, FOUND_BYTES, HOPS_BYTES
<1>2. \/ msg.type = "SUCC_REQ" /\ msg.body = ID_BYTES
      \/ msg.type \in {"PRED_REQ", "ALIVE_REQ"} /\ msg.body = 0
      \/ msg.type = "NOTIF" /\ msg.body = ID_BYTES + PORT_BYTES
      \/ msg.type = "NODE_MSG" /\ msg.body \in Nat
      \/ msg.type = "SUCC_REP" /\ msg.body = FOUND_BYTES + HOPS_BYTES
      \/ msg.type = "PRED_REP" /\ msg.body \in {1, FOUND_BYTES}
      \/ msg.type = "ALIVE_REP" /\ msg.body = 6
  BY DEF Message
<1>3. /\ msg.type \in Types /\ msg.body \in Nat
      /\ msg.type \notin {"NODE_MSG"} \cup Answers => msg.body < HEADER
  BY <1>1, <1>2 DEF Types, Answers
<1>4. msg.type \in {"SUCC_REP", "PRED_REP"} => msg.body <= FOUND_BYTES + HOPS_BYTES
  BY <1>1, <1>2
<1>5. /\ Head = IF msg.type \in Answers THEN 0 ELSE HEADER
      /\ Total \in Nat /\ Total = Head + msg.body /\ Announced \in Nat
  BY <1>1, <1>3 DEF Head, Total, Announced
<1> QED
  BY <1>1, <1>2, <1>3, <1>4, <1>5

(* How much a handler takes. *)
LEMMA RemovedType ==
    ASSUME NEW type, NEW there \in Nat
    PROVE  /\ Removed(type, there) \in 0 .. there
           /\ type = "NODE_MSG" => Removed(type, there) = there
<1>0. WantedOfAnswer(type, there) \in Nat
  BY DEF WantedOfAnswer, PORT_BYTES, FOUND_BYTES, HOPS_BYTES, LINE_BYTES
<1>1. Wanted(type, there) \in Nat
  BY <1>0 DEF Wanted, Answers, PORT_BYTES
<1>2. type = "NODE_MSG" => Wanted(type, there) = there
  BY DEF Wanted, Answers
<1> QED
  BY <1>1, <1>2 DEF Removed, Least

(* What is all there is read whole. *)
LEMMA RemovedWhole ==
    ASSUME msg \in Message
    PROVE  Content = Head + 1 .. Head + Removed(msg.type, msg.body)
<1>1. CASE msg.type = "ALIVE_REP"
  <2>1. Removed(msg.type, msg.body) = LINE_BYTES /\ Head = 0
    BY <1>1, MessageType DEF Removed, Wanted, WantedOfAnswer, Least, LINE_BYTES, Answers
  <2> QED
    BY <1>1, <2>1 DEF Content, LINE_BYTES
<1>2. CASE msg.type \in {"SUCC_REP", "PRED_REP"}
  <2>1. Wanted(msg.type, msg.body) = FOUND_BYTES + HOPS_BYTES
    BY <1>2 DEF Wanted, WantedOfAnswer, Answers
  <2>2. Removed(msg.type, msg.body) = msg.body
    BY <1>2, <2>1, MessageType DEF Removed, Least
  <2> QED
    BY <1>2, <2>2, MessageType DEF Content
<1>3. CASE msg.type \notin Answers
  <2>1. Wanted(msg.type, msg.body) = msg.body
    BY <1>3, MessageType DEF Wanted, Types, Answers
  <2>2. Removed(msg.type, msg.body) = msg.body
    BY <2>1, MessageType DEF Removed, Least
  <2> QED
    BY <1>3, <2>2, MessageType DEF Content, Answers
<1> QED
  BY <1>1, <1>2, <1>3 DEF Answers

(* A callback finds the header untouched, or removed with the body whole,  *)
(* or an answer untouched.                                                 *)
LEMMA CalledBack ==
    ASSUME Inv, open, NEW here \in arrived + 1 .. Total, here - taken >= low
    PROVE  /\ handled = 0
           /\ read_cb = "header" => /\ taken = 0 /\ here >= HEADER
                                    /\ msg.type \notin Answers
           /\ read_cb = "NODE_MSG" => /\ taken = HEADER /\ here = Total
                                      /\ msg.type = "NODE_MSG"
           /\ read_cb \notin {"header", "NODE_MSG"} =>
                /\ taken = 0
                /\ read_cb \in Answers /\ msg.type = read_cb
<1>1. TypeOK /\ Waiting /\ Marked /\ Done
  BY DEF Inv
<1>2. /\ arrived \in Nat /\ taken \in Nat /\ handled \in Nat /\ msg \in Message
      /\ here \in Nat /\ here <= Total /\ here > arrived
  BY <1>1, MessageType DEF TypeOK
<1>3. handled = 0
  <2> SUFFICES ASSUME handled > 0 PROVE FALSE
    BY <1>2
  <2>1. /\ handled = 1 /\ msg.type \notin Answers /\ taken >= HEADER
        /\ msg.type # "NODE_MSG"
    BY <1>1, <1>2, MessageType DEF Done
  <2>2. low = HEADER
    BY <1>1, <2>1 DEF Marked
  <2> QED
    BY <1>2, <2>1, <2>2, MessageType
<1>4. CASE read_cb = "header"
  BY <1>1, <1>2, <1>3, <1>4, MessageType DEF Waiting, Marked, Answers
<1>5. CASE read_cb = "NODE_MSG"
  <2>1. msg.type = "NODE_MSG" /\ low = msg.body /\ taken = HEADER
    BY <1>1, <1>3, <1>5 DEF Waiting, Marked, Answers
  <2>2. Total = HEADER + msg.body
    BY <1>2, <2>1, MessageType DEF Answers
  <2> QED
    BY <1>2, <1>3, <1>5, <2>1, <2>2, MessageType
<1>6. CASE read_cb \notin {"header", "NODE_MSG"}
  BY <1>1, <1>3, <1>6 DEF Waiting, Marked
<1> QED
  BY <1>3, <1>4, <1>5, <1>6

(* A handler run on a message that was not yet handled. *)
LEMMA HandlerStep ==
    ASSUME Inv, handled = 0, NEW here \in Head .. Total,
           Handler(msg.type, Head, here)
    PROVE  /\ taken' \in Head .. here /\ got' \in SUBSET (1 .. Total)
           /\ handled' = 1 /\ open' \in BOOLEAN
           /\ msg.type \in Answers => open' = FALSE
           /\ msg.type = "NODE_MSG" => got' = HEADER + 1 .. here
           /\ here = Total => got' = Content
<1> DEFINE n == Removed(msg.type, here - Head)
<1>1. /\ msg \in Message /\ here - Head \in Nat /\ here - Head <= msg.body
      /\ Head \in Nat /\ here \in Nat
  BY MessageType DEF Inv, TypeOK
<1>2. n \in 0 .. here - Head /\ (msg.type = "NODE_MSG" => n = here - Head)
  BY <1>1, RemovedType
<1>3. taken' = Head + n /\ got' = Head + 1 .. Head + n
  BY DEF Handler
<1>4. here = Total => got' = Content
  BY <1>1, <1>3, RemovedWhole, MessageType
<1>5. /\ handled' = 1 /\ open' \in BOOLEAN
      /\ msg.type \in Answers => open' = FALSE
  <2>1. open' = (msg.type \notin {"NOTIF"} \cup Answers) /\ handled' = 1
    BY DEF Handler
  <2> QED
    BY <2>1
<1>6. msg.type = "NODE_MSG" => Head = HEADER
  BY <1>1, MessageType DEF Answers
<1> HIDE DEF n
<1> QED
  BY <1>1, <1>2, <1>3, <1>4, <1>5, <1>6, MessageType

LEMMA InitInv == Init => Inv
<1> SUFFICES ASSUME Init PROVE Inv
  OBVIOUS
<1>1. msg \in Message /\ HEADER \in Nat /\ Total \in Nat /\ msg.type \in Types
  BY MessageType DEF Init
<1>2. arrived = 0 /\ taken = 0 /\ handled = 0 /\ got = {} /\ misused = FALSE
  BY DEF Init
<1>3. \/ /\ msg.type \in Answers /\ read_cb = msg.type /\ low = 0 /\ cb_arg = "call"
         /\ evt_cb \in {"node_check_node_event", "node_remote_find_event"}
      \/ /\ msg.type \notin Answers /\ read_cb = "header" /\ low = HEADER
         /\ evt_cb = "incoming_event_cb" /\ cb_arg = "node_self"
  BY DEF Init
<1>4. TypeOK
  <2>1. arrived \in 0 .. Total /\ taken \in 0 .. arrived /\ handled \in Nat
    BY <1>1, <1>2
  <2>2. read_cb \in Types \cup {"header"} /\ low \in Nat
    BY <1>1, <1>3
  <2>3. open \in BOOLEAN /\ reading \in BOOLEAN
    BY DEF Init
  <2> QED
    BY <1>1, <1>2, <1>3, <2>1, <2>2, <2>3 DEF TypeOK
<1>5. Waiting /\ Marked
  BY <1>2, <1>3 DEF Waiting, Marked
<1>6. Done /\ Freed
  BY <1>2, <1>3 DEF Done, Freed
<1> QED
  BY <1>4, <1>5, <1>6 DEF Inv

(* The arrival of some bytes. *)
LEMMA ArriveStep ==
    ASSUME Inv, NEW n \in 1 .. Total - arrived, Arrive(n)
    PROVE  Inv' /\ HandledWhole
<1>0. /\ arrived' = arrived + n /\ arrived' \in 0 .. Total /\ msg' = msg
      /\ reading' = reading /\ arrived' > arrived /\ open
      /\ Total' = Total /\ Content' = Content
      /\ HEADER \in Nat /\ Head \in Nat /\ Head <= Total /\ arrived \in Nat
      /\ msg \in Message
  BY MessageType DEF Arrive, Inv, TypeOK, Total, Head, Content
<1> DEFINE here == arrived + n
<1>1. CASE ~(here - taken >= low)
  <2>1. UNCHANGED <<taken, read_cb, low, evt_cb, cb_arg, open, handled, got, misused>>
    BY <1>1 DEF Arrive
  <2>2. Done'
    BY <1>0, <2>1 DEF Inv, Done, TypeOK
  <2>3. TypeOK'
    BY <1>0, <2>1 DEF Inv, TypeOK
  <2>4. Freed'
    <3>1. ~(read_cb = "ALIVE_REP" /\ handled = 1)
      BY <1>0 DEF Inv, Marked, Done, Answers
    <3> QED
      BY <2>1, <3>1 DEF Inv, Freed
  <2> QED
    BY <1>0, <2>1, <2>2, <2>3, <2>4 DEF Inv, Waiting, Marked, HandledWhole
<1>2. CASE here - taken >= low
  <2>1. /\ handled = 0
        /\ read_cb = "header" => /\ taken = 0 /\ here >= HEADER
                                 /\ msg.type \notin Answers
        /\ read_cb = "NODE_MSG" => /\ taken = HEADER /\ here = Total
                                   /\ msg.type = "NODE_MSG"
        /\ read_cb \notin {"header", "NODE_MSG"} =>
             /\ taken = 0
             /\ read_cb \in Answers /\ msg.type = read_cb
    <3>1. here \in arrived + 1 .. Total
      BY <1>0
    <3> HIDE DEF here
    <3> QED
      BY <1>0, <1>2, <3>1, CalledBack
  <2>2. misused = FALSE /\ cb_arg # "freed"
    BY <2>1 DEF Inv, TypeOK, Freed
  <2>3. CASE ReadHeader(here) /\ Incomplete(here)
    <3>1. msg.type = "NODE_MSG" /\ msg.body > here - HEADER /\ here >= HEADER
      BY <1>0, <2>1, <2>3 DEF ReadHeader, Incomplete, Announced
    <3>2. /\ read_cb' = "NODE_MSG" /\ low' = msg.body /\ taken' = HEADER
          /\ evt_cb' = "incoming_event_msg_cb" /\ cb_arg' = "node_msg_arg"
          /\ UNCHANGED <<open, handled, got, misused>>
      BY <2>3, <3>1 DEF ReadHeader, Announced
    <3> QED
      BY <1>0, <2>1, <2>2, <3>1, <3>2, MessageType
      DEF Inv, TypeOK, Waiting, Marked, Done, Freed, HandledWhole, Types
  <2>4. CASE ReadHeader(here) /\ ~Incomplete(here)
    <3>1. /\ Handler(msg.type, HEADER, here) /\ read_cb = "header"
          /\ UNCHANGED <<read_cb, low, evt_cb, cb_arg, misused>>
          /\ Head = HEADER /\ here \in HEADER .. Total
      BY <1>0, <2>1, <2>4, MessageType DEF ReadHeader
    <3>2. /\ taken' \in HEADER .. here /\ got' \in SUBSET (1 .. Total)
          /\ handled' = 1 /\ open' \in BOOLEAN
          /\ msg.type = "NODE_MSG" => got' = HEADER + 1 .. here
          /\ here = Total => got' = Content
      BY <2>1, <3>1, HandlerStep
    <3>3. msg.type = "NODE_MSG" => here = Total
      BY <1>0, <2>4, <3>1, MessageType DEF Incomplete, Announced
    <3> QED
      BY <1>0, <2>1, <2>2, <3>1, <3>2, <3>3
      DEF Inv, TypeOK, Waiting, Marked, Done, Freed, HandledWhole
  <2>5. CASE ReadBody(here) /\ read_cb = "NODE_MSG"
    <3>0. /\ here = Total /\ taken = HEADER /\ msg.type = "NODE_MSG"
          /\ Head = HEADER /\ here \in Head .. Total
      BY <1>0, <2>1, <2>5, MessageType DEF Answers
    <3>1. /\ Handler(msg.type, Head, here) /\ here = Total /\ Head = HEADER
          /\ UNCHANGED <<read_cb, low, evt_cb, misused>> /\ cb_arg' = "freed"
          /\ msg.type = "NODE_MSG" /\ here \in Head .. Total
      BY <2>2, <2>5, <3>0 DEF ReadBody
    <3>2. /\ taken' \in HEADER .. here /\ got' \in SUBSET (1 .. Total)
          /\ handled' = 1 /\ open' \in BOOLEAN
          /\ got' = HEADER + 1 .. here /\ got' = Content
      BY <1>0, <2>1, <3>1, HandlerStep
    <3>3. TypeOK'
      BY <1>0, <2>1, <2>2, <3>1, <3>2 DEF Inv, TypeOK
    <3>4. Waiting' /\ Done' /\ HandledWhole
      BY <1>0, <2>1, <3>1, <3>2 DEF Waiting, Done, HandledWhole, Answers
    <3>5. Marked' /\ Freed'
      BY <1>0, <2>2, <2>5, <3>1, <3>2 DEF Inv, Marked, Freed
    <3> QED
      BY <3>3, <3>4, <3>5 DEF Inv
  <2>6. CASE ReadBody(here) /\ read_cb # "NODE_MSG"
    <3>1. /\ Handler(msg.type, Head, here) /\ Head = 0 /\ here \in Head .. Total
          /\ read_cb \in Answers /\ msg.type = read_cb
          /\ UNCHANGED <<read_cb, low, evt_cb, cb_arg>>
          /\ misused' = (read_cb = "ALIVE_REP" /\ here < LINE_BYTES)
      BY <1>0, <2>1, <2>2, <2>6, MessageType DEF ReadBody
    <3>2. /\ taken' \in Head .. here /\ got' \in SUBSET (1 .. Total)
          /\ handled' = 1 /\ open' = FALSE
          /\ here = Total => got' = Content
      BY <2>1, <3>1, HandlerStep
    <3>3. msg.type # "NODE_MSG" /\ taken' \in 0 .. arrived'
      BY <1>0, <3>1, <3>2 DEF Answers
    <3>4. TypeOK'
      BY <1>0, <2>2, <3>1, <3>2, <3>3 DEF Inv, TypeOK
    <3>5. Waiting' /\ Done' /\ HandledWhole
      BY <1>0, <2>1, <3>1, <3>2, <3>3 DEF Waiting, Done, HandledWhole
    <3>6. Marked' /\ Freed'
      BY <1>0, <2>2, <2>6, <3>1, <3>2 DEF Inv, Marked, Freed
    <3> QED
      BY <3>4, <3>5, <3>6 DEF Inv
  <2>7. ReadHeader(here) \/ ReadBody(here)
    BY <1>2 DEF Arrive
  <2> QED
    BY <2>3, <2>4, <2>5, <2>6, <2>7
<1> QED
  BY <1>1, <1>2

(* The end of the stream and the timeout. *)
LEMMA EventStep ==
    ASSUME Inv, EndOfStream \/ Timeout
    PROVE  Inv' /\ handled' = handled
<1>1. /\ UNCHANGED <<msg, arrived, taken, read_cb, low, evt_cb, cb_arg, handled, got>>
      /\ open /\ open' \in BOOLEAN /\ reading' \in BOOLEAN
  BY DEF EndOfStream, Timeout, Event, Inv, TypeOK
<1>2. misused' \in BOOLEAN /\ (misused' => misused \/ cb_arg = "freed")
  BY DEF EndOfStream, Timeout, Event, Inv, TypeOK
<1> QED
  BY <1>1, <1>2 DEF Inv, TypeOK, Waiting, Marked, Done, Freed, Total, Head

LEMMA NextStep ==
    ASSUME Inv, [Next]_vars
    PROVE  Inv' /\ [HandledWhole]_vars
<1>1. CASE Segment
  BY <1>1, ArriveStep DEF Segment
<1>2. CASE EndOfStream \/ Timeout
  BY <1>2, EventStep DEF HandledWhole
<1>3. CASE UNCHANGED vars
  BY <1>3 DEF vars, Inv, TypeOK, Waiting, Marked, Done, Freed, Total, Head
<1> QED
  BY <1>1, <1>2, <1>3 DEF Next

LEMMA Invariance == Spec => []Inv
BY InitInv, NextStep, PTL DEF Spec

-----------------------------------------------------------------------------
(***************************************************************************)
(* The variables have their types, whatever the length of the message and  *)
(* however it is cut.                                                      *)
(***************************************************************************)
THEOREM TypeCorrect == Spec => []TypeOK
<1>1. Inv => TypeOK
  BY DEF Inv
<1> QED
  BY <1>1, Invariance, PTL

(***************************************************************************)
(* A message of the application of any length, cut in any way, is handed   *)
(* up whole, and once.                                                     *)
(***************************************************************************)
THEOREM MessagesWhole == Spec => []MessageWhole
<1>1. Inv => MessageWhole
  BY DEF Inv, TypeOK, Done, MessageWhole
<1> QED
  BY <1>1, Invariance, PTL

(***************************************************************************)
(* A callback uses a freed argument, or a line that is not there, only on  *)
(* a connection whose message or answer TCP has cut.                       *)
(***************************************************************************)
THEOREM MisusedAfterSplit == Spec => []MisusedOnlyWhenSplit
<1>1. Inv => MisusedOnlyWhenSplit
  BY DEF Inv, Freed, MisusedOnlyWhenSplit
<1> QED
  BY <1>1, Invariance, PTL

(***************************************************************************)
(* Whatever a connection brings is handled once, and read whole when all   *)
(* of it has arrived: the rest of a request that is handled early is       *)
(* shorter than a header, so it is not taken for another, and the          *)
(* connection of an answer is closed by its handler.                       *)
(***************************************************************************)
THEOREM HandledOnceWhole == Spec => WholeIfThere
BY Invariance, NextStep, PTL DEF WholeIfThere, Spec
=============================================================================
