----------------------------- MODULE RingProofs -----------------------------
(***************************************************************************)
(* What holds of the ring protocol for every number of nodes, every length *)
(* of the successor lists and every size of the identifier circle, and     *)
(* however many processes die and calls time out.                          *)
(*                                                                         *)
(* TypeOK is inductive.  On top of it NoSelfLookup and LookupProgress are  *)
(* inductive together: the step that matters is HandleLookup handing a     *)
(* lookup on, and there the fact about node_id_in_range that NodeIdProofs  *)
(* establishes (HandingOnProgresses) makes the new distance smaller.       *)
(***************************************************************************)
EXTENDS Ring, NodeIdProofs, SequenceTheorems

USE IdSpaceAssumption, NodesAssumption, RingAssumption

-----------------------------------------------------------------------------
(***************************************************************************)
(* The successor list.                                                     *)
(***************************************************************************)

(* node_first_alive_succ returns -1 or the index of an entry in use.       *)
LEMMA FirstAlive ==
    ASSUME NEW list \in [Index -> Nodes \cup {Nil}],
           node_first_alive_succ(list) # -1
    PROVE  /\ node_first_alive_succ(list) \in Index
           /\ list[node_first_alive_succ(list)] \in Nodes
<1> DEFINE used == {i \in Index : list[i] # Nil}
<1>1. used # {}
  BY DEF node_first_alive_succ
<1>2. PICK i \in used : \A j \in used : i <= j
  BY <1>1, used \in SUBSET Nat, LeastNat DEF Index
<1>3. list[i] # Nil /\ \A j \in 0 .. i-1 : list[j] = Nil
  BY <1>2 DEF Index
<1>4. node_first_alive_succ(list) =
        CHOOSE k \in Index : list[k] # Nil /\ \A j \in 0 .. k-1 : list[j] = Nil
  BY <1>1 DEF node_first_alive_succ
<1>5. /\ node_first_alive_succ(list) \in Index
      /\ list[node_first_alive_succ(list)] # Nil
  BY <1>2, <1>3, <1>4
<1> QED
  BY <1>5

(* The first live successor is always a node: with no entry in use, the    *)
(* index -1 reads the node's own node_info.                                *)
LEMMA FirstSuccType ==
    ASSUME NEW n \in Nodes, NEW list \in [Index -> Nodes \cup {Nil}]
    PROVE  FirstSucc(n, list) \in Nodes
BY FirstAlive DEF FirstSucc, SuccAt

-----------------------------------------------------------------------------
(***************************************************************************)
(* Calls.                                                                  *)
(***************************************************************************)

(* A new request is a call. *)
LEMMA RequestType ==
    ASSUME NEW kind \in Kinds, NEW no \in 1 .. MaxCalls, NEW n \in Nodes,
           NEW to \in Nodes, NEW id \in Id, NEW entry \in 0 .. NUM_OF_SUCCS
    PROVE  Request(kind, no, n, to, id, entry) \in Call
BY DEF Request, Call

(* Connecting makes at most one call, the one it is given, and may change  *)
(* the phase of a liveness check only.                                     *)
LEMMA ConnectType ==
    ASSUME NEW c \in Call
    PROVE  /\ Connect(c) \subseteq Call
           /\ \A d \in Connect(c) : d.kind \notin CheckKinds => d = c
           /\ \A d \in Connect(c) : d.kind = c.kind
BY DEF Connect, Call

(* What stabilisation sends is a predecessor request.                      *)
LEMMA StabCallType ==
    ASSUME NEW n \in Nodes, NEW no \in 1 .. MaxCalls, NEW list \in [Index -> Nodes \cup {Nil}]
    PROVE  /\ StabCall(n, no, list) \subseteq Call
           /\ \A d \in StabCall(n, no, list) : d.kind = "stab"
<1> DEFINE s == FirstSucc(n, list)
           r == Request("stab", no, n, s, n, 0)
<1>1. /\ s \in Nodes /\ n \in Id
      /\ "stab" \in Kinds /\ 0 \in 0 .. NUM_OF_SUCCS
  BY FirstSuccType DEF Kinds, StabKinds
<1> HIDE DEF s
<1>2. r \in Call
  BY <1>1, RequestType
<1>3. r.kind = "stab"
  BY DEF Request
<1> QED
  BY <1>2, <1>3, ConnectType DEF StabCall, s

(***************************************************************************)
(* What the walk down the list sends is a lookup, not yet handed on, for   *)
(* an identifier other than that of the node it is sent to.                *)
(***************************************************************************)
LEMMA UpdateSuccType ==
    ASSUME NEW n \in Nodes, NEW no \in 1 .. MaxCalls,
           NEW list \in [Index -> Nodes \cup {Nil}],
           NEW k \in -1 .. NUM_OF_SUCCS - 1
    PROVE  /\ node_update_succ(n, no, list, k) \subseteq Call
           /\ \A d \in node_update_succ(n, no, list, k) :
                 d.kind = "succs" /\ d.id # d.to /\ d.relays = <<>>
<1> DEFINE s == SuccAt(n, list, k)
           r == Request("succs", no, n, s, IdPlus(s, 1), k + 1)
<1>1. s \in Nodes \cup {Nil}
  BY DEF SuccAt, Index
<1>2. node_update_succ(n, no, list, k) = IF s = Nil THEN {} ELSE Connect(r)
  BY DEF node_update_succ
<1> HIDE DEF s
<1>3. ASSUME s # Nil
      PROVE  r \in Call /\ r.kind = "succs" /\ r.id # r.to /\ r.relays = <<>>
  <2>1. s \in Nodes
    BY <1>1, <1>3
  <2>2. s \in Id /\ 1 \in Id
    BY <2>1 DEF Id
  <2>3. IdPlus(s, 1) \in Id /\ IdPlus(s, 1) # s
    BY <2>2, IdPlusType, IdPlusOneDiffers
  <2>4. "succs" \in Kinds /\ k + 1 \in 0 .. NUM_OF_SUCCS
    BY DEF Kinds, LookupKinds
  <2>5. r \in Call
    BY <2>1, <2>3, <2>4, RequestType
  <2> QED
    BY <2>3, <2>5 DEF Request
<1> HIDE DEF r
<1> QED
  BY <1>2, <1>3, ConnectType DEF CheckKinds

LEMMA UpdateCallType ==
    ASSUME NEW n \in Nodes, NEW no \in 1 .. MaxCalls, NEW list \in [Index -> Nodes \cup {Nil}]
    PROVE  /\ UpdateCall(n, no, list) \subseteq Call
           /\ \A d \in UpdateCall(n, no, list) :
                 d.kind = "succs" /\ d.id # d.to /\ d.relays = <<>>
<1>1. node_first_alive_succ(list) \in -1 .. NUM_OF_SUCCS - 1
  BY FirstAlive DEF Index
<1> QED
  BY <1>1, UpdateSuccType DEF UpdateCall

(* What the check of the list sends are liveness checks, one per entry.    *)
LEMMA CheckCallsType ==
    ASSUME NEW n \in Nodes, successor \in [Nodes -> [Index -> Nodes \cup {Nil}]]
    PROVE  /\ CheckCalls(n) \subseteq Call
           /\ \A d \in CheckCalls(n) : d.kind = "check_succ"
<1>1. SUFFICES ASSUME NEW i \in Index, successor[n][i] # Nil,
                      NEW d \in Connect(Request("check_succ", 1, n, successor[n][i], n, i))
               PROVE  d \in Call /\ d.kind = "check_succ"
  BY DEF CheckCalls
<1> DEFINE r == Request("check_succ", 1, n, successor[n][i], n, i)
<1>2. r \in Call
  <2>1. /\ successor[n][i] \in Nodes /\ n \in Id
        /\ "check_succ" \in Kinds /\ i \in 0 .. NUM_OF_SUCCS
    BY <1>1 DEF Kinds, CheckKinds, Index
  <2> QED
    BY <2>1, RequestType
<1>3. r.kind = "check_succ"
  BY DEF Request
<1> QED
  BY <1>1, <1>2, <1>3, ConnectType
-----------------------------------------------------------------------------
(***************************************************************************)
(* Type correctness.  One step per action; in each only the variables that *)
(* the action changes need an argument.                                    *)
(***************************************************************************)

LEMMA TypeInit == Init => TypeOK
BY DEF Init, TypeOK, Status, EmptyList

(* Clearing an entry or the predecessor keeps the types. *)
LEMMA ClearCheckedType ==
    ASSUME TypeOK, NEW c \in calls, ClearChecked(c)
    PROVE  /\ successor' \in [Nodes -> [Index -> Nodes \cup {Nil}]]
           /\ predecessor' \in [Nodes -> Nodes \cup {Nil}]
BY DEF TypeOK, ClearChecked

(* A timer opens calls and changes nothing else. *)
LEMMA TimerType ==
    ASSUME TypeOK, NEW n \in Nodes, NEW new \in SUBSET Call, Timer(n, new)
    PROVE  TypeOK'
BY DEF TypeOK, Timer

LEMMA TypeHandle ==
    ASSUME TypeOK, NEW c \in calls, Handle(c)
    PROVE  TypeOK'
<1>1. c \in Call
  BY DEF TypeOK
<1>2. CASE JoinFound(c)
  BY <1>1, <1>2, 0 \in Index DEF TypeOK, JoinFound, Call, Status, Index
<1>3. CASE HandleLookup(c)
  <2> DEFINE x == c.to
             s == FirstSucc(x, successor[x])
             answered == [c EXCEPT !.phase = "rep", !.res = s]
             passed   == [c EXCEPT !.relays = Append(c.relays, x), !.to = s]
  <2>1. s \in Nodes
    BY <1>1, FirstSuccType DEF TypeOK, Call
  <2>2. calls' \subseteq calls \cup {answered} \cup Connect(passed)
    BY <1>3 DEF HandleLookup
  <2> HIDE DEF s
  <2>3. answered \in Call
    BY <1>1, <2>1 DEF Call
  <2>4. passed \in Call
    <3>1. Append(c.relays, x) \in Seq(Nodes)
      BY <1>1 DEF Call
    <3> QED
      BY <1>1, <2>1, <3>1 DEF Call
  <2> HIDE DEF answered, passed
  <2>5. calls' \subseteq Call
    BY <2>2, <2>3, <2>4, ConnectType DEF TypeOK
  <2> QED
    BY <1>3, <2>5 DEF TypeOK, HandleLookup
<1>4. CASE RelayReply(c)
  <2> DEFINE rest == SubSeq(c.relays, 1, Len(c.relays) - 1)
  <2>1. rest \in Seq(Nodes)
    <3>1. c.relays \in Seq(Nodes)
      BY <1>1 DEF Call
    <3>2. \A i \in 1 .. Len(c.relays) - 1 : c.relays[i] \in Nodes
      BY <3>1
    <3> QED
      BY <3>1, <3>2, SubSeqProperties
  <2>2. calls' = (calls \ {c}) \cup {[c EXCEPT !.relays = rest]}
    BY <1>4 DEF RelayReply
  <2> HIDE DEF rest
  <2>3. [c EXCEPT !.relays = rest] \in Call
    BY <1>1, <2>1 DEF Call
  <2> QED
    BY <1>4, <2>2, <2>3 DEF TypeOK, RelayReply
<1>5. CASE SuccsFound(c)
  <2> DEFINE n == c.from
             no == c.no
             k == c.entry
             list == IF k \in Index THEN [successor[n] EXCEPT ![k] = c.res]
                                    ELSE successor[n]
  <2>1. /\ n \in Nodes /\ k \in 0 .. NUM_OF_SUCCS /\ no \in 1 .. MaxCalls
        /\ list \in [Index -> Nodes \cup {Nil}]
    BY <1>1 DEF TypeOK, Call
  <2>2. /\ successor' = [successor EXCEPT ![n] = list]
        /\ overrun' \subseteq overrun \cup {n}
        /\ calls' \subseteq calls \cup
             (IF k < NUM_OF_SUCCS - 1 THEN node_update_succ(n, no, list, k) ELSE {})
        /\ UNCHANGED <<status, predecessor, crashes, timeouts>>
    BY <1>5 DEF SuccsFound, Continues
  <2> HIDE DEF list
  <2>3. k < NUM_OF_SUCCS - 1 => node_update_succ(n, no, list, k) \subseteq Call
    BY <2>1, UpdateSuccType
  <2>4. calls' \subseteq Call
    BY <2>2, <2>3 DEF TypeOK
  <2> QED
    BY <2>1, <2>2, <2>4 DEF TypeOK
<1>6. CASE HandlePred(c)
  <2>1. [c EXCEPT !.phase = "rep", !.res = predecessor[c.to]] \in Call
    BY <1>1 DEF TypeOK, Call
  <2> QED
    BY <1>6, <2>1 DEF TypeOK, HandlePred
<1>7. CASE StabFound(c)
  <2> DEFINE n == c.from
             list == IF Adopts(n, c.res) THEN [successor[n] EXCEPT ![0] = c.res]
                                         ELSE successor[n]
             s == FirstSucc(n, list)
             notif == Request("notif", c.no, n, s, n, 0)
  <2>1. n \in Nodes /\ c.no \in 1 .. MaxCalls /\ list \in [Index -> Nodes \cup {Nil}]
    BY <1>1 DEF TypeOK, Call
  <2>2. /\ successor' = [successor EXCEPT ![n] = list]
        /\ calls' \subseteq calls \cup Connect(notif)
        /\ UNCHANGED <<status, predecessor, overrun, crashes, timeouts>>
    BY <1>7 DEF StabFound
  <2> HIDE DEF list
  <2>3. s \in Nodes
    BY <2>1, FirstSuccType
  <2> HIDE DEF s
  <2>4. notif \in Call
    <3>1. n \in Id /\ "notif" \in Kinds /\ 0 \in 0 .. NUM_OF_SUCCS
      BY <2>1 DEF Kinds, StabKinds
    <3> QED
      BY <2>1, <2>3, <3>1, RequestType
  <2> HIDE DEF notif
  <2>5. calls' \subseteq Call
    BY <2>2, <2>4, ConnectType DEF TypeOK
  <2> QED
    BY <2>1, <2>2, <2>5 DEF TypeOK
<1>8. CASE HandleNotif(c)
  BY <1>1, <1>8 DEF TypeOK, HandleNotif, Call
<1>9. CASE AliveReply(c)
  BY <1>9 DEF TypeOK, AliveReply
<1>10. CASE CheckFailed(c)
  BY <1>10, ClearCheckedType DEF TypeOK, CheckFailed
<1> QED
  BY <1>2, <1>3, <1>4, <1>5, <1>6, <1>7, <1>8, <1>9, <1>10 DEF Handle

LEMMA TypeNext == TypeOK /\ [Next]_vars => TypeOK'
<1> SUFFICES ASSUME TypeOK, [Next]_vars
             PROVE  TypeOK'
  OBVIOUS
<1>1. ASSUME NEW n \in Nodes, Create(n)
      PROVE  TypeOK'
  BY <1>1, 0 \in Index DEF TypeOK, Create, Status, Index
<1>2. ASSUME NEW n \in Nodes, NEW b \in Nodes, Join(n, b)
      PROVE  TypeOK'
  <2>1. n \in Id /\ "join" \in Kinds /\ 0 \in 0 .. NUM_OF_SUCCS
    BY DEF Kinds, LookupKinds
  <2>2. Request("join", 1, n, b, n, 0) \in Call
    BY <2>1, RequestType
  <2> QED
    BY <1>2, <2>2 DEF TypeOK, Join, Status
<1>3. ASSUME NEW n \in Nodes, Joined(n)
      PROVE  TypeOK'
  <2>1. successor[n] \in [Index -> Nodes \cup {Nil}]
    BY DEF TypeOK
  <2>2. StabCall(n, 1, successor[n]) \cup UpdateCall(n, 1, successor[n]) \subseteq Call
    BY <2>1, StabCallType, UpdateCallType
  <2> QED
    BY <1>3, <2>2 DEF TypeOK, Joined, Status
<1>4. ASSUME NEW n \in Nodes, Stabilise(n)
      PROVE  TypeOK'
  <2>1. PICK no \in 1 .. MaxCalls : Timer(n, StabCall(n, no, successor[n]))
    BY <1>4 DEF Stabilise, Numbers
  <2>2. StabCall(n, no, successor[n]) \subseteq Call
    BY StabCallType DEF TypeOK
  <2> QED
    BY <2>1, <2>2, TimerType
<1>5. ASSUME NEW n \in Nodes, UpdateSuccs(n)
      PROVE  TypeOK'
  <2>1. PICK no \in 1 .. MaxCalls : Timer(n, UpdateCall(n, no, successor[n]))
    BY <1>5 DEF UpdateSuccs, Numbers
  <2>2. UpdateCall(n, no, successor[n]) \subseteq Call
    BY UpdateCallType DEF TypeOK
  <2> QED
    BY <2>1, <2>2, TimerType
<1>6. ASSUME NEW n \in Nodes, CheckSuccs(n)
      PROVE  TypeOK'
  <2>1. CheckCalls(n) \subseteq Call
    BY CheckCallsType DEF TypeOK
  <2> QED
    BY <1>6, <2>1, TimerType DEF CheckSuccs
<1>7. ASSUME NEW n \in Nodes, CheckPred(n)
      PROVE  TypeOK'
  <2> DEFINE r == Request("check_pred", 1, n, predecessor[n], n, 0)
  <2>1. /\ predecessor[n] \in Nodes /\ n \in Id
        /\ "check_pred" \in Kinds /\ 0 \in 0 .. NUM_OF_SUCCS
    BY <1>7 DEF TypeOK, CheckPred, Kinds, CheckKinds
  <2>2. r \in Call
    BY <2>1, RequestType
  <2> HIDE DEF r
  <2>3. Connect(r) \subseteq Call
    BY <2>2, ConnectType
  <2> QED
    BY <1>7, <2>3, TimerType DEF CheckPred, r
<1>8. ASSUME NEW n \in Nodes, Crash(n)
      PROVE  TypeOK'
  <2>1. \A c \in Call : [c EXCEPT !.phase = "rep"] \in Call
    BY DEF Call
  <2>2. calls' \subseteq Call
    BY <1>8, <2>1 DEF TypeOK, Crash, ChecksOf
  <2>3. crashes' \in 0 .. MaxCrashes
    BY <1>8 DEF TypeOK, Crash
  <2>4. EmptyList \in [Index -> Nodes \cup {Nil}]
    BY DEF EmptyList
  <2> QED
    BY <1>8, <2>2, <2>3, <2>4 DEF TypeOK, Crash, Status
<1>9. ASSUME NEW c \in calls, Handle(c)
      PROVE  TypeOK'
  BY <1>9, TypeHandle
<1>10. ASSUME NEW c \in calls, Timeout(c)
       PROVE  TypeOK'
  <2>1. timeouts' \in 0 .. MaxTimeouts
    BY <1>10 DEF TypeOK, Timeout
  <2> QED
    BY <1>10, <2>1, ClearCheckedType DEF TypeOK, Timeout
<1>11. CASE UNCHANGED vars
  BY <1>11 DEF TypeOK, vars
<1> QED
  BY <1>1, <1>2, <1>3, <1>4, <1>5, <1>6, <1>7, <1>8, <1>9, <1>10, <1>11 DEF Next, Upkeep

(***************************************************************************)
(* Every variable keeps its type: in particular node_first_alive_succ's -1 *)
(* never leads to a call to a node that does not exist.                    *)
(***************************************************************************)
THEOREM TypeCorrect == Spec => []TypeOK
BY TypeInit, TypeNext, PTL DEF Spec

-----------------------------------------------------------------------------
(***************************************************************************)
(* Lookups.                                                                *)
(***************************************************************************)

(* What NoSelfLookup and LookupProgress say of one call.                   *)
OnCourse(c) ==
    c.kind \in LookupKinds /\ c.phase = "req" =>
        /\ c.id # c.to
        /\ \A j \in 1 .. Len(c.relays) :
              /\ Dist(c.to, c.id) < Dist(c.relays[j], c.id)
              /\ \A i \in 1 .. j - 1 :
                    Dist(c.relays[j], c.id) < Dist(c.relays[i], c.id)

AllOnCourse == \A c \in calls : OnCourse(c)

LEMMA OnCourseIsBoth == AllOnCourse <=> NoSelfLookup /\ LookupProgress
BY DEF AllOnCourse, OnCourse, NoSelfLookup, LookupProgress, Asked

LEMMA CourseInit == Init => AllOnCourse
BY DEF Init, AllOnCourse

(* A lookup that nobody has handed on yet is on course. *)
LEMMA FreshOnCourse ==
    ASSUME NEW c, c.id # c.to, c.relays = <<>>
    PROVE  OnCourse(c)
BY DEF OnCourse

(***************************************************************************)
(* The step that matters: x cannot answer, so the identifier lies outside  *)
(* the arc from x to its first live successor s.  Then s is nearer to it   *)
(* than x, and is not the identifier itself.                               *)
(***************************************************************************)
LEMMA HandedOnStaysOnCourse ==
    ASSUME NEW c \in Call, c.kind \in LookupKinds, c.phase = "req", OnCourse(c),
           NEW s \in Nodes, ~Answers(c.to, c.id, s)
    PROVE  OnCourse([c EXCEPT !.relays = Append(c.relays, c.to), !.to = s])
<1> DEFINE x == c.to
           d == [c EXCEPT !.relays = Append(c.relays, x), !.to = s]
<1>1. c.id \in Id /\ x \in Id /\ s \in Id /\ c.relays \in Seq(Nodes)
  BY DEF Call
<1>2. x # s /\ ~node_id_in_range(c.id, x, s)
  BY DEF Answers
<1>3. Dist(s, c.id) < Dist(x, c.id)
  BY <1>1, <1>2, HandingOnProgresses DEF HandingOnIsProgress
<1>4. c.id # s
  BY <1>1, <1>2, InRangeIsClockwiseArc, DistType DEF RangeIsArc
<1>5. /\ d.id = c.id /\ d.to = s
      /\ Len(d.relays) = Len(c.relays) + 1
      /\ d.relays[Len(c.relays) + 1] = x
      /\ \A j \in 1 .. Len(c.relays) : d.relays[j] = c.relays[j]
  BY <1>1 DEF Call
<1>6. Len(c.relays) \in Nat
  BY <1>1
<1>7. \A j \in 1 .. Len(c.relays) :
         /\ c.relays[j] \in Id
         /\ Dist(x, c.id) < Dist(c.relays[j], c.id)
         /\ \A i \in 1 .. j - 1 :
               Dist(c.relays[j], c.id) < Dist(c.relays[i], c.id)
  BY <1>1 DEF OnCourse
<1> HIDE DEF d
<1>8. ASSUME NEW j \in 1 .. Len(d.relays)
      PROVE  /\ Dist(s, c.id) < Dist(d.relays[j], c.id)
             /\ \A i \in 1 .. j - 1 :
                   Dist(d.relays[j], c.id) < Dist(d.relays[i], c.id)
  <2>1. CASE j = Len(c.relays) + 1
    BY <2>1, <1>3, <1>5, <1>6, <1>7
  <2>2. CASE j \in 1 .. Len(c.relays)
    <3>1. /\ Dist(s, c.id) \in Nat /\ Dist(x, c.id) \in Nat
          /\ Dist(c.relays[j], c.id) \in Nat
      BY <2>2, <1>1, <1>7, DistType
    <3>2. Dist(s, c.id) < Dist(d.relays[j], c.id)
      BY <2>2, <3>1, <1>3, <1>5, <1>7
    <3>3. \A i \in 1 .. j - 1 : i \in 1 .. Len(c.relays)
      BY <2>2, <1>6
    <3> QED
      BY <2>2, <3>2, <3>3, <1>5, <1>7
  <2> QED
    BY <2>1, <2>2, <1>5, <1>6
<1> QED
  BY <1>4, <1>5, <1>8 DEF OnCourse, d

(***************************************************************************)
(* Whatever a handler leaves or puts in flight is a call that was there,   *)
(* a request of another kind, an answer, a fresh lookup, or a lookup       *)
(* handed on.                                                              *)
(***************************************************************************)
LEMMA CourseHandle ==
    ASSUME TypeOK, AllOnCourse, NEW c \in calls, Handle(c)
    PROVE  AllOnCourse'
<1>1. c \in Call /\ OnCourse(c)
  BY DEF TypeOK, AllOnCourse
<1>2. CASE calls' \subseteq calls
  BY <1>2 DEF AllOnCourse, OnCourse
<1>3. CASE HandleLookup(c)
  <2> DEFINE x == c.to
             s == FirstSucc(x, successor[x])
             answered == [c EXCEPT !.phase = "rep", !.res = s]
             passed   == [c EXCEPT !.relays = Append(c.relays, x), !.to = s]
  <2>1. s \in Nodes
    BY <1>1, FirstSuccType DEF TypeOK, Call
  <2>2. /\ c.kind \in LookupKinds /\ c.phase = "req"
        /\ Answers(x, c.id, s) => calls' \subseteq calls \cup {answered}
        /\ ~Answers(x, c.id, s) => calls' \subseteq calls \cup Connect(passed)
    BY <1>3 DEF HandleLookup
  <2> HIDE DEF s
  <2>3. answered.phase = "rep"
    BY <1>1 DEF Call
  <2>4. Connect(passed) \subseteq {passed}
    <3>1. passed.kind \notin CheckKinds
      BY <1>1, <2>2 DEF Call, LookupKinds, CheckKinds
    <3> QED
      BY <3>1 DEF Connect
  <2>5. OnCourse(answered)
    BY <2>3 DEF OnCourse
  <2>6. ~Answers(x, c.id, s) => OnCourse(passed)
    BY <1>1, <2>1, <2>2, HandedOnStaysOnCourse
  <2> HIDE DEF answered, passed
  <2>7. \A d \in calls' : d \in calls \/ OnCourse(d)
    BY <2>2, <2>4, <2>5, <2>6
  <2> QED
    BY <2>7 DEF AllOnCourse, OnCourse
<1>4. CASE RelayReply(c)
  <2> DEFINE d == [c EXCEPT !.relays = SubSeq(c.relays, 1, Len(c.relays) - 1)]
  <2>1. calls' \subseteq calls \cup {d}
    BY <1>4 DEF RelayReply
  <2>2. d.phase = "rep"
    BY <1>1, <1>4 DEF RelayReply, Call
  <2> HIDE DEF d
  <2> QED
    BY <2>1, <2>2 DEF AllOnCourse, OnCourse
<1>5. CASE SuccsFound(c)
  <2> DEFINE n == c.from
             no == c.no
             k == c.entry
             list == IF k \in Index THEN [successor[n] EXCEPT ![k] = c.res]
                                    ELSE successor[n]
  <2>1. /\ n \in Nodes /\ k \in 0 .. NUM_OF_SUCCS /\ no \in 1 .. MaxCalls
        /\ list \in [Index -> Nodes \cup {Nil}]
    BY <1>1 DEF TypeOK, Call
  <2>2. calls' \subseteq calls \cup
           (IF k < NUM_OF_SUCCS - 1 THEN node_update_succ(n, no, list, k) ELSE {})
    BY <1>5 DEF SuccsFound, Continues
  <2> HIDE DEF list
  <2>3. ASSUME k < NUM_OF_SUCCS - 1, NEW d \in node_update_succ(n, no, list, k)
        PROVE  OnCourse(d)
    BY <2>1, <2>3, UpdateSuccType, FreshOnCourse
  <2>4. \A d \in calls' : d \in calls \/ OnCourse(d)
    BY <2>2, <2>3
  <2> QED
    BY <2>4 DEF AllOnCourse, OnCourse
<1>6. CASE HandlePred(c)
  <2> DEFINE d == [c EXCEPT !.phase = "rep", !.res = predecessor[c.to]]
  <2>1. calls' \subseteq calls \cup {d}
    BY <1>6 DEF HandlePred
  <2>2. d.phase = "rep"
    BY <1>1 DEF Call
  <2> HIDE DEF d
  <2> QED
    BY <2>1, <2>2 DEF AllOnCourse, OnCourse
<1>7. CASE StabFound(c)
  <2>1. PICK s : calls' \subseteq calls \cup Connect(Request("notif", c.no, c.from, s, c.from, 0))
    BY <1>7 DEF StabFound
  <2>2. \A d \in Connect(Request("notif", c.no, c.from, s, c.from, 0)) : d.kind = "notif"
    BY DEF Connect, Request, CheckKinds
  <2> QED
    BY <2>1, <2>2 DEF AllOnCourse, OnCourse, LookupKinds
<1> QED
  BY <1>2, <1>3, <1>4, <1>5, <1>6, <1>7
  DEF Handle, JoinFound, HandleNotif, AliveReply, CheckFailed

LEMMA CourseNext == TypeOK /\ AllOnCourse /\ [Next]_vars => AllOnCourse'
<1> SUFFICES ASSUME TypeOK, AllOnCourse, [Next]_vars
             PROVE  AllOnCourse'
  OBVIOUS
<1>1. SUFFICES ASSUME ~ \E c \in calls : Handle(c),
                      NEW d \in calls', d \notin calls,
                      d.kind \in LookupKinds, d.phase = "req"
               PROVE  OnCourse(d)
  BY CourseHandle DEF AllOnCourse, OnCourse
<1>2. ASSUME NEW n \in Nodes, NEW b \in Nodes, Join(n, b)
      PROVE  OnCourse(d)
  <2>1. d = Request("join", 1, n, b, n, 0) /\ n # b
    BY <1>1, <1>2 DEF Join, Running
  <2> QED
    BY <2>1, FreshOnCourse DEF Request
<1>3. ASSUME NEW n \in Nodes, Joined(n) \/ Stabilise(n) \/ UpdateSuccs(n)
      PROVE  OnCourse(d)
  <2>1. successor[n] \in [Index -> Nodes \cup {Nil}]
    BY DEF TypeOK
  <2>2. PICK no \in 1 .. MaxCalls :
          d \in StabCall(n, no, successor[n]) \/ d \in UpdateCall(n, no, successor[n])
    BY <1>1, <1>3 DEF Joined, Stabilise, UpdateSuccs, Timer, Numbers
  <2>3. CASE d \in StabCall(n, no, successor[n])
    BY <1>1, <2>1, <2>3, StabCallType DEF LookupKinds
  <2>4. CASE d \in UpdateCall(n, no, successor[n])
    BY <2>1, <2>4, UpdateCallType, FreshOnCourse
  <2> QED
    BY <2>2, <2>3, <2>4
<1>4. ASSUME NEW n \in Nodes, CheckSuccs(n)
      PROVE  FALSE
  BY <1>1, <1>4, CheckCallsType DEF CheckSuccs, Timer, TypeOK, LookupKinds
<1>5. ASSUME NEW n \in Nodes, CheckPred(n)
      PROVE  FALSE
  <2>1. d \in Connect(Request("check_pred", 1, n, predecessor[n], n, 0))
    BY <1>1, <1>5 DEF CheckPred, Timer
  <2> QED
    BY <1>1, <2>1 DEF Connect, Request, CheckKinds, LookupKinds
<1>6. ASSUME NEW n \in Nodes, Crash(n)
      PROVE  FALSE
  <2>1. PICK c \in calls : d = [c EXCEPT !.phase = "rep"]
    BY <1>1, <1>6 DEF Crash, ChecksOf
  <2> QED
    BY <1>1, <2>1 DEF TypeOK, Call
<1>7. ASSUME NEW n \in Nodes, Create(n)
      PROVE  FALSE
  BY <1>1, <1>7 DEF Create
<1>8. ASSUME NEW c \in calls, Timeout(c)
      PROVE  FALSE
  BY <1>1, <1>8 DEF Timeout
<1>9. CASE UNCHANGED vars
  BY <1>1, <1>9 DEF vars
<1> QED
  BY <1>1, <1>2, <1>3, <1>4, <1>5, <1>6, <1>7, <1>8, <1>9 DEF Next, Upkeep

LEMMA CourseInvariant == Spec => []AllOnCourse
<1>1. TypeOK /\ AllOnCourse /\ [Next]_vars => (TypeOK /\ AllOnCourse)'
  BY TypeNext, CourseNext
<1> QED
  BY <1>1, TypeInit, CourseInit, PTL DEF Spec

(***************************************************************************)
(* Every hop of a lookup is strictly nearer to its identifier than all     *)
(* before it, whatever the lists the nodes route by and whatever fails:    *)
(* node_find_successor needs no hop limit.                                 *)
(***************************************************************************)
THEOREM LookupsProgress == Spec => []LookupProgress
BY CourseInvariant, OnCourseIsBoth, PTL

(***************************************************************************)
(* The branch of node_find_successor for the own identifier, after which   *)
(* the code goes on with freed memory, is not reached by ring maintenance. *)
(***************************************************************************)
THEOREM LookupsMissSelf == Spec => []NoSelfLookup
BY CourseInvariant, OnCourseIsBoth, PTL

(***************************************************************************)
(* So a node passes one lookup on at most once: of the connections that    *)
(* wait for its answer, each node holds one.                               *)
(***************************************************************************)
THEOREM LookupVisitsOnce ==
    ASSUME TypeOK, LookupProgress, NEW c \in Asked
    PROVE  /\ \A j \in 1 .. Len(c.relays) : c.relays[j] # c.to
           /\ \A j \in 1 .. Len(c.relays) : \A i \in 1 .. j - 1 :
                 c.relays[i] # c.relays[j]
<1>1. c \in Call
  BY DEF TypeOK, Asked
<1>2. /\ c.id \in Id /\ c.to \in Id
      /\ \A j \in 1 .. Len(c.relays) : c.relays[j] \in Id
  BY <1>1 DEF Call
<1>3. ASSUME NEW j \in 1 .. Len(c.relays)
      PROVE  c.relays[j] # c.to
  BY <1>2, DistType DEF LookupProgress
<1>4. ASSUME NEW j \in 1 .. Len(c.relays), NEW i \in 1 .. j - 1
      PROVE  c.relays[i] # c.relays[j]
  BY <1>2, DistType DEF LookupProgress
<1> QED
  BY <1>3, <1>4

-----------------------------------------------------------------------------
(***************************************************************************)
(* The walk that refills the list.                                         *)
(***************************************************************************)

(* What comes before the first live entry is empty.                        *)
LEMMA EmptyBefore ==
    ASSUME NEW list \in [Index -> Nodes \cup {Nil}],
           node_first_alive_succ(list) # -1,
           NEW i \in Index, i < node_first_alive_succ(list)
    PROVE  list[i] = Nil
<1> DEFINE used == {j \in Index : list[j] # Nil}
<1>1. used # {}
  BY DEF node_first_alive_succ
<1>2. PICK k \in used : \A j \in used : k <= j
  BY <1>1, used \in SUBSET Nat, LeastNat DEF Index
<1>3. k \in Index /\ list[k] # Nil /\ \A j \in 0 .. k-1 : list[j] = Nil
  BY <1>2 DEF Index
<1> DEFINE IsFirst(j) == list[j] # Nil /\ \A m \in 0 .. j-1 : list[m] = Nil
<1>4. node_first_alive_succ(list) = CHOOSE j \in Index : IsFirst(j)
  BY <1>1 DEF node_first_alive_succ
<1>5. IsFirst(CHOOSE j \in Index : IsFirst(j)) /\ (CHOOSE j \in Index : IsFirst(j)) \in Index
  BY <1>3
<1>6. \A m \in 0 .. node_first_alive_succ(list) - 1 : list[m] = Nil
  BY <1>4, <1>5
<1> QED
  BY <1>4, <1>5, <1>6 DEF Index

(* The walk asks entry k for what comes next, to fill entry k + 1.         *)
LEMMA UpdateSuccEntry ==
    ASSUME NEW n, NEW no, NEW list, NEW k, NEW d \in node_update_succ(n, no, list, k)
    PROVE  d.entry = k + 1 /\ d.from = n
BY DEF node_update_succ, Connect, Request, CheckKinds

(* A walk that starts leaves the list unless only its last entry is used.  *)
LEMMA WalkStart ==
    ASSUME NEW n \in Nodes, NEW no, NEW list \in [Index -> Nodes \cup {Nil}],
           NEW d \in UpdateCall(n, no, list), d.entry \notin Index
    PROVE  /\ d.from = n
           /\ \A i \in Index \ {NUM_OF_SUCCS - 1} : list[i] = Nil
<1> DEFINE f == node_first_alive_succ(list)
<1>1. d.entry = f + 1 /\ d.from = n
  BY UpdateSuccEntry DEF UpdateCall
<1>2. f = -1 \/ f \in Index
  BY FirstAlive
<1>3. f = NUM_OF_SUCCS - 1 /\ f # -1
  BY <1>1, <1>2 DEF Index
<1>4. \A i \in Index \ {NUM_OF_SUCCS - 1} : i < f
  BY <1>3 DEF Index
<1> QED
  BY <1>1, <1>3, <1>4, EmptyBefore

(* A request that starts a walk past the end of the list. *)
PastEnd(d) ==
    d.kind = "succs" /\ d.phase = "req" /\ d.relays = <<>> /\ d.entry \notin Index

(* No handler sends one: a walk that goes on stops at the last entry.      *)
LEMMA HandlersStopInTime ==
    ASSUME TypeOK, NEW c \in calls, Handle(c),
           NEW d \in calls', d \notin calls
    PROVE  ~PastEnd(d)
<1>1. c \in Call
  BY DEF TypeOK
<1>2. CASE calls' \subseteq calls
  BY <1>2
<1>3. CASE HandleLookup(c)
  <2> DEFINE x == c.to
             s == FirstSucc(x, successor[x])
             answered == [c EXCEPT !.phase = "rep", !.res = s]
             passed   == [c EXCEPT !.relays = Append(c.relays, x), !.to = s]
  <2>1. d = answered \/ d \in Connect(passed)
    BY <1>3 DEF HandleLookup
  <2>2. passed.kind \notin CheckKinds
    BY <1>1, <1>3 DEF Call, HandleLookup, LookupKinds, CheckKinds
  <2>3. d = answered \/ d = passed
    BY <2>1, <2>2 DEF Connect
  <2>4. answered.phase = "rep"
    BY <1>1 DEF Call
  <2>5. passed.relays # <<>>
    <3>1. passed.relays = Append(c.relays, x) /\ c.relays \in Seq(Nodes)
      BY <1>1 DEF Call
    <3>2. Len(Append(c.relays, x)) = Len(c.relays) + 1 /\ Len(c.relays) \in Nat
      BY <3>1
    <3>3. Len(Append(c.relays, x)) # 0
      BY <3>2
    <3> QED
      BY <3>1, <3>3, Len(<<>>) = 0
  <2> QED
    BY <2>3, <2>4, <2>5 DEF PastEnd
<1>4. CASE RelayReply(c)
  <2> DEFINE e == [c EXCEPT !.relays = SubSeq(c.relays, 1, Len(c.relays) - 1)]
  <2>1. d = e
    BY <1>4 DEF RelayReply
  <2>2. e.phase = "rep"
    BY <1>1, <1>4 DEF RelayReply, Call
  <2> QED
    BY <2>1, <2>2 DEF PastEnd
<1>5. CASE SuccsFound(c)
  <2>1. c.entry \in 0 .. NUM_OF_SUCCS
    BY <1>1 DEF Call
  <2>2. PICK list : /\ c.entry < NUM_OF_SUCCS - 1
                    /\ d \in node_update_succ(c.from, c.no, list, c.entry)
    BY <1>5 DEF SuccsFound, Continues
  <2>3. d.entry = c.entry + 1
    BY <2>2, UpdateSuccEntry
  <2> QED
    BY <2>1, <2>2, <2>3 DEF PastEnd, Index
<1>6. CASE HandlePred(c)
  <2> DEFINE e == [c EXCEPT !.phase = "rep", !.res = predecessor[c.to]]
  <2>1. d = e
    BY <1>6 DEF HandlePred
  <2>2. e.phase = "rep"
    BY <1>1 DEF Call
  <2> QED
    BY <2>1, <2>2 DEF PastEnd
<1>7. CASE StabFound(c)
  <2>1. PICK s : d \in Connect(Request("notif", c.no, c.from, s, c.from, 0))
    BY <1>7 DEF StabFound
  <2>2. d.kind = "notif"
    BY <2>1 DEF Connect, Request, CheckKinds
  <2> QED
    BY <2>2 DEF PastEnd
<1> QED
  BY <1>2, <1>3, <1>4, <1>5, <1>6, <1>7
  DEF Handle, JoinFound, HandleNotif, AliveReply, CheckFailed

(***************************************************************************)
(* Whatever fails: the only way to write past the end of the list is a     *)
(* walk that starts at the last entry, all others being empty.             *)
(***************************************************************************)
THEOREM OverrunsStartAtLast == Spec => OverrunsFromLastOnly
<1> DEFINE A == \A c \in calls' \ calls :
                  c.kind = "succs" /\ c.phase = "req" /\ c.relays = <<>> /\ c.entry \notin Index
                  => \A i \in Index \ {NUM_OF_SUCCS - 1} : successor'[c.from][i] = Nil
<1>1. ASSUME TypeOK, [Next]_vars
      PROVE  A
  <2> SUFFICES ASSUME NEW d \in calls', d \notin calls, PastEnd(d)
               PROVE  \A i \in Index \ {NUM_OF_SUCCS - 1} : successor'[d.from][i] = Nil
    BY DEF PastEnd
  <2>1. d.kind = "succs" /\ d.phase = "req"
    BY DEF PastEnd
  <2>2. CASE \E c \in calls : Handle(c)
    BY <1>1, <2>2, HandlersStopInTime
  <2>3. ASSUME NEW n \in Nodes, NEW b \in Nodes, Join(n, b)
        PROVE  FALSE
    BY <2>1, <2>3 DEF Join, Request
  <2>4. ASSUME NEW n \in Nodes, Joined(n) \/ Stabilise(n) \/ UpdateSuccs(n)
        PROVE  \A i \in Index \ {NUM_OF_SUCCS - 1} : successor'[d.from][i] = Nil
    <3>1. successor[n] \in [Index -> Nodes \cup {Nil}] /\ successor' = successor
      BY <1>1, <2>4 DEF TypeOK, Joined, Stabilise, UpdateSuccs, Timer
    <3>2. PICK no \in 1 .. MaxCalls :
            d \in StabCall(n, no, successor[n]) \/ d \in UpdateCall(n, no, successor[n])
      BY <2>4 DEF Joined, Stabilise, UpdateSuccs, Timer, Numbers
    <3>3. d \notin StabCall(n, no, successor[n])
      BY <2>1, <3>1, StabCallType
    <3> QED
      BY <3>1, <3>2, <3>3, WalkStart DEF PastEnd
  <2>5. ASSUME NEW n \in Nodes, CheckSuccs(n)
        PROVE  FALSE
    BY <1>1, <2>1, <2>5, CheckCallsType DEF CheckSuccs, Timer, TypeOK
  <2>6. ASSUME NEW n \in Nodes, CheckPred(n)
        PROVE  FALSE
    <3>1. d \in Connect(Request("check_pred", 1, n, predecessor[n], n, 0))
      BY <2>6 DEF CheckPred, Timer
    <3> QED
      BY <2>1, <3>1 DEF Connect, Request
  <2>7. ASSUME NEW n \in Nodes, Crash(n)
        PROVE  FALSE
    <3>1. PICK c \in calls : d = [c EXCEPT !.phase = "rep"]
      BY <2>7 DEF Crash, ChecksOf
    <3> QED
      BY <1>1, <2>1, <3>1 DEF TypeOK, Call
  <2>8. ASSUME NEW n \in Nodes, Create(n)
        PROVE  FALSE
    BY <2>8 DEF Create
  <2>9. ASSUME NEW c \in calls, Timeout(c)
        PROVE  FALSE
    BY <2>9 DEF Timeout
  <2>10. CASE UNCHANGED vars
    BY <2>10 DEF vars
  <2> QED
    BY <1>1, <2>2, <2>3, <2>4, <2>5, <2>6, <2>7, <2>8, <2>9, <2>10 DEF Next, Upkeep
<1>2. TypeOK /\ [Next]_vars => [A]_vars
  BY <1>1
<1> QED
  BY <1>2, TypeCorrect, PTL DEF Spec, OverrunsFromLastOnly
=============================================================================
