---------------------------- MODULE LookupProofs ----------------------------
(***************************************************************************)
(* What lookups do for every set of nodes on every circle, whichever nodes *)
(* die, whatever the finger tables hold and whichever successors are wrong *)
(* for a while.                                                            *)
(*                                                                         *)
(* A hop always gets nearer: a finger is used only when it lies between    *)
(* the node and the identifier, and a node is not its own finger.  An      *)
(* answer is always given by the node before the identifier, from its      *)
(* successor alone.  What that successor passes is doubted: it was passed  *)
(* already when the lookup began, or came to be passed on the way, and     *)
(* nodes that die or are repaired pass nobody anew.                        *)
(***************************************************************************)
EXTENDS Lookup, NodeIdProofs

USE IdSpaceAssumption, NodesAssumption, LookupAssumption

-----------------------------------------------------------------------------
(***************************************************************************)
(* Operators.                                                              *)
(***************************************************************************)

LEMMA FingerIdType ==
    ASSUME NEW n \in Nodes, NEW i \in Finger
    PROVE  FingerId(n, i) \in Id /\ FingerId(n, i) # n
<1>1. two_to_the_n(i - 1) \in 1 .. IdSpace - 1 /\ n \in Id
  OBVIOUS
<1> QED
  BY <1>1 DEF FingerId, IdPlus, Id

LEMMA OwnerIsFirst ==
    ASSUME NEW S \in SUBSET Nodes, S # {}, NEW id \in Id
    PROVE  Owner(S, id) \in S /\ \A k \in S : Dist(id, Owner(S, id)) <= Dist(id, k)
<1> DEFINE D == {Dist(id, m) : m \in S}
<1>1. \A m \in S : Dist(id, m) \in Nat
  BY DistType
<1>2. D \in SUBSET Nat /\ D # {}
  BY <1>1
<1>3. PICK d \in D : \A e \in D : d <= e
  BY <1>2, LeastNat
<1>4. \E m \in S : \A k \in S : Dist(id, m) <= Dist(id, k)
  BY <1>3
<1> QED
  BY <1>4 DEF Owner

Table == [Finger -> Id \cup {Nil}]

(* The node asked is a finger on the arc to the identifier, or the successor. *)
LEMMA ClosestPrecedes ==
    ASSUME NEW x, NEW table \in Table, NEW id,
           NEW h, h = node_closest_preceding_node(x, table, id)
    PROVE  h = succ[x] \/ \E i \in Finger : /\ h = table[i] /\ h # Nil
                                            /\ node_id_in_range(h, x, id)
<1> DEFINE fit == {i \in Finger : /\ table[i] \notin {Nil, 0}
                                  /\ node_id_in_range(table[i], x, id)}
           D == {ID_BITS - i : i \in fit}
<1>1. CASE fit = {}
  BY <1>1 DEF node_closest_preceding_node
<1>2. CASE fit # {}
  <2>1. D \in SUBSET Nat /\ D # {}
    BY <1>2 DEF Finger
  <2>2. PICK d \in D : \A e \in D : d <= e
    BY <2>1, LeastNat
  <2>3. PICK i \in fit : d = ID_BITS - i
    BY <2>2
  <2>4. \A j \in fit : d <= ID_BITS - j
    BY <2>2
  <2>5. \A j \in fit : j <= i
    BY <2>3, <2>4 DEF Finger
  <2>6. PICK k \in fit : h = table[k]
    BY <1>2, <2>5 DEF node_closest_preceding_node
  <2> QED
    BY <2>6
<1> QED
  BY <1>1, <1>2

(* Whoever is asked is nearer to the identifier than who asks. *)
LEMMA NextHopIsNearer ==
    ASSUME TypeOK, NEW x \in Nodes, NEW table \in Table, \A i \in Finger : table[i] # x,
           NEW id \in Id, id # x, ~Answers(x, id, succ[x])
    PROVE  LET h == node_closest_preceding_node(x, table, id)
           IN  h \in Id /\ Dist(h, id) < Dist(x, id)
<1> DEFINE h == node_closest_preceding_node(x, table, id)
<1>1. h = succ[x] \/ \E i \in Finger : h = table[i] /\ h # Nil /\ node_id_in_range(h, x, id)
  BY ClosestPrecedes
<1>2. x \in Id
  OBVIOUS
<1>3. CASE h = succ[x]
  <2>1. h \in Id /\ h # x /\ ~node_id_in_range(id, x, h)
    BY <1>3 DEF Answers, TypeOK
  <2> QED
    BY <1>2, <2>1, HandingOnProgresses DEF HandingOnIsProgress
<1>4. ASSUME NEW i \in Finger, h = table[i], h # Nil, node_id_in_range(h, x, id)
      PROVE  h \in Id /\ Dist(h, id) < Dist(x, id)
  <2>1. h \in Id /\ h # x
    BY <1>4 DEF Table
  <2> HIDE DEF h
  <2> QED
    BY <1>2, <1>4, <2>1 DEF node_id_in_range, Dist, Id
<1> QED
  BY <1>1, <1>3, <1>4

-----------------------------------------------------------------------------
(***************************************************************************)
(* The invariant.                                                          *)
(***************************************************************************)

(* A node is not its own finger. *)
FingersOfOthers == \A n \in Nodes : \A i \in Finger : finger[n][i] # n

OnCourse(c) ==
    c.phase = "req" =>
        \A j \in 1 .. Len(c.relays) :
            /\ Dist(c.to, c.id) < Dist(c.relays[j], c.id)
            /\ \A i \in 1 .. j - 1 :
                  Dist(c.relays[j], c.id) < Dist(c.relays[i], c.id)

SkipsNone(c) ==
    c.phase = "rep" => \A m \in alive \ c.doubt : Dist(c.id, c.res) <= Dist(c.id, m)

(* Who is asked lives, and whoever is passed now is in doubt. *)
Wary(c) == c.phase = "req" => c.to \in alive /\ Passed(succ) \subseteq c.doubt

Sound(c) == c \in Call /\ OnCourse(c) /\ SkipsNone(c) /\ Wary(c)

LookupInv ==
    /\ TypeOK /\ FingersOfOthers
    /\ \A c \in calls : Sound(c)

LEMMA SoundIsBoth == LookupInv => TypeOK /\ LookupProgress /\ AnswersSkipNone
BY DEF LookupInv, Sound, OnCourse, SkipsNone, LookupProgress, Asked, AnswersSkipNone

(* A death makes no node pass another. *)
LEMMA SoundKept ==
    ASSUME alive' \subseteq alive, succ' = succ, NEW c, Sound(c),
           c.phase = "req" => c.to \in alive'
    PROVE  Sound(c)'
<1>1. Passed(succ)' \subseteq Passed(succ)
  BY DEF Passed
<1> QED
  BY <1>1 DEF Sound, OnCourse, SkipsNone, Wary

(* A step of which all new calls are sound, and that leaves no request at  *)
(* a node it ends.                                                         *)
LEMMA CallsStaySound ==
    ASSUME LookupInv, alive' \subseteq alive, UNCHANGED <<succ, lapses>>,
           deaths' \in 0 .. MaxDeaths,
           finger' \in [Nodes -> Table], FingersOfOthers',
           \A d \in calls' : d \in calls \/ Sound(d),
           alive' = alive \/ \A d \in calls' : d.phase = "req" => d.to \in alive'
    PROVE  LookupInv'
<1>1. \A d \in calls' : Sound(d)
  BY DEF LookupInv
<1>2. \A d \in calls' : d.phase = "req" => d.to \in alive'
  BY <1>1 DEF Sound, Wary
<1>3. \A d \in calls' : Sound(d)'
  BY <1>1, <1>2, SoundKept
<1>4. TypeOK'
  BY <1>1 DEF LookupInv, TypeOK, Sound, Table
<1> QED
  BY <1>3, <1>4 DEF LookupInv

(* When a process ends, no request is left at it. *)
LEMMA EndLeavesNoRequest ==
    ASSUME NEW x, NEW N, End(x, N), NEW d \in calls', d.phase = "req", d \in calls => Sound(d)
    PROVE  d.to \in alive'
<1>1. d \in calls /\ x \notin Holders(d) /\ alive' = alive \ {x}
  BY DEF End
<1> QED
  BY <1>1 DEF Holders, Sound, Wary

-----------------------------------------------------------------------------
(***************************************************************************)
(* Steps.                                                                  *)
(***************************************************************************)

LEMMA RequestSound ==
    ASSUME TypeOK, NEW n \in Nodes, NEW table \in Table, NEW i \in Finger \cup {0},
           NEW id \in Id, NEW d \in Connect(Request(n, table, i, id))
    PROVE  Sound(d)
<1>1. d = Request(n, table, i, id) /\ d.to \in alive /\ d.to \in Nodes
  BY DEF Connect, TypeOK
<1>2. Passed(succ) \in SUBSET Nodes
  BY DEF Passed, TypeOK
<1>3. /\ d \in Call /\ d.relays = <<>> /\ d.phase = "req" /\ d.doubt = Passed(succ)
  BY <1>1, <1>2 DEF Request, Call
<1> QED
  BY <1>1, <1>3 DEF Sound, OnCourse, SkipsNone, Wary

LEMMA EntryType ==
    ASSUME NEW n \in Nodes, NEW m \in Nodes
    PROVE  Entry(n, m) \in Id \cup {Nil} /\ Entry(n, m) # n
BY DEF Entry

LEMMA FixFingersSound ==
    ASSUME LookupInv, NEW n \in Nodes, FixFingers(n)
    PROVE  LookupInv'
<1> DEFINE here(i) == Answers(n, FingerId(n, i), succ[n])
           table   == [i \in Finger |-> IF here(i) THEN Entry(n, succ[n]) ELSE finger[n][i]]
           asked   == {j \in Finger : ~here(j)}
<1>1. /\ finger' = [finger EXCEPT ![n] = table]
      /\ calls' = calls \cup UNION {Connect(Request(n, finger'[n], i, FingerId(n, i))) : i \in asked}
      /\ UNCHANGED <<alive, succ, deaths, lapses>>
  BY DEF FixFingers
<1>2. /\ finger \in [Nodes -> Table] /\ succ[n] \in Nodes
      /\ \A i \in Finger : finger[n][i] # n
  BY DEF LookupInv, TypeOK, Table, FingersOfOthers
<1>3. table \in Table /\ \A i \in Finger : table[i] # n
  BY <1>2, EntryType DEF Table
<1>4. finger' \in [Nodes -> Table] /\ FingersOfOthers' /\ finger'[n] \in Table
  BY <1>1, <1>2, <1>3 DEF LookupInv, FingersOfOthers
<1>5. \A i \in Finger : FingerId(n, i) \in Id
  BY FingerIdType
<1>6. asked \subseteq Finger
  OBVIOUS
<1> HIDE DEF here, table, asked
<1>7. ASSUME NEW d \in calls', d \notin calls
      PROVE  Sound(d)
  <2>1. PICK i \in Finger : d \in Connect(Request(n, finger'[n], i, FingerId(n, i)))
    BY <1>1, <1>6, <1>7
  <2> QED
    BY <1>4, <1>5, <2>1, RequestSound DEF LookupInv
<1> QED
  BY <1>1, <1>4, <1>7, CallsStaySound DEF LookupInv, TypeOK

LEMMA FingerFoundSound ==
    ASSUME LookupInv, NEW c \in calls, FingerFound(c)
    PROVE  LookupInv'
<1>1. /\ c.from \in Nodes /\ c.finger \in Finger /\ c.res \in Nodes \cup {Nil}
      /\ finger \in [Nodes -> Table]
  BY DEF LookupInv, TypeOK, Table, Sound, Call, FingerFound
<1>2. /\ finger' = [finger EXCEPT ![c.from] = [@ EXCEPT ![c.finger] = Entry(c.from, c.res)]]
      /\ calls' \subseteq calls /\ UNCHANGED <<alive, succ, deaths, lapses>>
  BY DEF FingerFound
<1>3. Entry(c.from, c.res) \in Id \cup {Nil} /\ Entry(c.from, c.res) # c.from
  BY <1>1 DEF Entry
<1>4. finger' \in [Nodes -> Table] /\ FingersOfOthers'
  BY <1>1, <1>2, <1>3 DEF LookupInv, FingersOfOthers, Table
<1> QED
  BY <1>2, <1>4, CallsStaySound DEF LookupInv, TypeOK

(* Between an identifier after x and the successor of x lies no node that  *)
(* the successor does not skip.                                            *)
LEMMA ArcSkipsNone ==
    ASSUME NEW x \in Id, NEW s \in Id, NEW id \in Id, NEW m \in Id, id # x,
           s = x \/ node_id_in_range(id, x, s), m # x => Gap(x, s) <= Gap(x, m)
    PROVE  Dist(id, s) <= Dist(id, m)
<1>1. CASE m = x
  BY <1>1 DEF node_id_in_range, Dist, Id
<1>2. CASE m # x
  BY <1>2 DEF node_id_in_range, Gap, Dist, Id
<1> QED
  BY <1>1, <1>2

LEMMA SuccessorAnswers ==
    ASSUME LookupInv, NEW x \in alive, NEW id \in Id, id # x, Answers(x, id, succ[x]),
           NEW m \in alive \ Passed(succ)
    PROVE  Dist(id, succ[x]) <= Dist(id, m)
<1>1. succ[x] \in Id /\ x \in Id /\ m \in Id /\ ~(Gap(x, m) < Gap(x, succ[x]))
  BY DEF LookupInv, TypeOK, Passed
<1>2. succ[x] = x \/ node_id_in_range(id, x, succ[x])
  BY DEF Answers
<1>3. Gap(x, succ[x]) <= Gap(x, m)
  BY <1>1 DEF Gap, Dist, Id
<1> QED
  BY <1>1, <1>2, <1>3, ArcSkipsNone

LEMMA HandleOtherSound ==
    ASSUME LookupInv, NEW c \in calls, HandleOther(c)
    PROVE  LookupInv'
<1> DEFINE x == c.to
           hop == node_closest_preceding_node(x, finger[x], c.id)
           answered == [c EXCEPT !.phase = "rep", !.res = succ[x]]
           passed   == [c EXCEPT !.relays = Append(c.relays, x), !.to = hop]
<1>1. /\ c \in Call /\ OnCourse(c) /\ c.phase = "req" /\ x \in Nodes /\ c.id \in Id /\ c.id # x
      /\ succ[x] \in Nodes /\ UNCHANGED <<alive, succ, finger, deaths, lapses>>
      /\ finger[x] \in Table /\ \A i \in Finger : finger[x][i] # x
      /\ x \in alive /\ Passed(succ) \subseteq c.doubt
  BY DEF LookupInv, Sound, Wary, HandleOther, Call, TypeOK, FingersOfOthers, Table
<1>2. CASE Answers(x, c.id, succ[x])
  <2>1. calls' \subseteq calls \cup {answered}
    BY <1>2 DEF HandleOther
  <2>2. answered \in Call /\ answered.phase = "rep" /\ answered.id = c.id /\ answered.res = succ[x]
      /\ answered.doubt = c.doubt
    BY <1>1 DEF Call
  <2> HIDE DEF answered
  <2>3. SkipsNone(answered)
    BY <1>1, <1>2, <2>2, SuccessorAnswers DEF SkipsNone
  <2>4. Sound(answered)
    BY <2>2, <2>3 DEF Sound, OnCourse, Wary
  <2> QED
    BY <1>1, <2>1, <2>4, CallsStaySound DEF LookupInv, TypeOK, Table, FingersOfOthers
<1>3. CASE ~Answers(x, c.id, succ[x])
  <2>1. calls' \subseteq calls \cup Connect(passed)
    BY <1>3 DEF HandleOther
  <2>2. hop \in Id /\ Dist(hop, c.id) < Dist(x, c.id)
    BY <1>1, <1>3, NextHopIsNearer DEF LookupInv
  <2> HIDE DEF hop
  <2>3. ASSUME hop \in alive
        PROVE  Sound(passed)
    <3>1. /\ passed \in Call /\ passed.phase = "req" /\ passed.id = c.id /\ passed.to = hop
          /\ passed.relays = Append(c.relays, x) /\ c.relays \in Seq(Nodes)
          /\ passed.doubt = c.doubt
      <4>1. c.relays \in Seq(Nodes) /\ Append(c.relays, x) \in Seq(Nodes)
        BY <1>1 DEF Call
      <4>2. hop \in Nodes
        BY <2>3 DEF LookupInv, TypeOK
      <4> QED
        BY <1>1, <4>1, <4>2 DEF Call
    <3> HIDE DEF passed
    <3>2. /\ Len(passed.relays) = Len(c.relays) + 1 /\ Len(c.relays) \in Nat
          /\ passed.relays[Len(c.relays) + 1] = x
          /\ \A j \in 1 .. Len(c.relays) : passed.relays[j] = c.relays[j] /\ c.relays[j] \in Nodes
      BY <1>1, <3>1
    <3>3. ASSUME NEW j \in 1 .. Len(passed.relays)
          PROVE  /\ Dist(hop, c.id) < Dist(passed.relays[j], c.id)
                 /\ \A i \in 1 .. j - 1 :
                       Dist(passed.relays[j], c.id) < Dist(passed.relays[i], c.id)
      <4>1. CASE j = Len(c.relays) + 1
        BY <1>1, <2>2, <3>2, <4>1 DEF OnCourse
      <4>2. CASE j \in 1 .. Len(c.relays)
        <5>1. /\ Dist(x, c.id) < Dist(c.relays[j], c.id)
              /\ \A i \in 1 .. j - 1 : Dist(c.relays[j], c.id) < Dist(c.relays[i], c.id)
          BY <1>1, <4>2 DEF OnCourse
        <5>2. Dist(hop, c.id) \in Nat /\ Dist(x, c.id) \in Nat /\ Dist(c.relays[j], c.id) \in Nat
          BY <1>1, <2>2, <3>2, <4>2, DistType
        <5>3. Dist(hop, c.id) < Dist(c.relays[j], c.id)
          BY <2>2, <5>1, <5>2
        <5>4. \A i \in 1 .. j - 1 : passed.relays[i] = c.relays[i]
          BY <3>2, <4>2
        <5> QED
          BY <3>2, <4>2, <5>1, <5>3, <5>4
      <4>3. j = Len(c.relays) + 1 \/ j \in 1 .. Len(c.relays)
        BY <3>2
      <4> QED
        BY <4>1, <4>2, <4>3
    <3> QED
      BY <1>1, <2>3, <3>1, <3>3 DEF Sound, OnCourse, SkipsNone, Wary
  <2>4. Connect(passed) # {} => hop \in alive /\ Connect(passed) = {passed}
    BY <1>1 DEF Connect, Call, LookupInv, TypeOK
  <2> HIDE DEF passed
  <2> QED
    BY <1>1, <2>1, <2>3, <2>4, CallsStaySound DEF LookupInv, TypeOK, Table, FingersOfOthers
<1> QED
  BY <1>2, <1>3

LEMMA HandleOwnSound ==
    ASSUME LookupInv, NEW c \in calls, HandleOwn(c)
    PROVE  LookupInv'
<1> DEFINE d == [c EXCEPT !.phase = "rep", !.res = c.to]
<1>1. /\ c \in Call /\ c.to \in Nodes /\ c.id = c.to /\ c.to \in Id
      /\ alive' \subseteq alive /\ UNCHANGED <<succ, finger, deaths, lapses>>
      /\ calls' \subseteq calls \cup {d}
  BY DEF LookupInv, Sound, HandleOwn, Call, End
<1>2. d \in Call /\ d.phase = "rep" /\ d.id = c.to /\ d.res = c.to
  BY <1>1 DEF Call
<1> HIDE DEF d
<1>3. \A m \in alive : Dist(c.to, c.to) <= Dist(c.to, m)
  <2>1. \A m \in alive : m \in Id
    BY DEF LookupInv, TypeOK
  <2> QED
    BY <1>1, <2>1 DEF Dist, Id
<1>4. Sound(d)
  BY <1>2, <1>3 DEF Sound, OnCourse, SkipsNone, Wary
<1>5. alive' = alive \/ End(c.to, {c})
  BY DEF HandleOwn
<1>6. alive' = alive \/ \A e \in calls' : e.phase = "req" => e.to \in alive'
  BY <1>5, EndLeavesNoRequest DEF LookupInv
<1> QED
  BY <1>1, <1>4, <1>6, CallsStaySound DEF LookupInv, TypeOK, Table, FingersOfOthers

LEMMA RelayReplySound ==
    ASSUME LookupInv, NEW c \in calls, RelayReply(c)
    PROVE  LookupInv'
<1> DEFINE d == [c EXCEPT !.relays = SubSeq(c.relays, 1, Len(c.relays) - 1)]
<1>1. /\ c \in Call /\ SkipsNone(c) /\ c.phase = "rep" /\ c.relays # <<>>
      /\ calls' \subseteq calls \cup {d} /\ UNCHANGED <<alive, succ, finger, deaths, lapses>>
  BY DEF LookupInv, Sound, RelayReply
<1>2. SubSeq(c.relays, 1, Len(c.relays) - 1) \in Seq(Nodes)
  <2>1. c.relays \in Seq(Nodes) /\ Len(c.relays) \in Nat
    BY <1>1 DEF Call
  <2>2. \A j \in 1 .. Len(c.relays) - 1 : c.relays[j] \in Nodes
    BY <2>1
  <2> QED
    BY <2>1, <2>2
<1>3. d \in Call /\ d.phase = "rep" /\ d.id = c.id /\ d.res = c.res /\ d.doubt = c.doubt
  BY <1>1, <1>2 DEF Call
<1> HIDE DEF d
<1>4. Sound(d)
  BY <1>1, <1>3 DEF Sound, OnCourse, SkipsNone, Wary
<1> QED
  BY <1>1, <1>4, CallsStaySound DEF LookupInv, TypeOK, Table, FingersOfOthers

LEMMA RepairSound ==
    ASSUME LookupInv, NEW n \in Nodes, Repair(n)
    PROVE  LookupInv'
<1> DEFINE s == Owner(alive, IdPlus(n, 1))
<1>1. /\ n \in alive /\ alive \in SUBSET Nodes /\ succ \in [Nodes -> Nodes]
      /\ succ' = [succ EXCEPT ![n] = s] /\ UNCHANGED <<alive, finger, calls, deaths, lapses>>
  BY DEF Repair, LookupInv, TypeOK
<1>2. n \in Id /\ 1 \in Id /\ IdPlus(n, 1) \in Id
  BY IdPlusType DEF Id
<1>3. s \in alive /\ \A m \in alive : Dist(IdPlus(n, 1), s) <= Dist(IdPlus(n, 1), m)
  BY <1>1, <1>2, OwnerIsFirst
<1> HIDE DEF s
<1>4. ASSUME NEW m \in alive
      PROVE  ~(Gap(n, m) < Gap(n, s))
  <2>1. s \in Id /\ m \in Id /\ Dist(IdPlus(n, 1), s) <= Dist(IdPlus(n, 1), m)
    BY <1>1, <1>3
  <2> QED
    BY <1>2, <2>1 DEF Gap, Dist, IdPlus, Id
<1>5. Passed(succ)' \subseteq Passed(succ)
  BY <1>1, <1>4 DEF Passed
<1>6. \A c \in calls' : Sound(c)'
  BY <1>1, <1>5 DEF LookupInv, Sound, OnCourse, SkipsNone, Wary
<1>7. TypeOK' /\ FingersOfOthers'
  BY <1>1, <1>3 DEF LookupInv, TypeOK, FingersOfOthers
<1> QED
  BY <1>6, <1>7 DEF LookupInv

LEMMA LapseSound ==
    ASSUME LookupInv, NEW n \in Nodes, NEW s \in Nodes, Lapse(n, s)
    PROVE  LookupInv'
<1>1. /\ succ' = [succ EXCEPT ![n] = s] /\ UNCHANGED <<alive, finger, deaths>>
      /\ calls' = {IF c.phase = "req" THEN [c EXCEPT !.doubt = c.doubt \cup Passed(succ')] ELSE c :
                     c \in calls}
      /\ lapses' = lapses + 1 /\ lapses < MaxLapses
  BY DEF Lapse
<1>2. Passed(succ)' = Passed(succ') /\ Passed(succ') \in SUBSET Nodes
  BY <1>1 DEF Passed, LookupInv, TypeOK
<1>3. ASSUME NEW d \in calls'
      PROVE  d \in Call /\ Sound(d)'
  <2>1. PICK c \in calls :
           d = IF c.phase = "req" THEN [c EXCEPT !.doubt = c.doubt \cup Passed(succ')] ELSE c
    BY <1>1
  <2>2. Sound(c) /\ c \in Call
    BY DEF LookupInv, Sound
  <2>3. CASE c.phase = "req"
    <3>1. d = [c EXCEPT !.doubt = c.doubt \cup Passed(succ')]
      BY <2>1, <2>3
    <3>2. /\ d \in Call /\ d.phase = "req" /\ d.to = c.to /\ d.relays = c.relays /\ d.id = c.id
          /\ Passed(succ') \subseteq d.doubt
      BY <1>2, <2>2, <2>3, <3>1 DEF Call
    <3>3. OnCourse(d)' /\ SkipsNone(d)'
      BY <2>2, <2>3, <3>2 DEF Sound, OnCourse, SkipsNone
    <3>4. Wary(d)'
      BY <1>1, <1>2, <2>2, <2>3, <3>2 DEF Sound, Wary
    <3> QED
      BY <3>2, <3>3, <3>4 DEF Sound
  <2>4. CASE c.phase # "req"
    BY <1>1, <2>1, <2>2, <2>4 DEF Sound, OnCourse, SkipsNone, Wary
  <2> QED
    BY <2>3, <2>4
<1>4. \A d \in calls' : Sound(d)'
  <2> TAKE d \in calls'
  <2> QED
    BY <1>3
<1>5. calls' \subseteq Call
  BY <1>3
<1>6. TypeOK' /\ FingersOfOthers'
  <2>1. /\ succ' = [succ EXCEPT ![n] = s] /\ UNCHANGED <<alive, finger, deaths>>
        /\ lapses' = lapses + 1 /\ lapses < MaxLapses
    BY <1>1
  <2> QED
    BY <1>5, <2>1 DEF LookupInv, TypeOK, FingersOfOthers
<1> QED
  BY <1>4, <1>6 DEF LookupInv

LEMMA LookupInit == Init => LookupInv
<1> SUFFICES ASSUME Init
             PROVE  LookupInv
  OBVIOUS
<1>1. ASSUME NEW n \in Nodes
      PROVE  Owner(Nodes, IdPlus(n, 1)) \in Nodes
  <2>1. IdPlus(n, 1) \in Id
    BY IdPlusType DEF Id
  <2> QED
    BY <2>1, OwnerIsFirst
<1>2. FingersOfOthers
  BY DEF Init, FingersOfOthers
<1>3. TypeOK
  BY <1>1 DEF Init, TypeOK
<1> QED
  BY <1>2, <1>3 DEF Init, LookupInv

LEMMA LookupStep == LookupInv /\ [Next]_vars => LookupInv'
<1> SUFFICES ASSUME LookupInv, [Next]_vars
             PROVE  LookupInv'
  OBVIOUS
<1>0. TypeOK /\ finger \in [Nodes -> Table]
  BY DEF LookupInv, TypeOK, Table
<1>1. ASSUME NEW n \in Nodes, FixFingers(n)
      PROVE  LookupInv'
  BY <1>1, FixFingersSound
<1>2. ASSUME NEW n \in Nodes, Repair(n)
      PROVE  LookupInv'
  BY <1>2, RepairSound
<1>7. ASSUME NEW n \in Nodes, NEW s \in Nodes, Lapse(n, s)
      PROVE  LookupInv'
  BY <1>7, LapseSound
<1>3. ASSUME NEW n \in Nodes, Die(n) \/ AskOwn(n)
      PROVE  LookupInv'
  <2>1. End(n, {}) /\ UNCHANGED <<succ, finger, lapses>> /\ deaths' \in 0 .. MaxDeaths
    BY <1>0, <1>3 DEF Die, AskOwn, TypeOK
  <2>2. alive' \subseteq alive /\ calls' \subseteq calls
    BY <2>1 DEF End
  <2>3. \A d \in calls' : d.phase = "req" => d.to \in alive'
    BY <2>1, EndLeavesNoRequest DEF LookupInv
  <2> QED
    BY <1>0, <2>1, <2>2, <2>3, CallsStaySound DEF LookupInv, FingersOfOthers
<1>4. ASSUME NEW n \in Nodes, NEW id \in Wanted, Ask(n, id)
      PROVE  LookupInv'
  <2>1. /\ calls' = calls \cup Connect(Request(n, finger[n], 0, id))
        /\ UNCHANGED <<alive, succ, finger, deaths, lapses>>
    BY <1>4 DEF Ask
  <2>2. \A d \in Connect(Request(n, finger[n], 0, id)) : Sound(d)
    BY <1>0, RequestSound
  <2> QED
    BY <1>0, <2>1, <2>2, CallsStaySound DEF LookupInv, FingersOfOthers, TypeOK
<1>5. ASSUME NEW c \in calls, Handle(c)
      PROVE  LookupInv'
  <2>1. CASE Found(c)
    <3>1. calls' \subseteq calls /\ UNCHANGED <<alive, succ, finger, deaths, lapses>>
      BY <2>1 DEF Found
    <3> QED
      BY <1>0, <3>1, CallsStaySound DEF LookupInv, FingersOfOthers, TypeOK
  <2> QED
    BY <1>5, <2>1, HandleOtherSound, HandleOwnSound, RelayReplySound, FingerFoundSound DEF Handle
<1>6. CASE UNCHANGED vars
  BY <1>0, <1>6, CallsStaySound DEF vars, LookupInv, FingersOfOthers, TypeOK
<1> QED
  BY <1>1, <1>2, <1>3, <1>4, <1>5, <1>6, <1>7 DEF Next

LEMMA LookupInvariant == Spec => []LookupInv
BY LookupInit, LookupStep, PTL DEF Spec

(***************************************************************************)
(* The variables have their types: every lookup and every entry of a       *)
(* finger table is on the circle, for any length of identifiers.           *)
(***************************************************************************)
THEOREM TypeCorrect == Spec => []TypeOK
BY LookupInvariant, SoundIsBoth, PTL

(***************************************************************************)
(* However long the finger tables, whatever dead nodes or uninitialised    *)
(* memory they hold, every hop of a lookup is nearer than all before it.   *)
(***************************************************************************)
THEOREM LookupsProgress == Spec => []LookupProgress
BY LookupInvariant, SoundIsBoth, PTL

(***************************************************************************)
(* And what is found skips no live node but one that the first successor   *)
(* of some node pointed past while the lookup was under way: fingers never *)
(* change the answer of node_find_successor, only the way to it, however   *)
(* often successors are wrong and are mended.                              *)
(***************************************************************************)
THEOREM NoAnswerSkips == Spec => []AnswersSkipNone
BY LookupInvariant, SoundIsBoth, PTL
=============================================================================
