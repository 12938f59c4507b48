--------------------------- MODULE ExchangeProofs ---------------------------
(***************************************************************************)
(* What holds of the connections of a node for every size of the pool,     *)
(* every number of remote ends, and however many of them die or time out.  *)
(*                                                                         *)
(* OwedAnswersKept is not inductive.  It needs to know that a waiting      *)
(* asker is never the other end of an outgoing connection (Held), that two *)
(* slots never have the same other end (Distinct), and that an asker stays *)
(* waiting for as long as its lookup is out (Owed, OneRelay): then every   *)
(* close in the code is of a slot other than the one remembered.           *)
(***************************************************************************)
EXTENDS Exchange, WellFoundedInduction, TLAPS

USE ExchangeAssumption

Outgoing == {"relay", "own", "check", "notif"}

(* Two slots do not share a remote end. *)
Distinct ==
    \A j, k \in Slots : slot[j].peer # None /\ slot[j].peer = slot[k].peer => j = k

(* What the other end of a connection can be at. *)
Held ==
    \A k \in Slots :
        /\ slot[k].use = "incoming" =>
              peer[slot[k].peer] \in {"asks", "waits", "answered", "gone"} \cup Dead
        /\ slot[k].use \in Outgoing =>
              peer[slot[k].peer] \in {"asked", "replied", "gone"} \cup Dead

(* An asker whose lookup is out waits, unless it died or was misled. *)
Owed ==
    \A k \in Slots :
        slot[k].use = "relay" /\ slot[k].asker \notin misled
            => peer[slot[k].asker] \in {"waits", "dead"}

(* It has one lookup out. *)
OneRelay ==
    \A j, k \in Slots :
        /\ slot[j].use = "relay" /\ slot[k].use = "relay"
        /\ slot[j].asker = slot[k].asker /\ slot[j].asker \notin misled
        => j = k

(* The inductive invariant, without the crash flag and the counters. *)
Core ==
    /\ slot \in [Slots -> Slot] /\ peer \in [Peers -> PeerState]
    /\ misled \subseteq Peers
    /\ Distinct /\ Held /\ Owed /\ OneRelay /\ OwedAnswersKept
-----------------------------------------------------------------------------
(***************************************************************************)
(* Slots.                                                                  *)
(***************************************************************************)

(* What TypeOK says of one slot, in the form the proofs below use it. *)
LEMMA SlotFacts ==
    ASSUME NEW s \in Slot
    PROVE  /\ s.use = "free" <=> s = Free
           /\ s.use = "free" <=> s.peer = None
           /\ s.use # "free" => s.peer \in Peers /\ s.use \in Uses
           /\ s.use = "relay" => s.back \in Slots /\ s.asker \in Peers
           /\ s.use \in {"free", "incoming"} \cup Outgoing
<1> DEFINE Plain == [peer : Peers, use : Uses \ {"relay"}, hears : BOOLEAN,
                     back : {-1}, asker : {None}]
           Relays == [peer : Peers, use : {"relay"}, hears : BOOLEAN,
                      back : Slots, asker : Peers]
<1>1. s \in {Free} \cup Plain \cup Relays
  BY DEF Slot
<1>2. CASE s = Free
  BY <1>2 DEF Free
<1>3. CASE s \in Plain
  BY <1>3 DEF Free, Uses, Outgoing
<1>4. CASE s \in Relays
  BY <1>4 DEF Free, Uses, Outgoing
<1> HIDE DEF Plain, Relays
<1> QED
  BY <1>1, <1>2, <1>3, <1>4

LEMMA OpenedType ==
    ASSUME NEW p \in Peers, NEW use \in Uses \ {"relay"}
    PROVE  Opened(p, use) \in Slot /\ Opened(p, use).peer = p /\ Opened(p, use).use = use
BY DEF Opened, Slot

(* A slot that has heard of a timeout or an error is still a slot. *)
LEMMA DeafType ==
    ASSUME NEW s \in Slot, s.use # "free"
    PROVE  /\ [s EXCEPT !.hears = FALSE] \in Slot
           /\ [s EXCEPT !.hears = FALSE].peer = s.peer
           /\ [s EXCEPT !.hears = FALSE].use = s.use
           /\ [s EXCEPT !.hears = FALSE].back = s.back
           /\ [s EXCEPT !.hears = FALSE].asker = s.asker
<1> DEFINE Plain == [peer : Peers, use : Uses \ {"relay"}, hears : BOOLEAN,
                     back : {-1}, asker : {None}]
           Relays == [peer : Peers, use : {"relay"}, hears : BOOLEAN,
                      back : Slots, asker : Peers]
           deaf == [s EXCEPT !.hears = FALSE]
<1>1. s \in Plain \/ s \in Relays
  BY DEF Slot, Free
<1>2. ASSUME s \in Plain
      PROVE  deaf \in Plain /\ deaf.peer = s.peer /\ deaf.use = s.use
             /\ deaf.back = s.back /\ deaf.asker = s.asker
  BY <1>2
<1>3. ASSUME s \in Relays
      PROVE  deaf \in Relays /\ deaf.peer = s.peer /\ deaf.use = s.use
             /\ deaf.back = s.back /\ deaf.asker = s.asker
  BY <1>3
<1>4. Plain \subseteq Slot /\ Relays \subseteq Slot
  BY DEF Slot
<1> HIDE DEF Plain, Relays, deaf
<1>5. deaf \in Slot /\ deaf.peer = s.peer /\ deaf.use = s.use
      /\ deaf.back = s.back /\ deaf.asker = s.asker
  BY <1>1, <1>2, <1>3, <1>4
<1> QED
  BY <1>5 DEF deaf

(* If a slot is free there is a first one.                                 *)
LEMMA FirstFree ==
    ASSUME NEW j \in Slots, slot[j].peer = None
    PROVE  \E k \in Slots : slot[k].peer = None /\ \A i \in 0 .. k-1 : slot[i].peer # None
<1> DEFINE empty == {k \in Slots : slot[k].peer = None}
<1>1. empty # {} /\ empty \subseteq Nat
  BY DEF Slots
<1>2. PICK k \in empty : \A i \in empty : ~(<<i, k>> \in OpToRel(<, Nat))
  BY <1>1, NatLessThanWellFounded, WFMin
<1>3. \A i \in empty : ~(i < k)
  BY <1>1, <1>2 DEF OpToRel
<1> QED
  BY <1>3 DEF Slots

(* It returns -1 only when the pool is full. *)
LEMMA EmptyIsFull ==
    ASSUME net_empty_connection_slot = -1
    PROVE  \A k \in Slots : slot[k].peer # None
<1> SUFFICES ASSUME NEW j \in Slots, slot[j].peer = None
             PROVE  FALSE
  OBVIOUS
<1>1. net_empty_connection_slot \in Slots
  BY FirstFree DEF net_empty_connection_slot
<1> QED
  BY <1>1 DEF Slots

(* net_empty_connection_slot returns -1 or the number of a free slot. *)
LEMMA EmptySlot ==
    ASSUME TypeOK, net_empty_connection_slot # -1
    PROVE  /\ net_empty_connection_slot \in Slots
           /\ slot[net_empty_connection_slot] = Free
<1>1. PICK j \in Slots : slot[j].peer = None
  BY DEF net_empty_connection_slot
<1>2. /\ net_empty_connection_slot \in Slots
      /\ slot[net_empty_connection_slot].peer = None
  BY <1>1, FirstFree DEF net_empty_connection_slot
<1> QED
  BY <1>2, SlotFacts DEF TypeOK

-----------------------------------------------------------------------------
(***************************************************************************)
(* The four ways in which a step changes slots and peers.                  *)
(***************************************************************************)

LEMMA CoreInit == Init => Core
BY DEF Init, Core, Slot, Free, PeerState, Distinct, Held, Owed, OneRelay,
       OwedAnswersKept, Outgoing, Dead

(***************************************************************************)
(* A slot whose other end does not wait is closed: it is nobody's          *)
(* remembered slot.                                                        *)
(***************************************************************************)
LEMMA CloseKeepsCore ==
    ASSUME Core, NEW k \in Slots, slot[k].peer \in Peers,
           peer[slot[k].peer] # "waits", Close(k), UNCHANGED misled
    PROVE  Core'
<1> DEFINE q == slot[k].peer
<1>1. /\ slot' = [slot EXCEPT ![k] = Free]
      /\ peer' = [peer EXCEPT ![q] = Left(peer[q])]
  BY DEF Close
<1>2. slot' \in [Slots -> Slot] /\ peer' \in [Peers -> PeerState]
  BY <1>1 DEF Core, Slot, PeerState, Left, Dead
<1>3. \A j \in Slots : j # k => slot'[j] = slot[j] /\ slot[j].peer # q
  BY <1>1 DEF Core, Distinct
<1>4. slot'[k] = Free /\ Free.use = "free" /\ Free.peer = None
  BY <1>1 DEF Core, Free
<1>5. \A p \in Peers : p # q => peer'[p] = peer[p]
  BY <1>1 DEF Core
<1>6. peer'[q] \in {"idle", "dead"} /\ (peer[q] = "dead" => peer'[q] = "dead")
  BY <1>1 DEF Core, Left, Dead
<1>7. Distinct'
  BY <1>3, <1>4 DEF Core, Distinct
<1>8. Held'
  BY <1>3, <1>4, <1>5, SlotFacts DEF Core, Held, Outgoing, Dead, Uses
<1>9. Owed'
  BY <1>3, <1>4, <1>5, <1>6, SlotFacts DEF Core, Owed, Dead
<1>10. OneRelay'
  BY <1>3, <1>4 DEF Core, OneRelay
<1>11. OwedAnswersKept'
  <2> SUFFICES ASSUME NEW j \in Slots, slot'[j].use = "relay",
                      peer'[slot'[j].asker] = "waits", slot'[j].asker \notin misled
               PROVE  slot'[slot'[j].back].peer = slot'[j].asker
    BY DEF OwedAnswersKept
  <2>1. j # k /\ slot'[j] = slot[j]
    BY <1>3, <1>4
  <2>2. slot[j].asker \in Peers /\ slot[j].back \in Slots
    BY <2>1, SlotFacts DEF Core
  <2>3. slot[j].asker # q /\ peer[slot[j].asker] = "waits"
    BY <2>1, <2>2, <1>5, <1>6
  <2>4. slot[slot[j].back].peer = slot[j].asker
    BY <2>1, <2>3 DEF Core, OwedAnswersKept
  <2>5. slot[j].back # k
    BY <2>3, <2>4
  <2> QED
    BY <2>1, <2>2, <2>4, <2>5, <1>3
<1> QED
  BY <1>2, <1>7, <1>8, <1>9, <1>10, <1>11 DEF Core

(* A connection is heard of no more: what it is for and whose stays.       *)
LEMMA DeafKeepsCore ==
    ASSUME Core, NEW k \in Slots, slot[k].peer \in Peers,
           slot' = [slot EXCEPT ![k].hears = FALSE], UNCHANGED <<peer, misled>>
    PROVE  Core'
<1>1. slot' = [slot EXCEPT ![k] = [slot[k] EXCEPT !.hears = FALSE]]
  OBVIOUS
<1>2. slot[k] \in Slot /\ slot[k].use # "free"
  BY SlotFacts DEF Core
<1>3. slot' \in [Slots -> Slot]
  BY <1>1, <1>2, DeafType DEF Core
<1>4. \A j \in Slots : /\ slot'[j].peer = slot[j].peer
                       /\ slot'[j].use = slot[j].use
                       /\ slot'[j].back = slot[j].back
                       /\ slot'[j].asker = slot[j].asker
  BY <1>1, <1>2, DeafType DEF Core
<1>5. \A j \in Slots : slot[j].use = "relay" => slot[j].back \in Slots
  BY SlotFacts DEF Core
<1> QED
  BY <1>3, <1>4, <1>5
  DEF Core, Distinct, Held, Owed, OneRelay, OwedAnswersKept

(* A free slot is taken for a connection whose other end had none.         *)
LEMMA OpenKeepsCore ==
    ASSUME Core, NEW k \in Slots, slot[k] = Free,
           NEW q \in Peers, peer[q] \in {"idle", "knocks"},
           NEW s \in Slot, s.peer = q, NEW state \in PeerState,
           slot' = [slot EXCEPT ![k] = s], UNCHANGED misled,
           \/ s.use = "incoming" /\ state = "asks"
           \/ s.use \in Outgoing \ {"relay"} /\ state = "asked",
           peer' = [peer EXCEPT ![q] = state]
    PROVE  Core'
<1>1. slot' \in [Slots -> Slot] /\ peer' \in [Peers -> PeerState]
  BY DEF Core
<1>2. slot'[k] = s /\ \A j \in Slots : j # k => slot'[j] = slot[j]
  BY DEF Core
<1>3. peer'[q] = state /\ \A p \in Peers : p # q => peer'[p] = peer[p]
  BY DEF Core
<1>4. \A j \in Slots : slot[j].peer # q
  BY SlotFacts DEF Core, Held, Dead
<1>5. slot[k].use = "free" /\ slot[k].peer = None /\ s.use # "relay"
  BY DEF Free, Outgoing
<1>6. Distinct'
  BY <1>2, <1>4 DEF Core, Distinct
<1>7. Held'
  BY <1>2, <1>3, <1>4, SlotFacts DEF Core, Held, Outgoing, Dead
<1>8. \A j \in Slots : slot[j].use = "relay" =>
          /\ slot[j].asker \in Peers /\ slot[j].back \in Slots
          /\ slot[j].asker = q => q \in misled
  BY SlotFacts DEF Core, Owed, Dead
<1>9. Owed'
  BY <1>2, <1>3, <1>5, <1>8 DEF Core, Owed, Dead
<1>10. OneRelay'
  BY <1>2, <1>5 DEF Core, OneRelay
<1>11. OwedAnswersKept'
  <2> SUFFICES ASSUME NEW j \in Slots, slot'[j].use = "relay",
                      peer'[slot'[j].asker] = "waits", slot'[j].asker \notin misled
               PROVE  slot'[slot'[j].back].peer = slot'[j].asker
    BY DEF OwedAnswersKept
  <2>1. j # k /\ slot'[j] = slot[j] /\ slot[j].use = "relay"
    BY <1>2, <1>5
  <2>2. slot[j].asker \in Peers /\ slot[j].back \in Slots /\ slot[j].asker # q
    BY <2>1, <1>8
  <2>3. slot[slot[j].back].peer = slot[j].asker
    BY <2>1, <2>2, <1>3 DEF Core, OwedAnswersKept
  <2>4. slot[j].back # k
    BY <2>2, <2>3, <1>5
  <2> QED
    BY <2>1, <2>2, <2>3, <2>4, <1>2
<1> QED
  BY <1>1, <1>6, <1>7, <1>9, <1>10, <1>11 DEF Core

(***************************************************************************)
(* Only a remote end changes, in a way that its connection allows, and not *)
(* from waiting for an answer unless it dies.                              *)
(***************************************************************************)
LEMMA PeerKeepsCore ==
    ASSUME Core, NEW p \in Peers, NEW state \in PeerState,
           UNCHANGED <<slot, misled>>, peer' = [peer EXCEPT ![p] = state],
           peer[p] # "dead", peer[p] = "waits" => state = "dead",
           state = "waits" => peer[p] = "waits",
           \/ peer[p] \in {"idle", "knocks", "stranded"}
           \/ state \in {"answered", "gone"} /\ peer[p] \in {"asks", "answered"}
           \/ state \in {"gone", "replied"} /\ peer[p] = "asked"
           \/ state = "dead"
    PROVE  Core'
<1>1. peer'[p] = state /\ \A r \in Peers : r # p => peer'[r] = peer[r]
  BY DEF Core
<1>2. \A k \in Slots : slot[k].use # "free" => slot[k].peer \in Peers
  BY SlotFacts DEF Core
<1>3. \A k \in Slots : slot[k].use = "relay" => slot[k].asker \in Peers
  BY SlotFacts DEF Core
<1>4. peer' \in [Peers -> PeerState]
  BY DEF Core
<1>5. Distinct' /\ OneRelay'
  BY DEF Core, Distinct, OneRelay
<1>6. Held'
  BY <1>1, <1>2 DEF Core, Held, Outgoing, Dead
<1>7. Owed'
  BY <1>1, <1>3 DEF Core, Owed, Dead
<1>8. OwedAnswersKept'
  BY <1>1, <1>3 DEF Core, OwedAnswersKept
<1> QED
  BY <1>4, <1>5, <1>6, <1>7, <1>8 DEF Core

-----------------------------------------------------------------------------
(***************************************************************************)
(* The two steps that deal with a lookup passed on.                        *)
(***************************************************************************)

(* It is passed on: the asker now waits, its slot number is remembered.    *)
LEMMA RelayKeepsCore ==
    ASSUME Core, TypeOK, NEW k \in Slots, NEW q \in Peers, Relay(k, q)
    PROVE  Core'
<1> DEFINE p == slot[k].peer
           j == net_empty_connection_slot
           out == [Opened(q, "relay") EXCEPT !.back = k, !.asker = p]
<1>1. /\ p \in Peers /\ slot[k].use = "incoming" /\ peer[p] = "asks"
      /\ peer[q] = "idle" /\ p # q
  BY SlotFacts DEF Core, Relay, Reads
<1>2. \A i \in Slots : slot[i].use = "relay" =>
          /\ slot[i].asker \in Peers /\ slot[i].back \in Slots
          /\ slot[i].asker \in {p, q} => slot[i].asker \in misled
  BY <1>1, SlotFacts DEF Core, Owed, Dead
<1>3. \A i \in Slots : slot[i].peer # q /\ (i # k => slot[i].peer # p)
  BY <1>1, SlotFacts DEF Core, Held, Dead, Distinct
<1>4. UNCHANGED misled
  BY DEF Relay
<1>5. CASE j = -1
  <2>1. slot' = slot /\ peer' = [peer EXCEPT ![p] = "waits"]
    BY <1>5 DEF Relay
  <2>2. peer'[p] = "waits" /\ \A r \in Peers : r # p => peer'[r] = peer[r]
    BY <1>1, <2>1 DEF Core
  <2>3. slot' \in [Slots -> Slot] /\ peer' \in [Peers -> PeerState]
    BY <2>1 DEF Core, PeerState
  <2>4. Distinct' /\ OneRelay'
    BY <1>4, <2>1 DEF Core, Distinct, OneRelay
  <2>5. Held'
    BY <1>1, <1>3, <2>1, <2>2, SlotFacts DEF Core, Held, Outgoing, Dead, Uses
  <2>6. Owed'
    BY <1>2, <1>4, <2>1, <2>2 DEF Core, Owed, Dead
  <2>7. OwedAnswersKept'
    BY <1>2, <1>4, <2>1, <2>2 DEF Core, OwedAnswersKept
  <2> QED
    BY <1>4, <2>3, <2>4, <2>5, <2>6, <2>7 DEF Core
<1>6. CASE j # -1
  <2>1. j \in Slots /\ slot[j] = Free
    BY <1>6, EmptySlot
  <2> HIDE DEF j
  <2>2. /\ slot' = [slot EXCEPT ![j] = out]
        /\ peer' = [peer EXCEPT ![p] = "waits", ![q] = "asked"]
    BY <1>6 DEF Relay, j
  <2>3. /\ out \in Slot /\ out.peer = q /\ out.use = "relay"
        /\ out.back = k /\ out.asker = p
    BY <1>1 DEF Opened, Slot
  <2> HIDE DEF out
  <2>4. /\ peer'[p] = "waits" /\ peer'[q] = "asked"
        /\ \A r \in Peers : r \notin {p, q} => peer'[r] = peer[r]
    BY <1>1, <2>2 DEF Core
  <2>5. slot' \in [Slots -> Slot] /\ peer' \in [Peers -> PeerState]
    BY <2>2, <2>3 DEF Core, PeerState
  <2>6. /\ slot'[j] = out /\ \A i \in Slots : i # j => slot'[i] = slot[i]
        /\ slot[j].use = "free" /\ slot[j].peer = None /\ j # k
    BY <1>1, <2>1, <2>2 DEF Core, Free
  <2>7. Distinct'
    BY <1>3, <2>3, <2>6 DEF Core, Distinct
  <2>8. Held'
    BY <1>1, <1>3, <2>3, <2>4, <2>6, SlotFacts DEF Core, Held, Outgoing, Dead
  <2>9. Owed'
    BY <1>1, <1>2, <1>4, <2>3, <2>4, <2>6 DEF Core, Owed, Dead
  <2>10. OneRelay'
    BY <1>2, <1>4, <2>3, <2>6 DEF Core, OneRelay
  <2>11. OwedAnswersKept'
    <3> SUFFICES ASSUME NEW i \in Slots, slot'[i].use = "relay",
                        peer'[slot'[i].asker] = "waits", slot'[i].asker \notin misled
                 PROVE  slot'[slot'[i].back].peer = slot'[i].asker
      BY <1>4 DEF OwedAnswersKept
    <3>1. CASE i = j
      BY <3>1, <2>3, <2>6
    <3>2. CASE i # j
      <4>1. slot'[i] = slot[i] /\ slot[i].use = "relay"
        BY <3>2, <2>6
      <4>2. /\ slot[i].asker \in Peers \ {p, q} /\ slot[i].back \in Slots
            /\ peer[slot[i].asker] = "waits"
        BY <4>1, <1>2, <2>4
      <4>3. slot[slot[i].back].peer = slot[i].asker
        BY <4>1, <4>2 DEF Core, OwedAnswersKept
      <4>4. slot[i].back # j
        BY <4>2, <4>3, <2>6
      <4> QED
        BY <4>1, <4>2, <4>3, <4>4, <2>6
    <3> QED
      BY <3>1, <3>2
  <2> QED
    BY <1>4, <2>5, <2>7, <2>8, <2>9, <2>10, <2>11 DEF Core
<1> QED
  BY <1>5, <1>6

(***************************************************************************)
(* Its answer is passed back: the relay's slot is closed, and what waits   *)
(* in the slot remembered is answered -- the asker, or someone misled.     *)
(***************************************************************************)
LEMMA RelayReplyKeepsCore ==
    ASSUME Core, NEW k \in Slots, RelayReply(k)
    PROVE  Core'
<1> DEFINE q == slot[k].peer
           a == slot[k].asker
           r == slot[slot[k].back].peer
<1>1. /\ slot[k].use = "relay" /\ q \in Peers /\ a \in Peers
      /\ slot[k].back \in Slots /\ r \in Peers \cup {None}
      /\ peer[q] = "replied"
  BY SlotFacts DEF Core, RelayReply, Replied
<1>2. /\ slot' = [slot EXCEPT ![k] = Free]
      /\ misled' = misled \cup ({r} \ {None, a})
      /\ peer' = [p \in Peers |->
                    IF p = q THEN Left(peer[p])
                    ELSE IF p = r /\ peer[p] = "waits" THEN "answered"
                    ELSE IF p = r /\ peer[p] = "dead" THEN "refuses"
                    ELSE peer[p]]
  BY DEF RelayReply
<1>3. slot' \in [Slots -> Slot] /\ peer' \in [Peers -> PeerState]
      /\ misled' \subseteq Peers
  BY <1>1, <1>2 DEF Core, Slot, PeerState, Left, Dead
<1>4. /\ slot'[k].use = "free" /\ slot'[k].peer = None
      /\ \A i \in Slots : i # k => slot'[i] = slot[i] /\ slot[i].peer # q
  BY <1>1, <1>2 DEF Core, Distinct, Free
<1>5. /\ peer'[q] = "idle"
      /\ \A p \in Peers : p # q =>
            \/ peer'[p] = peer[p]
            \/ p = r /\ peer[p] = "waits" /\ peer'[p] = "answered"
            \/ p = r /\ peer[p] = "dead" /\ peer'[p] = "refuses"
  BY <1>1, <1>2 DEF Left, Dead
<1>6. \A i \in Slots : i # k /\ slot[i].use = "relay" =>
         /\ slot[i].asker \in Peers /\ slot[i].back \in Slots
         /\ slot[i].asker \notin misled' => slot[i].asker \notin {q, r}
  <2>1. SUFFICES ASSUME NEW i \in Slots, i # k, slot[i].use = "relay",
                        slot[i].asker \notin misled'
                 PROVE  slot[i].asker \notin {q, r}
    BY SlotFacts DEF Core
  <2>2. slot[i].asker \in Peers /\ slot[i].asker \notin misled
    BY <2>1, <1>2, SlotFacts DEF Core
  <2>3. slot[i].asker # q
    BY <2>1, <2>2, <1>1 DEF Core, Owed, Dead
  <2>4. slot[i].asker # a
    BY <2>1, <2>2, <1>1 DEF Core, OneRelay
  <2>5. slot[i].asker # r
    BY <2>1, <2>2, <2>4, <1>2
  <2> QED
    BY <2>3, <2>5
<1> HIDE DEF q, a, r
<1>7. Distinct'
  BY <1>4 DEF Core, Distinct
<1>8. Held'
  <2>1. \A i \in Slots : i # k /\ slot[i].use # "free" =>
            slot[i].peer \in Peers /\ slot[i].peer # q
    BY <1>4, SlotFacts DEF Core
  <2> QED
    BY <2>1, <1>4, <1>5 DEF Core, Held, Outgoing, Dead
<1>9. Owed'
  BY <1>2, <1>4, <1>5, <1>6 DEF Core, Owed, Dead
<1>10. OneRelay'
  BY <1>2, <1>4 DEF Core, OneRelay
<1>11. OwedAnswersKept'
  <2> SUFFICES ASSUME NEW i \in Slots, slot'[i].use = "relay",
                      peer'[slot'[i].asker] = "waits", slot'[i].asker \notin misled'
               PROVE  slot'[slot'[i].back].peer = slot'[i].asker
    BY DEF OwedAnswersKept
  <2>1. i # k /\ slot'[i] = slot[i] /\ slot[i].use = "relay"
    BY <1>4
  <2>2. /\ slot[i].asker \in Peers /\ slot[i].back \in Slots
        /\ slot[i].asker # q /\ slot[i].asker # r
    BY <2>1, <1>6
  <2>3. peer[slot[i].asker] = "waits" /\ slot[i].asker \notin misled
    BY <2>1, <2>2, <1>2, <1>5
  <2>4. slot[slot[i].back].peer = slot[i].asker
    BY <2>1, <2>3 DEF Core, OwedAnswersKept
  <2>5. slot[i].back # k
    BY <2>2, <2>4 DEF q
  <2> QED
    BY <2>1, <2>2, <2>4, <2>5, <1>4
<1> QED
  BY <1>3, <1>7, <1>8, <1>9, <1>10, <1>11 DEF Core

-----------------------------------------------------------------------------
(***************************************************************************)
(* Every step.                                                             *)
(***************************************************************************)

(* An event: the slot is closed, or heard of no more.                      *)
LEMMA EventKeepsCore ==
    ASSUME Core, NEW k \in Slots, slot[k].peer \in Peers, UNCHANGED misled,
           \/ \E event \in {"EOF", "ERROR", "WRITE_ERROR", "TIMEOUT"} :
                 /\ IncomingEvent(k, event)
                 /\ event \in {"EOF", "WRITE_ERROR"} =>
                       peer[slot[k].peer] \in {"gone"} \cup Dead
           \/ OutgoingEvent(k)
    PROVE  Core'
<1>1. CASE slot' = [slot EXCEPT ![k].hears = FALSE] /\ UNCHANGED peer
  BY <1>1, DeafKeepsCore
<1>2. CASE Close(k) /\ peer[slot[k].peer] # "waits"
  BY <1>2, CloseKeepsCore
<1>3. slot[k].use \in {"check", "notif"} => peer[slot[k].peer] # "waits"
  BY DEF Core, Held, Outgoing, Dead
<1> QED
  BY <1>1, <1>2, <1>3 DEF IncomingEvent, IncomingCloses, OutgoingEvent, Dead

LEMMA CoreHandle ==
    ASSUME TypeOK, Core, NEW k \in Slots, Handle(k)
    PROVE  Core'
<1>1. CASE Answer(k)
  <2>1. slot[k].peer \in Peers
    BY <1>1, SlotFacts DEF Core, Answer, Reads
  <2>2. peer[slot[k].peer] = "asks" /\ "answered" \in PeerState
    BY <1>1 DEF Answer, Reads, PeerState
  <2> QED
    BY <1>1, <2>1, <2>2, PeerKeepsCore DEF Answer
<1>2. CASE Notified(k)
  BY <1>2, CloseKeepsCore, SlotFacts DEF Core, Notified, Reads
<1>3. ASSUME NEW q \in Peers, Relay(k, q)
      PROVE  Core'
  BY <1>3, RelayKeepsCore
<1>4. CASE OwnReply(k)
  BY <1>4, CloseKeepsCore, SlotFacts DEF Core, OwnReply, Replied
<1>5. CASE RelayReply(k)
  BY <1>5, RelayReplyKeepsCore
<1>6. CASE GoneEvent(k)
  <2>1. slot[k].peer \in Peers /\ peer[slot[k].peer] \in {"gone"} \cup Dead
    BY <1>6, SlotFacts DEF Core, GoneEvent
  <2>2. UNCHANGED misled
    BY <1>6 DEF GoneEvent, IncomingEvent, OutgoingEvent
  <2> QED
    BY <1>6, <2>1, <2>2, EventKeepsCore DEF GoneEvent
<1> QED
  BY <1>1, <1>2, <1>3, <1>4, <1>5, <1>6 DEF Handle

LEMMA CoreNext == TypeOK /\ Core /\ [Next]_vars => Core'
<1> SUFFICES ASSUME TypeOK, Core, [Next]_vars
             PROVE  Core'
  OBVIOUS
<1>1. CASE UNCHANGED vars
  BY <1>1 DEF vars, Core, Distinct, Held, Owed, OneRelay, OwedAnswersKept
<1>2. ASSUME NEW p \in Peers, NEW state \in PeerState, SetPeer(p, state),
             peer[p] # "dead", peer[p] = "waits" => state = "dead", state # "waits",
             \/ peer[p] \in {"idle", "stranded"}
             \/ state = "gone" /\ peer[p] = "answered"
             \/ state \in {"gone", "replied"} /\ peer[p] = "asked"
             \/ state = "dead"
      PROVE  Core'
  BY <1>2, PeerKeepsCore DEF SetPeer
<1>3. ASSUME NEW p \in Peers,
             Knock(p) \/ PeerReplies(p) \/ PeerCloses(p) \/ PeerDies(p) \/ GivesUp(p)
      PROVE  Core'
  <2>1. {"knocks", "gone", "replied", "dead", "idle"} \subseteq PeerState
    BY DEF PeerState
  <2> QED
    BY <1>2, <1>3, <2>1 DEF Knock, PeerReplies, PeerCloses, PeerDies, GivesUp
<1>4. ASSUME NEW p \in Peers, Accept(p)
      PROVE  Core'
  <2> DEFINE k == net_empty_connection_slot
  <2>1. "stranded" \in PeerState /\ "asks" \in PeerState
    BY DEF PeerState
  <2>2. CASE k = -1
    BY <1>4, <2>1, <2>2, PeerKeepsCore DEF Accept
  <2>3. CASE k # -1
    <3>1. k \in Slots /\ slot[k] = Free
      BY <2>3, EmptySlot
    <3>2. Opened(p, "incoming") \in Slot /\ Opened(p, "incoming").peer = p
          /\ Opened(p, "incoming").use = "incoming"
      BY OpenedType DEF Uses
    <3> QED
      BY <1>4, <2>1, <2>3, <3>1, <3>2, OpenKeepsCore DEF Accept
  <2> QED
    BY <2>2, <2>3
<1>5. ASSUME NEW use \in {"own", "check", "notif"}, NEW q \in Peers, Ask(use, q)
      PROVE  Core'
  <2> DEFINE k == net_empty_connection_slot
  <2>1. CASE k = -1
    BY <1>5, <2>1
    DEF Ask, Core, Distinct, Held, Owed, OneRelay, OwedAnswersKept
  <2>2. CASE k # -1
    <3>1. k \in Slots /\ slot[k] = Free
      BY <2>2, EmptySlot
    <3>2. /\ Opened(q, use) \in Slot /\ Opened(q, use).peer = q
          /\ Opened(q, use).use = use /\ use \in Outgoing \ {"relay"}
          /\ "asked" \in PeerState
      BY OpenedType DEF Uses, Outgoing, PeerState
    <3> QED
      BY <1>5, <2>2, <3>1, <3>2, OpenKeepsCore DEF Ask
  <2> QED
    BY <2>1, <2>2
<1>6. ASSUME NEW k \in Slots, Handle(k)
      PROVE  Core'
  BY <1>6, CoreHandle
<1>7. ASSUME NEW k \in Slots, TimeoutEvent(k)
      PROVE  Core'
  <2>1. slot[k].peer \in Peers
    BY <1>7, SlotFacts DEF Core, TimeoutEvent
  <2>2. UNCHANGED misled
    BY <1>7 DEF TimeoutEvent, IncomingEvent, OutgoingEvent
  <2> QED
    BY <1>7, <2>1, <2>2, EventKeepsCore DEF TimeoutEvent
<1>8. ASSUME NEW k \in Slots, WriteError(k)
      PROVE  Core'
  <2>1. slot[k].peer \in Peers /\ peer[slot[k].peer] \in {"gone"} \cup Dead
    BY <1>8, SlotFacts DEF Core, WriteError, Dead
  <2>2. UNCHANGED misled
    BY <1>8 DEF WriteError, IncomingEvent
  <2> QED
    BY <1>8, <2>1, <2>2, EventKeepsCore DEF WriteError
<1> QED
  BY <1>1, <1>3, <1>4, <1>5, <1>6, <1>7, <1>8 DEF Next, Stopped

-----------------------------------------------------------------------------
(***************************************************************************)
(* The crash flag and the counters.                                        *)
(***************************************************************************)

Counters ==
    crashed \in BOOLEAN /\ deaths \in 0 .. MaxDeaths /\ timeouts \in 0 .. MaxTimeouts

LEMMA CountersNext == Counters /\ [Next]_vars => Counters'
<1> SUFFICES ASSUME Counters, [Next]_vars
             PROVE  Counters'
  OBVIOUS
<1>1. crashed' = crashed \/ crashed' \in BOOLEAN
  BY DEF Next, vars, Stopped, Knock, Accept, PeerReplies, PeerCloses, PeerDies, GivesUp,
         SetPeer, Ask, Handle, Answer, Notified, Relay, OwnReply, RelayReply,
         GoneEvent, WriteError, TimeoutEvent, IncomingEvent, OutgoingEvent
<1>2. ASSUME NEW p \in Peers, PeerDies(p)
      PROVE  deaths' = deaths + 1 /\ deaths < MaxDeaths /\ timeouts' = timeouts
  BY <1>2 DEF PeerDies, SetPeer
<1>3. ASSUME NEW k \in Slots, TimeoutEvent(k)
      PROVE  timeouts' = timeouts + 1 /\ timeouts < MaxTimeouts /\ deaths' = deaths
  BY <1>3 DEF TimeoutEvent, IncomingEvent, OutgoingEvent
<1>4. ASSUME NEW k \in Slots, Handle(k) \/ WriteError(k)
      PROVE  UNCHANGED <<deaths, timeouts>>
  <2>1. CASE GoneEvent(k) \/ WriteError(k)
    BY <2>1 DEF GoneEvent, WriteError, IncomingEvent, OutgoingEvent
  <2>2. CASE ~(GoneEvent(k) \/ WriteError(k))
    BY <1>4, <2>2 DEF Handle, Answer, Notified, Relay, OwnReply, RelayReply
  <2> QED
    BY <2>1, <2>2
<1>5. ASSUME NEW p \in Peers,
             Knock(p) \/ Accept(p) \/ PeerReplies(p) \/ PeerCloses(p) \/ GivesUp(p)
      PROVE  UNCHANGED <<deaths, timeouts>>
  BY <1>5 DEF Knock, Accept, PeerReplies, PeerCloses, GivesUp, SetPeer
<1>6. ASSUME NEW use \in {"own", "check", "notif"}, NEW q \in Peers, Ask(use, q)
      PROVE  UNCHANGED <<deaths, timeouts>>
  BY <1>6 DEF Ask
<1>7. \/ UNCHANGED <<deaths, timeouts>>
      \/ deaths' = deaths + 1 /\ deaths < MaxDeaths /\ timeouts' = timeouts
      \/ timeouts' = timeouts + 1 /\ timeouts < MaxTimeouts /\ deaths' = deaths
  BY <1>2, <1>3, <1>4, <1>5, <1>6 DEF Next, Stopped, vars
<1> QED
  BY <1>1, <1>7, ExchangeAssumption DEF Counters

LEMMA TypeIsCoreAndCounters == Core /\ Counters => TypeOK
BY DEF Core, Counters, TypeOK

LEMMA CoreInvariant == Spec => [](Core /\ Counters)
<1>1. Init => Counters
  <2>1. 0 \in 0 .. MaxDeaths /\ 0 \in 0 .. MaxTimeouts
    BY ExchangeAssumption
  <2> QED
    BY <2>1, Zenon DEF Init, Counters
<1>2. Core /\ Counters /\ [Next]_vars => (Core /\ Counters)'
  BY CoreNext, CountersNext, TypeIsCoreAndCounters
<1> QED
  BY <1>1, <1>2, CoreInit, PTL DEF Spec

(***************************************************************************)
(* Every variable keeps its type: a slot is free as a whole or in use as a *)
(* whole, and what a relay remembers is a slot.                            *)
(***************************************************************************)
THEOREM TypeCorrect == Spec => []TypeOK
BY CoreInvariant, TypeIsCoreAndCounters, PTL

(***************************************************************************)
(* A living asker's connection stays open in the remembered slot for as    *)
(* long as its answer is owed, for pools and numbers of connections of any *)
(* size, and whatever dies or times out around it.                         *)
(***************************************************************************)
THEOREM OwedAnswersAreKept == Spec => []OwedAnswersKept
<1>1. Core => OwedAnswersKept
  BY DEF Core
<1> QED
  BY CoreInvariant, <1>1, PTL

(***************************************************************************)
(* As long as no asker has died, each answer goes to the connection that   *)
(* asked for it, and no slot is found closed: the death of an asker is the *)
(* only way to a misdirected answer, a full pool the only way to a crash.  *)
(***************************************************************************)
Undisturbed ==
    /\ deaths = 0 => \A p \in Peers : peer[p] \notin Dead
    /\ AnswerToAsker /\ CrashOnlyWhenFull

LEMMA UndisturbedNext ==
    Core /\ Counters /\ Undisturbed /\ [Next]_vars => Undisturbed'
<1> SUFFICES ASSUME Core, Counters, Undisturbed, [Next]_vars
             PROVE  Undisturbed'
  OBVIOUS
<1>1. CASE UNCHANGED vars
  BY <1>1 DEF vars, Undisturbed, AnswerToAsker, CrashOnlyWhenFull, Dead, Slots
<1>2. CASE \E p \in Peers : PeerDies(p)
  BY <1>2 DEF PeerDies, Undisturbed, AnswerToAsker, CrashOnlyWhenFull, Counters
<1> SUFFICES ASSUME Next, ~UNCHANGED vars, \A p \in Peers : ~PeerDies(p), deaths' = 0
             PROVE  Undisturbed'
  BY <1>1, <1>2 DEF Undisturbed, AnswerToAsker, CrashOnlyWhenFull
<1>3. deaths = 0 /\ ~crashed
  BY DEF Next, Stopped, Knock, Accept, PeerReplies, PeerCloses, GivesUp,
         SetPeer, Ask, Handle, Answer, Notified, Relay, OwnReply, RelayReply,
         GoneEvent, WriteError, TimeoutEvent, IncomingEvent, OutgoingEvent
<1>4. \A p \in Peers : peer'[p] \notin Dead
  BY <1>3 DEF Undisturbed, Core, Dead, Next, vars, Stopped, Knock, Accept, PeerReplies,
         PeerCloses, GivesUp, SetPeer, Ask, Handle, Answer, Notified, Relay, OwnReply,
         RelayReply, Close, Left, GoneEvent, WriteError, TimeoutEvent, IncomingEvent,
         OutgoingEvent
<1>5. ASSUME NEW k \in Slots, RelayReply(k)
      PROVE  misled' = {} /\ ~crashed'
  <2>1. slot[k].use = "relay" /\ slot[k].asker \in Peers
    BY <1>5, SlotFacts DEF Core, RelayReply
  <2>2. peer[slot[k].asker] = "waits" /\ misled = {}
    BY <2>1, <1>3 DEF Undisturbed, Core, Owed, AnswerToAsker, Dead
  <2>3. slot[slot[k].back].peer = slot[k].asker
    BY <2>1, <2>2 DEF Core, OwedAnswersKept
  <2> QED
    BY <1>5, <2>1, <2>2, <2>3 DEF RelayReply
<1>6. ASSUME NEW use \in {"own", "check", "notif"}, NEW q \in Peers, Ask(use, q)
      PROVE  UNCHANGED misled /\ (crashed' => \A k \in Slots : slot'[k].peer # None)
  <2>1. net_empty_connection_slot = -1 => \A k \in Slots : slot[k].peer # None
    BY EmptyIsFull
  <2> QED
    BY <1>3, <1>6, <2>1 DEF Ask
<1>7. \/ UNCHANGED <<misled, crashed>>
      \/ \E k \in Slots : RelayReply(k)
      \/ \E use \in {"own", "check", "notif"}, q \in Peers : Ask(use, q)
  BY DEF Next, vars, Stopped, Knock, Accept, PeerReplies, PeerCloses, PeerDies, GivesUp,
         SetPeer, Handle, Answer, Notified, Relay, OwnReply,
         GoneEvent, WriteError, TimeoutEvent, IncomingEvent, OutgoingEvent
<1>8. misled' = {} /\ (crashed' => \A k \in Slots : slot'[k].peer # None)
  BY <1>3, <1>5, <1>6, <1>7 DEF Undisturbed, AnswerToAsker
<1> QED
  BY <1>4, <1>8 DEF Undisturbed, AnswerToAsker, CrashOnlyWhenFull

LEMMA UndisturbedInvariant == Spec => []Undisturbed
<1>1. Init => Undisturbed
  BY DEF Init, Undisturbed, AnswerToAsker, CrashOnlyWhenFull, Dead
<1> QED
  BY <1>1, UndisturbedNext, CoreInvariant, PTL DEF Spec

(* No answer goes astray before an asker has died, for pools of any size   *)
(* and whatever times out.                                                 *)
THEOREM AnswersReachTheirAskers == Spec => []AnswerToAsker
<1>1. Undisturbed => AnswerToAsker
  BY DEF Undisturbed
<1> QED
  BY UndisturbedInvariant, <1>1, PTL

(* No lookup passed on finds its asker's slot closed before an asker has   *)
(* died.                                                                   *)
THEOREM CrashesOnlyWhenFull == Spec => []CrashOnlyWhenFull
<1>1. Undisturbed => CrashOnlyWhenFull
  BY DEF Undisturbed
<1> QED
  BY UndisturbedInvariant, <1>1, PTL

-----------------------------------------------------------------------------
(***************************************************************************)
(* No lookup passed on is given up half way.  The other end of a lookup    *)
(* closes only when it has died: it would be "gone" after a notification,  *)
(* or once it had an answer of the node's.                                 *)
(***************************************************************************)
NoneGone ==
    \A k \in Slots :
        slot[k].use \in {"relay", "own", "check"} => peer[slot[k].peer] # "gone"

(* What a step can do to a slot that is used for an exchange of the node's *)
(* own after it: it was so before, or it has just been opened.             *)
LEMMA OutgoingStep ==
    ASSUME TypeOK, Core, Next, NEW k \in Slots,
           slot'[k].use \in {"relay", "own", "check"}
    PROVE  \/ slot'[k].use = slot[k].use /\ slot'[k].peer = slot[k].peer
           \/ slot'[k].peer \in Peers /\ peer'[slot'[k].peer] = "asked"
<1> USE DEF Free
<1>a. slot \in [Slots -> Slot] /\ peer \in [Peers -> PeerState]
  BY DEF Core
<1>1. CASE UNCHANGED slot
  BY <1>1
<1>2. ASSUME NEW p \in Peers, Accept(p)
      PROVE  slot' # slot => slot'[k] = slot[k]
  <2> DEFINE j == net_empty_connection_slot
  <2>1. CASE slot' = [slot EXCEPT ![j] = Opened(p, "incoming")]
    BY <1>a, <2>1 DEF Opened
  <2> QED
    BY <1>2, <2>1 DEF Accept
<1>3. ASSUME NEW use \in {"own", "check", "notif"}, NEW q \in Peers, Ask(use, q)
      PROVE  slot'[k] = slot[k] \/ (slot'[k].peer = q /\ peer'[q] = "asked")
  BY <1>a, <1>3 DEF Ask, Opened
<1>4. ASSUME NEW j \in Slots, NEW q \in Peers, Relay(j, q)
      PROVE  slot'[k] = slot[k] \/ (slot'[k].peer = q /\ peer'[q] = "asked")
  BY <1>a, <1>4 DEF Relay, Opened
<1>5. ASSUME NEW j \in Slots, \/ slot' = [slot EXCEPT ![j] = Free]
                             \/ slot' = [slot EXCEPT ![j].hears = FALSE]
      PROVE  slot'[k].use = slot[k].use /\ slot'[k].peer = slot[k].peer
  <2>1. slot'[k] = slot[k] \/ slot'[k] = Free \/ slot'[k] = [slot[k] EXCEPT !.hears = FALSE]
    BY <1>a, <1>5
  <2>2. slot[k].use # "free" => [slot[k] EXCEPT !.hears = FALSE].use = slot[k].use
                                /\ [slot[k] EXCEPT !.hears = FALSE].peer = slot[k].peer
    BY <1>a, DeafType
  <2>3. slot[k].use = "free" => [slot[k] EXCEPT !.hears = FALSE].use = "free"
    BY <1>a, SlotFacts
  <2>4. CASE slot'[k] = slot[k]
    BY <2>4
  <2>5. slot'[k] # Free
    OBVIOUS
  <2>6. CASE slot'[k] = [slot[k] EXCEPT !.hears = FALSE]
    BY <2>2, <2>3, <2>6
  <2> QED
    BY <2>1, <2>4, <2>5, <2>6
<1>6. ASSUME NEW j \in Slots, Handle(j) \/ WriteError(j) \/ TimeoutEvent(j)
      PROVE  \/ UNCHANGED slot
             \/ slot' = [slot EXCEPT ![j] = Free]
             \/ slot' = [slot EXCEPT ![j].hears = FALSE]
             \/ \E q \in Peers : Relay(j, q)
  BY <1>6 DEF Handle, Answer, Notified, OwnReply, RelayReply, GoneEvent, WriteError,
              TimeoutEvent, IncomingEvent, OutgoingEvent, Close
<1>7. \/ UNCHANGED slot
      \/ \E p \in Peers : Accept(p)
      \/ \E use \in {"own", "check", "notif"}, q \in Peers : Ask(use, q)
      \/ \E j \in Slots : Handle(j) \/ WriteError(j) \/ TimeoutEvent(j)
  BY DEF Next, vars, Stopped, Knock, PeerReplies, PeerCloses, PeerDies, GivesUp, SetPeer
<1> QED
  BY <1>1, <1>2, <1>3, <1>4, <1>5, <1>6, <1>7

(* Who is gone after a step was so before, or has just closed.             *)
LEMMA GoneStep ==
    ASSUME TypeOK, Core, Next, NEW p \in Peers, peer'[p] = "gone"
    PROVE  peer[p] = "gone" \/ PeerReplies(p) \/ PeerCloses(p)
BY DEF Core, Next, vars, Stopped, Knock, Accept, PeerReplies, PeerCloses, PeerDies, GivesUp,
       SetPeer, Ask, Handle, Answer, Notified, Relay, OwnReply, RelayReply, Close, Left,
       GoneEvent, WriteError, TimeoutEvent, IncomingEvent, OutgoingEvent

LEMMA NoneGoneNext == TypeOK /\ Core /\ NoneGone /\ [Next]_vars => NoneGone'
<1> SUFFICES ASSUME TypeOK, Core, NoneGone, Next, NEW k \in Slots,
                    slot'[k].use \in {"relay", "own", "check"},
                    peer'[slot'[k].peer] = "gone"
             PROVE  FALSE
  BY DEF NoneGone, vars
<1>1. slot'[k].use = slot[k].use /\ slot'[k].peer = slot[k].peer
  BY OutgoingStep
<1>2. slot[k].peer \in Peers
  BY <1>1, SlotFacts DEF Core, Outgoing
<1>3. peer[slot[k].peer] \in {"asked", "replied"} \cup Dead
  BY <1>1 DEF NoneGone, Core, Held, Outgoing
<1>4. PeerReplies(slot[k].peer)
  BY <1>1, <1>2, <1>3, GoneStep DEF PeerCloses, Dead
<1>5. "notif" \in UseOf(slot[k].peer)
  BY <1>1, <1>2, <1>4 DEF PeerReplies, SetPeer, Core
<1>6. PICK j \in Slots : slot[j].peer = slot[k].peer /\ slot[j].use = "notif"
  BY <1>5 DEF UseOf
<1>7. j = k
  BY <1>2, <1>6 DEF Core, Distinct, ExchangeAssumption
<1> QED
  BY <1>1, <1>6, <1>7

LEMMA NoneGoneInvariant == Spec => []NoneGone
<1>1. Init => NoneGone
  BY DEF Init, NoneGone, Free
<1> QED
  BY <1>1, NoneGoneNext, CoreInvariant, TypeIsCoreAndCounters, PTL DEF Spec

(***************************************************************************)
(* A lookup passed on ends with the answer to its asker, unless the node   *)
(* it was passed on to dies or is silent for too long: for pools of any    *)
(* size, and whatever dies or times out around it.                         *)
(***************************************************************************)
THEOREM LookupsAreFollowed == Spec => LookupsFollowed
<1> DEFINE Followed(k) ==
       /\ slot[k].use = "relay" /\ slot[k].hears
       /\ peer[slot[k].asker] = "waits" /\ slot[k].asker \notin misled
       => \/ slot'[k] = slot[k]
          \/ peer'[slot[k].asker] = "answered"
          \/ peer[slot[k].peer] \in Dead
          \/ timeouts' # timeouts
<1>1. ASSUME TypeOK, Core, NoneGone, [Next]_vars, NEW k \in Slots
      PROVE  Followed(k)
  <2> SUFFICES ASSUME slot[k].use = "relay", slot[k].hears,
                      peer[slot[k].asker] = "waits", slot[k].asker \notin misled,
                      slot'[k] # slot[k], peer[slot[k].peer] \notin Dead
               PROVE  peer'[slot[k].asker] = "answered" \/ timeouts' # timeouts
    OBVIOUS
  <2>a. slot \in [Slots -> Slot] /\ peer \in [Peers -> PeerState]
    BY <1>1 DEF Core
  <2>b. slot[k].peer \in Peers /\ slot[k].asker \in Peers /\ slot[k].peer # None
    BY <2>a, SlotFacts
  <2>c. slot[slot[k].back].peer = slot[k].asker
    BY <1>1 DEF Core, OwedAnswersKept
  <2>d. peer[slot[k].peer] \in {"asked", "replied"}
    BY <1>1 DEF Core, Held, NoneGone, Outgoing
  <2>1. CASE RelayReply(k)
    BY <2>1, <2>a, <2>b, <2>c, <2>d DEF RelayReply, Replied
  <2>2. CASE TimeoutEvent(k)
    BY <2>2, <1>1 DEF TimeoutEvent, TypeOK
  <2>3. ~GoneEvent(k) /\ ~WriteError(k)
    BY <2>d DEF GoneEvent, WriteError, Dead
  <2>4. ~Answer(k) /\ ~Notified(k) /\ ~OwnReply(k) /\ \A q \in Peers : ~Relay(k, q)
    BY DEF Answer, Notified, OwnReply, Relay, Reads
  <2>5. ~Handle(k) \/ RelayReply(k)
    BY <2>3, <2>4 DEF Handle
  <2>6. ASSUME NEW j \in Slots, j # k, Handle(j) \/ WriteError(j) \/ TimeoutEvent(j)
        PROVE  FALSE
    <3>1. ASSUME NEW q \in Peers, Relay(j, q)
          PROVE  slot'[k] = slot[k]
      BY <3>1, <1>1, <2>a, <2>b, EmptySlot DEF Relay, Free
    <3>2. ASSUME \A q \in Peers : ~Relay(j, q)
          PROVE  slot'[k] = slot[k]
      BY <2>6, <3>2, <2>a
      DEF Handle, Answer, Notified, OwnReply, RelayReply, GoneEvent, WriteError,
          TimeoutEvent, IncomingEvent, OutgoingEvent, Close
    <3> QED
      BY <3>1, <3>2
  <2>7. ASSUME NEW p \in Peers, Accept(p)
        PROVE  FALSE
    BY <2>7, <1>1, <2>a, <2>b, EmptySlot DEF Accept, Free
  <2>8. ASSUME NEW use \in {"own", "check", "notif"}, NEW q \in Peers, Ask(use, q)
        PROVE  FALSE
    BY <2>8, <1>1, <2>a, <2>b, EmptySlot DEF Ask, Free
  <2>9. \/ \E p \in Peers : Accept(p)
        \/ \E use \in {"own", "check", "notif"}, q \in Peers : Ask(use, q)
        \/ \E j \in Slots : Handle(j) \/ WriteError(j) \/ TimeoutEvent(j)
    BY <1>1 DEF Next, vars, Stopped, Knock, PeerReplies, PeerCloses, PeerDies, GivesUp,
                SetPeer
  <2> QED
    BY <2>1, <2>2, <2>3, <2>5, <2>6, <2>7, <2>8, <2>9
<1>2. TypeOK /\ Core /\ NoneGone /\ [Next]_vars
      => [\A k \in Slots : Followed(k)]_vars
  BY <1>1
<1> QED
  BY <1>2, NoneGoneInvariant, CoreInvariant, TypeIsCoreAndCounters, PTL
  DEF Spec, LookupsFollowed

-----------------------------------------------------------------------------
(***************************************************************************)
(* The callbacks of a node use its slots as the pool of AbstractPool.      *)
(***************************************************************************)

Holders == [k \in Slots |-> slot[k].peer]

LEMMA Leaves ==
    ASSUME Core, NEW k \in Slots, slot[k].peer # None, slot' = [slot EXCEPT ![k] = Free]
    PROVE  Pool!Next
<1>1. Holders' = [Holders EXCEPT ![k] = None]
  BY DEF Holders, Core, Free
<1>2. Pool!Leave(k)
  BY <1>1 DEF Pool!Leave, Holders
<1> QED
  BY <1>2 DEF Pool!Next

LEMMA Takes ==
    ASSUME Core, NEW k \in Slots, slot[k] = Free, NEW p \in Peers, NEW s, s.peer = p,
           peer[p] \in {"idle", "knocks"}, slot' = [slot EXCEPT ![k] = s]
    PROVE  Pool!Next
<1>1. slot \in [Slots -> Slot]
  BY DEF Core
<1>2. slot'[k] = s /\ \A j \in Slots \ {k} : slot'[j] = slot[j]
  BY <1>1
<1>3. \A j \in Slots : slot'[j].peer = IF j = k THEN p ELSE slot[j].peer
  BY <1>2
<1>4. Holders' = [j \in Slots |-> IF j = k THEN p ELSE slot[j].peer]
  BY <1>3 DEF Holders
<1>5. [Holders EXCEPT ![k] = p] = [j \in Slots |-> IF j = k THEN p ELSE slot[j].peer]
  BY DEF Holders
<1>6. slot[k].peer = None
  BY DEF Free
<1>7. Holders' = [Holders EXCEPT ![k] = p] /\ slot[k].peer = None
  BY <1>4, <1>5, <1>6
<1>8. \A j \in Slots : slot[j].peer # p
  <2> SUFFICES ASSUME NEW j \in Slots, slot[j].peer = p
               PROVE  FALSE
    OBVIOUS
  <2>1. slot[j].use = "incoming" \/ slot[j].use \in Outgoing
    BY SlotFacts DEF Core
  <2> QED
    BY <2>1 DEF Core, Held, Dead
<1>9. Pool!Take(k, p)
  BY <1>7, <1>8 DEF Pool!Take, Holders
<1> QED
  BY <1>9 DEF Pool!Next

LEMMA PoolHandle ==
    ASSUME TypeOK, Core, NEW k \in Slots, Handle(k) \/ WriteError(k) \/ TimeoutEvent(k)
    PROVE  Pool!Next \/ UNCHANGED Holders
<1>a. slot \in [Slots -> Slot]
  BY DEF Core
<1>1. ASSUME NEW q \in Peers, Relay(k, q)
      PROVE  Pool!Next \/ UNCHANGED Holders
  <2> DEFINE j == net_empty_connection_slot
             out == [Opened(q, "relay") EXCEPT !.back = k, !.asker = slot[k].peer]
  <2>1. CASE j = -1
    BY <1>1, <2>1 DEF Relay, Holders
  <2>2. CASE j # -1
    <3>1. j \in Slots /\ slot[j] = Free
      BY <2>2, EmptySlot
    <3>2. out.peer = q
      BY DEF Opened
    <3>3. slot' = [slot EXCEPT ![j] = out] /\ peer[q] = "idle"
      BY <1>1, <2>2 DEF Relay
    <3> HIDE DEF j, out
    <3> QED
      BY <3>1, <3>2, <3>3, Takes
  <2> QED
    BY <2>1, <2>2
<1>2. CASE slot' = [slot EXCEPT ![k] = Free] /\ slot[k].peer # None
  BY <1>2, Leaves
<1>3. CASE slot' = [slot EXCEPT ![k].hears = FALSE] /\ slot[k].use # "free"
  BY <1>a, <1>3, DeafType DEF Holders
<1>4. CASE UNCHANGED slot
  BY <1>4 DEF Holders
<1>5. slot[k].use # "free" <=> slot[k].peer # None
  BY <1>a, SlotFacts
<1>6. \/ UNCHANGED slot
      \/ slot' = [slot EXCEPT ![k] = Free] /\ slot[k].use # "free"
      \/ slot' = [slot EXCEPT ![k].hears = FALSE] /\ slot[k].use # "free"
      \/ \E q \in Peers : Relay(k, q)
  BY DEF Handle, Answer, Notified, OwnReply, RelayReply, GoneEvent, WriteError,
         TimeoutEvent, IncomingEvent, OutgoingEvent, Close, Reads
<1> QED
  BY <1>1, <1>2, <1>3, <1>4, <1>5, <1>6

LEMMA PoolStep == TypeOK /\ Core /\ [Next]_vars => [Pool!Next]_Holders
<1> SUFFICES ASSUME TypeOK, Core, [Next]_vars
             PROVE  Pool!Next \/ UNCHANGED Holders
  OBVIOUS
<1>1. CASE UNCHANGED slot
  BY <1>1 DEF Holders
<1>2. ASSUME NEW p \in Peers, Accept(p)
      PROVE  Pool!Next \/ UNCHANGED Holders
  <2> DEFINE k == net_empty_connection_slot
  <2>1. CASE k = -1
    BY <1>2, <2>1 DEF Accept, Holders
  <2>2. CASE k # -1
    <3>1. k \in Slots /\ slot[k] = Free
      BY <2>2, EmptySlot
    <3>2. Opened(p, "incoming").peer = p
      BY DEF Opened
    <3>3. slot' = [slot EXCEPT ![k] = Opened(p, "incoming")] /\ peer[p] = "knocks"
      BY <1>2, <2>2 DEF Accept
    <3> HIDE DEF k
    <3> QED
      BY <3>1, <3>2, <3>3, Takes
  <2> QED
    BY <2>1, <2>2
<1>3. ASSUME NEW use \in {"own", "check", "notif"}, NEW q \in Peers, Ask(use, q)
      PROVE  Pool!Next \/ UNCHANGED Holders
  <2> DEFINE k == net_empty_connection_slot
  <2>1. CASE k = -1
    BY <1>3, <2>1 DEF Ask, Holders
  <2>2. CASE k # -1
    <3>1. k \in Slots /\ slot[k] = Free
      BY <2>2, EmptySlot
    <3>2. Opened(q, use).peer = q
      BY DEF Opened
    <3>3. slot' = [slot EXCEPT ![k] = Opened(q, use)] /\ peer[q] = "idle"
      BY <1>3, <2>2 DEF Ask
    <3> HIDE DEF k
    <3> QED
      BY <3>1, <3>2, <3>3, Takes
  <2> QED
    BY <2>1, <2>2
<1>4. \/ UNCHANGED slot
      \/ \E p \in Peers : Accept(p)
      \/ \E use \in {"own", "check", "notif"}, q \in Peers : Ask(use, q)
      \/ \E k \in Slots : Handle(k) \/ WriteError(k) \/ TimeoutEvent(k)
  BY DEF Next, vars, Stopped, Knock, PeerReplies, PeerCloses, PeerDies, GivesUp, SetPeer
<1> QED
  BY <1>1, <1>2, <1>3, <1>4, PoolHandle

(* Every callback takes one empty slot, leaves one in use, or does         *)
(* neither, for pools of any size and whatever dies or times out.          *)
THEOREM ExchangesUsePool == Spec => ImplementsPool
<1>1. Init => Pool!Init
  BY DEF Init, Pool!Init, Free
<1>2. TypeOK /\ Core /\ [Next]_vars => [Pool!Next]_([k \in Slots |-> slot[k].peer])
  BY PoolStep DEF Holders
<1> QED
  BY <1>1, <1>2, CoreInvariant, TypeIsCoreAndCounters, PTL
  DEF Spec, ImplementsPool, Pool!Spec
=============================================================================
