--------------------------- MODULE ThreadsProofs ---------------------------
(***************************************************************************)
(* The connection pool under two threads is right for any size of the pool *)
(* and any number of connections: slots are neither shared nor lost,       *)
(* connections go to their own address or nowhere, bodies go astray only   *)
(* from connections that have ended, and nobody waits in a circle.         *)
(*                                                                         *)
(* A slot is taken under connections_lock, but closed under none.  So the  *)
(* invariant says, for each place a thread can be at, what it has of its   *)
(* slot: from the store of the bufferevent until it is forgotten the slot  *)
(* is the thread's alone, and afterwards it is anybody's, although the     *)
(* address is still to be wiped.                                           *)
(***************************************************************************)
EXTENDS Threads, TLAPS

USE ThreadsAssumption

-----------------------------------------------------------------------------
(***************************************************************************)
(* The invariant.                                                          *)
(***************************************************************************)

(* Where a thread has connections_lock, and where the bufferevent in the   *)
(* slot it is at is its own.                                               *)
Locking == {"scan", "store", "address", "unlock"}
Owning  == {"address", "unlock", "activate", "free", "forget"}

HasSuccs(t) == mine[t] # None /\ op[t].succs = "held" /\ pc[t] # "succs"

Locks ==
    \A t \in Threads :
        /\ connections_lock = t <=> pc[t] \in Locking
        /\ succs_lock = t <=> HasSuccs(t)

(* Only a callback of the loop closes a connection that it did not open.   *)
Purpose(t) ==
    /\ pc[t] = "idle" => mine[t] = None
    /\ mine[t] = None => \/ pc[t] = "idle"
                         \/ t = "loop" /\ pc[t] \in {"free", "forget", "wipe"}
    /\ mine[t] # None => op[t] \in Ops(t) /\ conn[mine[t]] # "none"

(* How far the connection is that a thread opens. *)
Opening(t) ==
    /\ pc[t] \in {"succs", "lock", "scan", "store"} => conn[mine[t]] = "begun"
    /\ pc[t] = "store" => bev[at[t]] = None
    /\ pc[t] \in Owning /\ mine[t] # None => bev[at[t]] = mine[t]
    /\ pc[t] \in {"address", "unlock", "activate"} => conn[mine[t]] = "made"
    /\ pc[t] \in {"unlock", "activate"} /\ op[t].use # "accept" =>
          sin[at[t]] \in {None, mine[t]}
    /\ pc[t] = "body" => \/ conn[mine[t]] = "closed"
                         \/ conn[mine[t]] = "open" /\ bev[at[t]] = mine[t]

(* What a thread closes. *)
Closing(t) ==
    /\ pc[t] \in {"free", "forget"} => bev[at[t]] # None
    /\ pc[t] = "free" =>
          conn[bev[at[t]]] = IF mine[t] = None THEN "open" ELSE "made"
    /\ pc[t] = "forget" => conn[bev[at[t]]] = "closed"

(* The threads do not meet: neither at a connection nor at a slot.         *)
Apart ==
    \A t, u \in Threads : t # u =>
        /\ mine[t] = mine[u] => mine[t] = None
        /\ pc[t] \in Owning /\ pc[u] \in Owning => at[t] # at[u]

(* Where connections are: each in one slot at most, from when it is made   *)
(* until it is closed.  One that is not open has a thread at its slot.     *)
Placed ==
    /\ \A j, k \in Slots : bev[j] = bev[k] /\ bev[j] # None => j = k
    /\ \A c \in Conns : conn[c] \in {"made", "open"} => \E k \in Slots : bev[k] = c
    /\ \A k \in Slots : bev[k] # None =>
          /\ conn[bev[k]] \notin {"none", "begun"}
          /\ \/ conn[bev[k]] = "open"
             \/ \E t \in Threads : pc[t] \in Owning /\ at[t] = k

Working == \A t \in Threads : Purpose(t) /\ Opening(t) /\ Closing(t)

Inv == TypeOK /\ Locks /\ Working /\ Apart /\ Placed /\ ConnectsHome /\ BodyHome

-----------------------------------------------------------------------------
(***************************************************************************)
(* Types.                                                                  *)
(***************************************************************************)

LEMMA Constants ==
    /\ 0 \in Slots /\ None \notin Conns /\ None \notin Threads
    /\ \A k \in Slots : k < MAX_OPEN_CONNECTIONS - 1 => k + 1 \in Slots
BY DEF Slots, Conns, Threads

LEMMA TypeInit == Init => TypeOK
BY Constants DEF Init, TypeOK

LEMMA ReturnType ==
    ASSUME TypeOK, NEW t \in Threads, Return(t)
    PROVE  /\ pc' \in [Threads -> {"idle", "succs", "lock", "scan", "store", "address",
                           "unlock", "activate", "body", "free", "forget", "wipe"}]
           /\ op' \in [Threads -> {None, Lookup, Message, Check, Update, Notify, Accept}]
           /\ mine' \in [Threads -> Conns \cup {None}]
           /\ at' \in [Threads -> Slots]
           /\ succs_lock' \in Threads \cup {None}
BY Constants DEF TypeOK, Return, Goto

LEMMA TypeStep ==
    ASSUME TypeOK, Working, [Next]_vars
    PROVE  TypeOK'
<1> USE DEF TypeOK, Goto
<1>1. ASSUME NEW t \in Threads, Begin(t)
      PROVE  TypeOK'
  BY <1>1 DEF Begin, Ops
<1>2. ASSUME NEW t \in Threads, LockSuccs(t) \/ LockPool(t) \/ UnlockPool(t)
      PROVE  TypeOK'
  <2>1. CASE LockSuccs(t)
    BY <2>1 DEF LockSuccs
  <2>2. CASE LockPool(t)
    BY <2>2, Constants DEF LockPool
  <2>3. CASE UnlockPool(t)
    BY <2>3 DEF UnlockPool
  <2> QED
    BY <1>2, <2>1, <2>2, <2>3
<1>3. ASSUME NEW t \in Threads, Scan(t)
      PROVE  TypeOK'
  <2>1. \/ at' = at
        \/ at' = [at EXCEPT ![t] = at[t] + 1] /\ at[t] + 1 \in Slots
    BY <1>3, Constants DEF Scan
  <2>2. at' \in [Threads -> Slots]
    BY <2>1
  <2> QED
    BY <1>3, <2>2 DEF Scan
<1>4. ASSUME NEW t \in Threads, GiveUp(t)
      PROVE  TypeOK'
  BY <1>4, ReturnType DEF GiveUp, Failed
<1>5. ASSUME NEW t \in Threads, StoreBev(t) \/ StoreSin(t) \/ ForgetBev(t)
      PROVE  TypeOK'
  BY <1>5 DEF StoreBev, StoreSin, ForgetBev, Working, Purpose
<1>6. ASSUME NEW t \in Threads, Enable(t) \/ WipeSin(t)
      PROVE  TypeOK'
  BY <1>6, ReturnType DEF Enable, WipeSin
<1>7. ASSUME NEW t \in Threads, Activate(t)
      PROVE  TypeOK'
  BY <1>7, ReturnType DEF Activate
<1>8. ASSUME NEW t \in Threads, FailToActivate(t)
      PROVE  TypeOK'
  BY <1>8 DEF FailToActivate, Failed
<1>9. ASSUME NEW t \in Threads, AddBody(t)
      PROVE  TypeOK'
  <2>1. mine[t] \in Conns
    BY <1>9 DEF AddBody, Working, Purpose
  <2>2. body' \in [Conns -> SUBSET Conns]
    BY <1>9, <2>1 DEF AddBody
  <2>3. fault' \in BOOLEAN
    BY <1>9 DEF AddBody
  <2> QED
    BY <1>9, <2>2, <2>3, ReturnType DEF AddBody
<1>10. ASSUME NEW k \in Slots, BeginClose(k)
       PROVE  TypeOK'
  BY <1>10 DEF BeginClose
<1>11. ASSUME NEW t \in Threads, FreeBev(t)
       PROVE  TypeOK'
  BY <1>11 DEF FreeBev
<1>12. CASE UNCHANGED vars
  BY <1>12 DEF vars
<1> QED
  BY <1>1, <1>2, <1>3, <1>4, <1>5, <1>6, <1>7, <1>8, <1>9, <1>10, <1>11, <1>12
  DEF Next, Continue

-----------------------------------------------------------------------------
(***************************************************************************)
(* Steps that take or release locks, or move on.                           *)
(***************************************************************************)

LEMMA BodiesKept ==
    ASSUME Inv, body' = body,
           \A d \in Conns : conn[d] = "closed" => conn'[d] = "closed"
    PROVE  BodyHome'
BY DEF Inv, TypeOK, BodyHome

(* The other threads are where they were. *)
OthersStay(t) ==
    \A u \in Threads \ {t} :
        pc'[u] = pc[u] /\ op'[u] = op[u] /\ mine'[u] = mine[u] /\ at'[u] = at[u]

LEMMA Returned ==
    ASSUME TypeOK, NEW t \in Threads, Return(t)
    PROVE  OthersStay(t) /\ pc'[t] = "idle" /\ mine'[t] = None
BY DEF TypeOK, Return, Goto, OthersStay

(* The slot of a thread that owns one is in use. *)
LEMMA OwnerThere ==
    ASSUME Inv, NEW u \in Threads, pc[u] \in Owning
    PROVE  bev[at[u]] # None
BY Constants DEF Inv, Working, Purpose, Opening, Closing, Owning

LEMMA BeginStep ==
    ASSUME Inv, TypeOK', NEW t \in Threads, Begin(t)
    PROVE  Inv'
<1> USE Constants DEF Inv
<1>1. PICK c \in Conns, o \in Ops(t) :
         /\ conn[c] = "none" /\ conn' = [conn EXCEPT ![c] = "begun"]
         /\ mine' = [mine EXCEPT ![t] = c] /\ op' = [op EXCEPT ![t] = o]
         /\ pc' = [pc EXCEPT ![t] = IF o.succs = "no" THEN "lock" ELSE "succs"]
  BY DEF Begin, Goto
<1>2. /\ pc[t] = "idle" /\ mine[t] = None
      /\ UNCHANGED <<bev, sin, body, connections_lock, succs_lock, at, fault>>
  BY DEF Begin, Working, Purpose
<1>3. \A u \in Threads \ {t} :
         pc'[u] = pc[u] /\ mine'[u] = mine[u] /\ op'[u] = op[u] /\ mine[u] # c
  BY <1>1 DEF TypeOK, Working, Purpose
<1>4. /\ pc'[t] = (IF o.succs = "no" THEN "lock" ELSE "succs")
      /\ mine'[t] = c /\ op'[t] = o
  BY <1>1 DEF TypeOK
<1>5. /\ conn'[c] = "begun" /\ \A d \in Conns \ {c} : conn'[d] = conn[d]
      /\ \A k \in Slots : bev[k] # c
  BY <1>1 DEF TypeOK, Placed
<1>6. o.succs = "no" => o.succs # "held"
  OBVIOUS
<1>7. Locks'
  BY <1>2, <1>3, <1>4, <1>6 DEF Locks, HasSuccs, Locking
<1>8. ASSUME NEW u \in Threads
      PROVE  (Purpose(u) /\ Opening(u) /\ Closing(u))'
  <2>1. CASE u = t
    BY <1>1, <1>2, <1>4, <1>5, <2>1 DEF Purpose, Opening, Closing, Owning
  <2>2. CASE u # t
    BY <1>2, <1>3, <1>5, <2>2 DEF Working, Purpose, Opening, Closing, Owning, TypeOK
  <2> QED
    BY <2>1, <2>2
<1>9. Apart'
  BY <1>2, <1>3, <1>4 DEF Apart, Owning
<1>10. Placed'
  BY <1>2, <1>3, <1>4, <1>5 DEF Placed, Owning, TypeOK
<1>11. ConnectsHome' /\ BodyHome'
  BY <1>1, <1>2, <1>5, BodiesKept DEF ConnectsHome
<1> QED
  BY <1>7, <1>8, <1>9, <1>10, <1>11 DEF Working

(* A thread that gives up, or is done with a connection, leaves no trace:  *)
(* the slot it was at is not its own any more.                             *)
LEMMA ReturnStep ==
    ASSUME Inv, TypeOK', NEW t \in Threads, Return(t), pc[t] \notin Owning,
           connections_lock' = IF pc[t] \in Locking THEN None ELSE connections_lock,
           UNCHANGED <<bev, conn>>,
           sin' = sin \/ sin' = [sin EXCEPT ![at[t]] = None],
           BodyHome'
    PROVE  Inv'
<1> USE Constants DEF Inv
<1>1. OthersStay(t) /\ pc'[t] = "idle" /\ mine'[t] = None
  BY Returned
<1>2. \A k \in Slots : sin'[k] \in {sin[k], None}
  BY DEF TypeOK
<1>3. Locks'
  <2>1. \A u \in Threads : connections_lock' = u <=> pc'[u] \in Locking
    BY <1>1 DEF Locks, OthersStay, Locking
  <2>2. succs_lock' = IF succs_lock = t THEN None ELSE succs_lock
    BY DEF Return
  <2>3. \A u \in Threads : succs_lock' = u <=> HasSuccs(u)'
    BY <1>1, <2>2 DEF Locks, OthersStay, HasSuccs
  <2> QED
    BY <2>1, <2>3 DEF Locks
<1>4. ASSUME NEW u \in Threads
      PROVE  (Purpose(u) /\ Opening(u) /\ Closing(u))'
  <2>1. CASE u = t
    BY <1>1, <2>1 DEF Purpose, Opening, Closing, Owning
  <2>2. CASE u # t
    BY <1>1, <1>2, <2>2 DEF OthersStay, Working, Purpose, Opening, Closing, TypeOK
  <2> QED
    BY <2>1, <2>2
<1>5. Apart'
  BY <1>1 DEF Apart, OthersStay, Owning
<1>6. Placed'
  BY <1>1 DEF Placed, OthersStay
<1> QED
  BY <1>3, <1>4, <1>5, <1>6 DEF Working, ConnectsHome

LEMMA LockSuccsStep ==
    ASSUME Inv, TypeOK', NEW t \in Threads, LockSuccs(t)
    PROVE  Inv'
<1> USE Constants DEF Inv
<1>1. /\ pc[t] = "succs" /\ succs_lock = None
      /\ succs_lock' = IF op[t].succs = "held" THEN t ELSE None
      /\ pc' = [pc EXCEPT ![t] = "lock"]
      /\ UNCHANGED <<bev, sin, conn, body, connections_lock, op, mine, at, fault>>
  BY DEF LockSuccs, Goto
<1>2. OthersStay(t) /\ pc'[t] = "lock"
  BY <1>1 DEF TypeOK, OthersStay
<1>3. Locks'
  BY <1>1, <1>2 DEF Locks, HasSuccs, Locking, OthersStay, Working, Purpose
<1>4. ASSUME NEW u \in Threads
      PROVE  (Purpose(u) /\ Opening(u) /\ Closing(u))'
  BY <1>1, <1>2 DEF OthersStay, Working, Purpose, Opening, Closing, Owning
<1>5. Apart' /\ Placed'
  BY <1>1, <1>2 DEF Apart, Placed, OthersStay, Owning
<1>6. ConnectsHome' /\ BodyHome'
  BY <1>1, BodiesKept DEF ConnectsHome
<1> QED
  BY <1>3, <1>4, <1>5, <1>6 DEF Working

LEMMA LockPoolStep ==
    ASSUME Inv, TypeOK', NEW t \in Threads, LockPool(t)
    PROVE  Inv'
<1> USE Constants DEF Inv
<1>1. /\ pc[t] = "lock" /\ connections_lock = None /\ connections_lock' = t
      /\ pc' = [pc EXCEPT ![t] = "scan"] /\ at' = [at EXCEPT ![t] = 0]
      /\ UNCHANGED <<bev, sin, conn, body, succs_lock, op, mine, fault>>
  BY DEF LockPool, Goto
<1>2. OthersStay(t) /\ pc'[t] = "scan"
  BY <1>1 DEF TypeOK, OthersStay
<1>3. Locks'
  BY <1>1, <1>2 DEF Locks, HasSuccs, Locking, OthersStay
<1>4. ASSUME NEW u \in Threads
      PROVE  (Purpose(u) /\ Opening(u) /\ Closing(u))'
  BY <1>1, <1>2 DEF OthersStay, Working, Purpose, Opening, Closing, Owning
<1>5. Apart' /\ Placed'
  BY <1>1, <1>2 DEF Apart, Placed, OthersStay, Owning
<1>6. ConnectsHome' /\ BodyHome'
  BY <1>1, BodiesKept DEF ConnectsHome
<1> QED
  BY <1>3, <1>4, <1>5, <1>6 DEF Working

(* A slot that is taken for its own is empty: nobody has lost it yet.      *)
LEMMA ScanStep ==
    ASSUME Inv, TypeOK', NEW t \in Threads, Scan(t)
    PROVE  Inv'
<1> USE Constants DEF Inv
<1>1. /\ pc[t] = "scan" /\ pc' \in {pc, [pc EXCEPT ![t] = "store"]}
      /\ \/ pc' = pc
         \/ bev[at[t]] = None /\ at' = at
      /\ at' \in {at, [at EXCEPT ![t] = at[t] + 1]}
      /\ UNCHANGED <<bev, sin, conn, body, connections_lock, succs_lock, op, mine, fault>>
  BY DEF Scan, Goto
<1>2. /\ OthersStay(t) /\ pc'[t] \in {"scan", "store"}
      /\ pc'[t] = "store" => bev[at'[t]] = None
  BY <1>1 DEF TypeOK, OthersStay
<1>3. Locks'
  BY <1>1, <1>2 DEF Locks, HasSuccs, Locking, OthersStay
<1>4. ASSUME NEW u \in Threads
      PROVE  (Purpose(u) /\ Opening(u) /\ Closing(u))'
  BY <1>1, <1>2 DEF OthersStay, Working, Purpose, Opening, Closing, Owning
<1>5. Apart' /\ Placed'
  BY <1>1, <1>2 DEF Apart, Placed, OthersStay, Owning
<1>6. ConnectsHome' /\ BodyHome'
  BY <1>1, BodiesKept DEF ConnectsHome
<1> QED
  BY <1>3, <1>4, <1>5, <1>6 DEF Working

LEMMA UnlockPoolStep ==
    ASSUME Inv, TypeOK', NEW t \in Threads, UnlockPool(t)
    PROVE  Inv'
<1> USE Constants DEF Inv
<1>1. /\ pc[t] = "unlock" /\ connections_lock' = None
      /\ pc' = [pc EXCEPT ![t] = "activate"]
      /\ UNCHANGED <<bev, sin, conn, body, succs_lock, op, mine, at, fault>>
  BY DEF UnlockPool, Goto
<1>2. OthersStay(t) /\ pc'[t] = "activate"
  BY <1>1 DEF TypeOK, OthersStay
<1>3. Locks'
  BY <1>1, <1>2 DEF Locks, HasSuccs, Locking, OthersStay
<1>4. ASSUME NEW u \in Threads
      PROVE  (Purpose(u) /\ Opening(u) /\ Closing(u))'
  BY <1>1, <1>2 DEF OthersStay, Working, Purpose, Opening, Closing, Owning
<1>5. Apart' /\ Placed'
  BY <1>1, <1>2 DEF Apart, Placed, OthersStay, Owning
<1>6. ConnectsHome' /\ BodyHome'
  BY <1>1, BodiesKept DEF ConnectsHome
<1> QED
  BY <1>3, <1>4, <1>5, <1>6 DEF Working

LEMMA FailToActivateStep ==
    ASSUME Inv, TypeOK', NEW t \in Threads, FailToActivate(t)
    PROVE  Inv'
<1> USE Constants DEF Inv
<1>1. /\ pc[t] = "activate" /\ pc' = [pc EXCEPT ![t] = "free"]
      /\ UNCHANGED <<bev, sin, conn, body, connections_lock, succs_lock, op, mine, at>>
  BY DEF FailToActivate, Goto
<1>2. OthersStay(t) /\ pc'[t] = "free"
  BY <1>1 DEF TypeOK, OthersStay
<1>3. Locks'
  BY <1>1, <1>2 DEF Locks, HasSuccs, Locking, OthersStay
<1>4. ASSUME NEW u \in Threads
      PROVE  (Purpose(u) /\ Opening(u) /\ Closing(u))'
  BY <1>1, <1>2 DEF OthersStay, Working, Purpose, Opening, Closing, Owning
<1>5. Apart' /\ Placed'
  BY <1>1, <1>2 DEF Apart, Placed, OthersStay, Owning
<1>6. ConnectsHome' /\ BodyHome'
  BY <1>1, BodiesKept DEF ConnectsHome
<1> QED
  BY <1>3, <1>4, <1>5, <1>6 DEF Working

(* The loop closes a connection that is open, so its slot is no thread's.  *)
LEMMA BeginCloseStep ==
    ASSUME Inv, TypeOK', NEW k \in Slots, BeginClose(k)
    PROVE  Inv'
<1> USE Constants DEF Inv
<1>1. /\ pc["loop"] = "idle" /\ bev[k] # None /\ conn[bev[k]] = "open"
      /\ pc' = [pc EXCEPT !["loop"] = "free"] /\ at' = [at EXCEPT !["loop"] = k]
      /\ UNCHANGED <<bev, sin, conn, body, connections_lock, succs_lock, op, mine, fault>>
  BY DEF BeginClose, Goto
<1>2. /\ OthersStay("loop") /\ pc'["loop"] = "free" /\ at'["loop"] = k
      /\ mine["loop"] = None /\ "loop" \in Threads
  BY <1>1 DEF TypeOK, OthersStay, Working, Purpose, Threads
<1>3. Locks'
  BY <1>1, <1>2 DEF Locks, HasSuccs, Locking, OthersStay
<1>4. ASSUME NEW u \in Threads
      PROVE  (Purpose(u) /\ Opening(u) /\ Closing(u))'
  BY <1>1, <1>2 DEF OthersStay, Working, Purpose, Opening, Closing, Owning
<1>5. \A u \in Threads \ {"loop"} : pc[u] \in Owning => at[u] # k
  BY <1>1 DEF Working, Purpose, Opening, Closing, Owning
<1>6. Apart'
  BY <1>1, <1>2, <1>5 DEF Apart, OthersStay, Owning
<1>7. Placed'
  BY <1>1, <1>2 DEF Placed, OthersStay, Owning
<1>8. ConnectsHome' /\ BodyHome'
  BY <1>1, BodiesKept DEF ConnectsHome
<1> QED
  BY <1>3, <1>4, <1>6, <1>7, <1>8 DEF Working

LEMMA GiveUpStep ==
    ASSUME Inv, TypeOK', NEW t \in Threads, GiveUp(t)
    PROVE  Inv'
<1>1. pc[t] = "scan" /\ connections_lock' = None /\ Return(t)
      /\ UNCHANGED <<bev, sin, conn, body>>
  BY DEF GiveUp
<1>2. BodyHome'
  BY <1>1, BodiesKept
<1> QED
  BY <1>1, <1>2, ReturnStep DEF Locking, Owning

-----------------------------------------------------------------------------
(***************************************************************************)
(* Steps that change a slot or a connection.                               *)
(***************************************************************************)

(* The thread that stores a bufferevent is the only one that scans, so the *)
(* slot is still empty.                                                    *)
LEMMA StoreBevStep ==
    ASSUME Inv, TypeOK', NEW t \in Threads, StoreBev(t)
    PROVE  Inv'
<1> USE Constants DEF Inv
<1> DEFINE c == mine[t]
           k == at[t]
<1>1. /\ pc[t] = "store" /\ bev[k] = None /\ c \in Conns /\ k \in Slots
      /\ conn[c] = "begun" /\ op[t] \in Ops(t)
      /\ bev' = [bev EXCEPT ![k] = c] /\ conn' = [conn EXCEPT ![c] = "made"]
      /\ pc' = [pc EXCEPT ![t] = IF op[t].use = "accept" THEN "unlock" ELSE "address"]
      /\ UNCHANGED <<sin, body, connections_lock, succs_lock, op, mine, at, fault>>
  BY DEF StoreBev, Goto, Working, Purpose, Opening, TypeOK
<1>2. /\ OthersStay(t) /\ pc'[t] \in {"unlock", "address"}
      /\ pc'[t] = "unlock" => op[t].use = "accept"
  BY <1>1 DEF TypeOK, OthersStay
<1>3. /\ bev'[k] = c /\ \A j \in Slots \ {k} : bev'[j] = bev[j]
      /\ conn'[c] = "made" /\ \A d \in Conns \ {c} : conn'[d] = conn[d]
      /\ \A j \in Slots : bev[j] # c
  BY <1>1 DEF TypeOK, Placed
<1>4. Locks'
  BY <1>1, <1>2 DEF Locks, HasSuccs, Locking, OthersStay
<1>5. \A u \in Threads \ {t} :
         /\ mine[u] # c /\ pc[u] # "store"
         /\ pc[u] \in Owning => at[u] # k
  <2> TAKE u \in Threads \ {t}
  <2>1. mine[u] # c
    BY <1>1 DEF Apart
  <2>2. pc[u] # "store"
    BY <1>1 DEF Locks, Locking
  <2>3. pc[u] \in Owning => bev[at[u]] # None
    BY OwnerThere
  <2> QED
    BY <1>1, <2>1, <2>2, <2>3
<1>6. ASSUME NEW u \in Threads
      PROVE  (Purpose(u) /\ Opening(u) /\ Closing(u))'
  <2>1. CASE u = t
    BY <1>1, <1>2, <1>3, <2>1 DEF Working, Purpose, Opening, Closing, Owning
  <2>2. CASE u # t
    <3>0. at[u] \in Slots /\ mine[u] \in Conns \cup {None}
      BY DEF TypeOK
    <3>1. /\ pc'[u] = pc[u] /\ op'[u] = op[u] /\ mine'[u] = mine[u] /\ at'[u] = at[u]
          /\ mine[u] # c /\ pc[u] # "store"
      BY <1>2, <1>5, <2>2 DEF OthersStay
    <3>2. bev[at[u]] # None => bev'[at[u]] = bev[at[u]]
      BY <1>1, <1>3, <3>0, <3>1
    <3>3. Purpose(u)'
      BY <1>1, <1>3, <3>0, <3>1 DEF Working, Purpose
    <3>4. Opening(u)'
      <4>1. /\ Opening(u) /\ Purpose(u)
            /\ mine[u] # None => conn'[mine[u]] = conn[mine[u]]
        BY <1>3, <3>0, <3>1 DEF Working
      <4>2. sin' = sin
        BY <1>1
      <4> QED
        BY <3>1, <3>2, <4>1, <4>2 DEF Purpose, Opening, Owning
    <3>5. Closing(u)'
      BY <1>1, <1>3, <3>0, <3>1, <3>2 DEF Working, Closing, TypeOK
    <3> QED
      BY <3>3, <3>4, <3>5
  <2> QED
    BY <2>1, <2>2
<1>7. Apart'
  BY <1>1, <1>2, <1>5 DEF Apart, OthersStay, Owning
<1>8. Placed'
  BY <1>1, <1>2, <1>3 DEF Placed, OthersStay, Owning, TypeOK
<1>9. ConnectsHome' /\ BodyHome'
  BY <1>1, <1>3, BodiesKept DEF ConnectsHome
<1> QED
  BY <1>4, <1>6, <1>7, <1>8, <1>9 DEF Working

(***************************************************************************)
(* What a thread is at is left alone by the steps of another that change   *)
(* connection c and neither its connection nor its slot.                   *)
(***************************************************************************)
LEMMA OtherKept ==
    ASSUME Inv, NEW t \in Threads, NEW u \in Threads \ {t}, OthersStay(t), NEW c,
           mine[u] # c, pc[u] \in {"free", "forget"} => bev[at[u]] # c,
           \A d \in Conns \ {c} : conn'[d] = conn[d],
           bev'[at[u]] = bev[at[u]], sin'[at[u]] \in {sin[at[u]], None}
    PROVE  Purpose(u)' /\ Opening(u)' /\ Closing(u)'
<1> USE Constants DEF Inv
<1>1. pc'[u] = pc[u] /\ op'[u] = op[u] /\ mine'[u] = mine[u] /\ at'[u] = at[u]
  BY DEF OthersStay
<1>2. /\ Purpose(u) /\ Opening(u) /\ Closing(u)
      /\ bev[at[u]] \in Conns \cup {None} /\ mine[u] \in Conns \cup {None}
  BY DEF Working, TypeOK
<1>3. mine[u] # None => conn'[mine[u]] = conn[mine[u]]
  BY <1>2
<1>4. Purpose(u)'
  BY <1>1, <1>2, <1>3 DEF Purpose
<1>5. Opening(u)'
  BY <1>1, <1>2, <1>3 DEF Purpose, Opening, Owning
<1>6. Closing(u)'
  BY <1>1, <1>2 DEF Closing
<1> QED
  BY <1>4, <1>5, <1>6

LEMMA StoreSinStep ==
    ASSUME Inv, TypeOK', NEW t \in Threads, StoreSin(t)
    PROVE  Inv'
<1> USE Constants DEF Inv
<1>1. /\ pc[t] = "address" /\ pc' = [pc EXCEPT ![t] = "unlock"]
      /\ sin' = [sin EXCEPT ![at[t]] = mine[t]]
      /\ UNCHANGED <<bev, conn, body, connections_lock, succs_lock, op, mine, at, fault>>
  BY DEF StoreSin, Goto
<1>2. OthersStay(t) /\ pc'[t] = "unlock" /\ sin'[at[t]] = mine[t]
  BY <1>1 DEF TypeOK, OthersStay
<1>3. Locks'
  BY <1>1, <1>2 DEF Locks, HasSuccs, Locking, OthersStay
<1>4. ASSUME NEW u \in Threads
      PROVE  (Purpose(u) /\ Opening(u) /\ Closing(u))'
  <2>1. CASE u = t
    BY <1>1, <1>2, <2>1 DEF Working, Purpose, Opening, Closing, Owning
  <2>2. CASE u # t
    <3>1. pc[u] \in {"unlock", "activate"} => at[u] # at[t]
      BY <1>1, <2>2 DEF Apart, Owning
    <3>2. pc[u] \in {"unlock", "activate"} => sin'[at[u]] = sin[at[u]]
      BY <1>1, <3>1 DEF TypeOK
    <3> QED
      BY <1>1, <1>2, <2>2, <3>2 DEF OthersStay, Working, Purpose, Opening, Closing, Owning
  <2> QED
    BY <2>1, <2>2
<1>5. Apart' /\ Placed'
  BY <1>1, <1>2 DEF Apart, Placed, OthersStay, Owning
<1>6. ConnectsHome' /\ BodyHome'
  BY <1>1, BodiesKept DEF ConnectsHome
<1> QED
  BY <1>3, <1>4, <1>5, <1>6 DEF Working

(* A connection that is open needs no thread any more. *)
LEMMA OpenStep ==
    ASSUME Inv, TypeOK', NEW t \in Threads, pc[t] = "activate",
           conn' = [conn EXCEPT ![mine[t]] = "open"],
           \/ Return(t)
           \/ Goto(t, "body") /\ UNCHANGED <<op, mine, at, succs_lock>>,
           UNCHANGED <<bev, sin, body, connections_lock>>
    PROVE  Inv'
<1> USE Constants DEF Inv
<1> DEFINE c == mine[t]
<1>1. /\ c \in Conns /\ conn[c] = "made" /\ bev[at[t]] = c /\ op[t] \in Ops(t)
      /\ conn'[c] = "open" /\ \A d \in Conns \ {c} : conn'[d] = conn[d]
  BY DEF Working, Purpose, Opening, Owning, TypeOK
<1>2. /\ OthersStay(t)
      /\ \/ pc'[t] = "idle" /\ mine'[t] = None
         \/ pc'[t] = "body" /\ mine'[t] = c /\ at'[t] = at[t] /\ op'[t] = op[t]
  <2>1. CASE Return(t)
    BY <2>1, Returned
  <2>2. CASE Goto(t, "body") /\ UNCHANGED <<op, mine, at, succs_lock>>
    BY <2>2 DEF Goto, OthersStay, TypeOK
  <2> QED
    BY <2>1, <2>2
<1>3. Locks'
  <2>1. \A u \in Threads : connections_lock' = u <=> pc'[u] \in Locking
    BY <1>2 DEF Locks, OthersStay, Locking
  <2>2. succs_lock' = IF pc'[t] = "idle" /\ succs_lock = t THEN None ELSE succs_lock
    BY <1>2 DEF Return, Goto, TypeOK
  <2>3. \A u \in Threads : succs_lock' = u <=> HasSuccs(u)'
    BY <1>2, <2>2 DEF Locks, OthersStay, HasSuccs
  <2> QED
    BY <2>1, <2>3 DEF Locks
<1>4. ASSUME NEW u \in Threads
      PROVE  (Purpose(u) /\ Opening(u) /\ Closing(u))'
  <2>1. CASE u = t
    BY <1>1, <1>2, <2>1 DEF Purpose, Opening, Closing, Owning
  <2>2. CASE u # t
    <3>1. mine[u] # c
      BY <1>1, <2>2 DEF Apart
    <3>2. pc[u] \in {"free", "forget"} => bev[at[u]] # c
      BY <1>1, <2>2, OwnerThere DEF Apart, Placed, Owning, TypeOK
    <3> QED
      BY <1>1, <1>2, <2>2, <3>1, <3>2, OtherKept
  <2> QED
    BY <2>1, <2>2
<1>5. Apart'
  BY <1>2 DEF Apart, OthersStay, Owning
<1>6. Placed'
  BY <1>1, <1>2 DEF Placed, OthersStay, TypeOK
<1>7. ConnectsHome' /\ BodyHome'
  BY <1>1, BodiesKept DEF ConnectsHome
<1> QED
  BY <1>3, <1>4, <1>5, <1>6, <1>7 DEF Working

(* The address in its slot is its own: nobody else stored one there.       *)
LEMMA ActivateStep ==
    ASSUME Inv, TypeOK', NEW t \in Threads, Activate(t)
    PROVE  Inv'
<1>1. /\ pc[t] = "activate" /\ sin[at[t]] # None /\ op[t].use # "accept"
      /\ conn' = [conn EXCEPT ![mine[t]] =
                    IF sin[at[t]] = mine[t] THEN "open" ELSE "astray"]
      /\ \/ Return(t)
         \/ Goto(t, "body") /\ UNCHANGED <<op, mine, at, succs_lock>>
      /\ UNCHANGED <<bev, sin, body, connections_lock>>
  BY DEF Activate
<1>2. sin[at[t]] = mine[t]
  BY <1>1 DEF Inv, Working, Opening
<1> QED
  BY <1>1, <1>2, OpenStep

LEMMA EnableStep ==
    ASSUME Inv, TypeOK', NEW t \in Threads, Enable(t)
    PROVE  Inv'
BY OpenStep DEF Enable

(* The body goes to its own connection, or that one has ended.             *)
LEMMA AddBodyStep ==
    ASSUME Inv, TypeOK', NEW t \in Threads, AddBody(t)
    PROVE  Inv'
<1> USE Constants DEF Inv
<1> DEFINE c == bev[at[t]]
<1>1. /\ pc[t] = "body" /\ Return(t) /\ UNCHANGED <<bev, sin, conn, connections_lock>>
      /\ \/ body' = body
         \/ /\ c \in Conns /\ conn[c] # "closed"
            /\ body' = [body EXCEPT ![c] = body[c] \cup {mine[t]}]
  BY DEF AddBody, TypeOK
<1>2. mine[t] # c => conn[mine[t]] = "closed"
  BY <1>1 DEF Working, Opening
<1>3. BodyHome'
  BY <1>1, <1>2 DEF BodyHome, TypeOK
<1> QED
  BY <1>1, <1>3, ReturnStep DEF Owning, Locking

(***************************************************************************)
(* What is freed is a connection that was answered or has ended, or that   *)
(* could not be activated.  The other thread may still have a body for it. *)
(***************************************************************************)
LEMMA FreeBevStep ==
    ASSUME Inv, TypeOK', NEW t \in Threads, FreeBev(t)
    PROVE  Inv'
<1> USE Constants DEF Inv
<1> DEFINE c == bev[at[t]]
<1>1. /\ pc[t] = "free" /\ pc' = [pc EXCEPT ![t] = "forget"]
      /\ conn' = [conn EXCEPT ![c] = "closed"]
      /\ UNCHANGED <<bev, sin, body, connections_lock, succs_lock, op, mine, at, fault>>
  BY DEF FreeBev, Goto
<1>2. /\ c \in Conns /\ conn[c] = IF mine[t] = None THEN "open" ELSE "made"
      /\ mine[t] # None => c = mine[t]
  BY <1>1 DEF Working, Closing, Opening, Owning, TypeOK
<1>3. /\ OthersStay(t) /\ pc'[t] = "forget"
      /\ conn'[c] = "closed" /\ \A d \in Conns \ {c} : conn'[d] = conn[d]
  BY <1>1, <1>2 DEF TypeOK, OthersStay
<1>4. Locks'
  BY <1>1, <1>3 DEF Locks, HasSuccs, Locking, OthersStay
<1>5. ASSUME NEW u \in Threads
      PROVE  (Purpose(u) /\ Opening(u) /\ Closing(u))'
  <2>1. CASE u = t
    BY <1>1, <1>2, <1>3, <2>1 DEF Working, Purpose, Opening, Closing, Owning
  <2>2. CASE u # t
    <3>1. pc[u] \in {"free", "forget"} => bev[at[u]] # c
      BY <1>1, <2>2, OwnerThere DEF Apart, Placed, Owning, TypeOK
    <3>2. CASE mine[u] # c
      BY <1>1, <1>3, <2>2, <3>1, <3>2, OtherKept
    <3>3. CASE mine[u] = c
      <4>1. conn[c] = "open"
        BY <1>2, <2>2, <3>3 DEF Apart
      <4>2. pc[u] \in {"body", "wipe"}
        BY <1>2, <3>1, <3>3, <4>1 DEF Working, Purpose, Opening, Closing, Owning, TypeOK
      <4> QED
        BY <1>1, <1>3, <2>2, <3>3, <4>2
        DEF OthersStay, Working, Purpose, Opening, Closing, Owning
    <3> QED
      BY <3>2, <3>3
  <2> QED
    BY <2>1, <2>2
<1>6. Apart'
  BY <1>1, <1>3 DEF Apart, OthersStay, Owning
<1>7. Placed'
  BY <1>1, <1>2, <1>3 DEF Placed, OthersStay, Owning, TypeOK
<1>8. ConnectsHome' /\ BodyHome'
  BY <1>1, <1>2, <1>3, BodiesKept DEF ConnectsHome
<1> QED
  BY <1>4, <1>5, <1>6, <1>7, <1>8 DEF Working

(* The slot is free for others before its address is wiped. *)
LEMMA ForgetBevStep ==
    ASSUME Inv, TypeOK', NEW t \in Threads, ForgetBev(t)
    PROVE  Inv'
<1> USE Constants DEF Inv
<1> DEFINE k == at[t]
<1>1. /\ pc[t] = "forget" /\ pc' = [pc EXCEPT ![t] = "wipe"]
      /\ bev' = [bev EXCEPT ![k] = None]
      /\ UNCHANGED <<sin, conn, body, connections_lock, succs_lock, op, mine, at, fault>>
  BY DEF ForgetBev, Goto
<1>2. /\ k \in Slots /\ bev[k] \in Conns /\ conn[bev[k]] = "closed"
  BY <1>1 DEF Working, Closing, TypeOK
<1>3. /\ OthersStay(t) /\ pc'[t] = "wipe"
      /\ bev'[k] = None /\ \A j \in Slots \ {k} : bev'[j] = bev[j]
  BY <1>1, <1>2 DEF TypeOK, OthersStay
<1>4. Locks'
  BY <1>1, <1>3 DEF Locks, HasSuccs, Locking, OthersStay
<1>5. ASSUME NEW u \in Threads
      PROVE  (Purpose(u) /\ Opening(u) /\ Closing(u))'
  <2>1. CASE u = t
    BY <1>1, <1>3, <2>1 DEF Working, Purpose, Opening, Closing, Owning
  <2>2. CASE u # t
    <3>1. pc[u] \in Owning => at[u] # k
      BY <1>1, <2>2 DEF Apart, Owning
    <3>2. CASE at[u] # k
      <4>1. bev'[at[u]] = bev[at[u]]
        BY <1>3, <3>2 DEF TypeOK
      <4> QED
        BY <1>1, <1>3, <2>2, <4>1
        DEF OthersStay, Working, Purpose, Opening, Closing, Owning
    <3>3. CASE at[u] = k
      <4>1. bev[at[u]] # None /\ bev'[at[u]] = None /\ conn[bev[at[u]]] = "closed"
        BY <1>2, <1>3, <3>3
      <4> QED
        BY <1>1, <1>3, <2>2, <3>1, <3>3, <4>1
        DEF OthersStay, Working, Purpose, Opening, Closing, Owning
    <3> QED
      BY <3>2, <3>3
  <2> QED
    BY <2>1, <2>2
<1>6. Apart'
  BY <1>1, <1>3 DEF Apart, OthersStay, Owning
<1>7. Placed'
  BY <1>1, <1>2, <1>3 DEF Placed, OthersStay, Owning, TypeOK
<1>8. ConnectsHome' /\ BodyHome'
  BY <1>1, BodiesKept DEF ConnectsHome
<1> QED
  BY <1>4, <1>5, <1>6, <1>7, <1>8 DEF Working

LEMMA WipeSinStep ==
    ASSUME Inv, TypeOK', NEW t \in Threads, WipeSin(t)
    PROVE  Inv'
<1>1. /\ pc[t] = "wipe" /\ sin' = [sin EXCEPT ![at[t]] = None] /\ Return(t)
      /\ UNCHANGED <<bev, conn, body, connections_lock>>
  BY DEF WipeSin
<1>2. BodyHome'
  BY <1>1, BodiesKept
<1> QED
  BY <1>1, <1>2, ReturnStep DEF Owning, Locking

-----------------------------------------------------------------------------
(***************************************************************************)
(* The specification.                                                      *)
(***************************************************************************)

LEMMA InitInv == Init => Inv
<1> SUFFICES ASSUME Init
             PROVE  Inv
  OBVIOUS
<1>1. /\ \A t \in Threads : pc[t] = "idle" /\ mine[t] = None
      /\ \A k \in Slots : bev[k] = None
      /\ \A c \in Conns : conn[c] = "none" /\ body[c] = {}
      /\ connections_lock = None /\ succs_lock = None
  BY DEF Init
<1>2. Locks
  BY <1>1, Constants DEF Locks, HasSuccs, Locking
<1>3. Working
  BY <1>1 DEF Working, Purpose, Opening, Closing, Owning
<1>4. Apart /\ Placed /\ ConnectsHome /\ BodyHome
  BY <1>1 DEF Apart, Placed, Owning, ConnectsHome, BodyHome
<1> QED
  BY <1>2, <1>3, <1>4, TypeInit DEF Inv

LEMMA NextInv == Inv /\ [Next]_vars => Inv'
<1> SUFFICES ASSUME Inv, [Next]_vars
             PROVE  Inv'
  OBVIOUS
<1>0. TypeOK'
  BY TypeStep DEF Inv
<1>1. ASSUME NEW t \in Threads, Begin(t)
      PROVE  Inv'
  BY <1>0, <1>1, BeginStep
<1>2. ASSUME NEW t \in Threads, Continue(t)
      PROVE  Inv'
  <2>1. CASE LockSuccs(t) \/ LockPool(t) \/ Scan(t) \/ GiveUp(t) \/ UnlockPool(t)
    BY <1>0, <2>1, LockSuccsStep, LockPoolStep, ScanStep, GiveUpStep, UnlockPoolStep
  <2>2. CASE StoreBev(t) \/ StoreSin(t) \/ Enable(t) \/ Activate(t) \/ AddBody(t)
    BY <1>0, <2>2, StoreBevStep, StoreSinStep, EnableStep, ActivateStep, AddBodyStep
  <2>3. CASE FailToActivate(t) \/ FreeBev(t) \/ ForgetBev(t) \/ WipeSin(t)
    BY <1>0, <2>3, FailToActivateStep, FreeBevStep, ForgetBevStep, WipeSinStep
  <2> QED
    BY <1>2, <2>1, <2>2, <2>3 DEF Continue
<1>3. ASSUME NEW k \in Slots, BeginClose(k)
      PROVE  Inv'
  BY <1>0, <1>3, BeginCloseStep
<1>4. CASE UNCHANGED vars
  BY <1>4
  DEF vars, Inv, TypeOK, Locks, HasSuccs, Working, Purpose, Opening, Closing, Apart, Placed,
      ConnectsHome, BodyHome
<1> QED
  BY <1>1, <1>2, <1>3, <1>4 DEF Next

LEMMA Invariance == Spec => []Inv
BY InitInv, NextInv, PTL DEF Spec

(***************************************************************************)
(* The variables keep their types, for every size of the pool and number   *)
(* of connections: no thread looks past the end of connections[].          *)
(***************************************************************************)
THEOREM TypeCorrect == Spec => []TypeOK
<1>1. Inv => TypeOK
  BY DEF Inv
<1> QED
  BY <1>1, Invariance, PTL

(***************************************************************************)
(* Slots are neither shared nor lost, and no slot keeps a bufferevent that *)
(* was freed once its thread is done (net_connection_close).               *)
(***************************************************************************)
THEOREM SlotsAreOwned == Spec => []OwnSlot
<1>1. Inv => OwnSlot
  <2> SUFFICES ASSUME Inv
               PROVE  OwnSlot
    OBVIOUS
  <2>1. ASSUME NEW c \in Conns, conn[c] \in {"made", "open"}
        PROVE  \E k \in Slots : \A j \in Slots : bev[j] = c <=> j = k
    <3>1. PICK k \in Slots : bev[k] = c
      BY <2>1 DEF Inv, Placed
    <3>2. \A j \in Slots : bev[j] = c => j = k
      BY <3>1, Constants DEF Inv, Placed
    <3> QED
      BY <3>1, <3>2
  <2>2. ASSUME NEW k \in Slots, bev[k] # None
        PROVE  \/ conn[bev[k]] = "open"
               \/ \E t \in Threads : pc[t] # "idle" /\ at[t] = k
    BY <2>2 DEF Inv, Placed, Owning
  <2> QED
    BY <2>1, <2>2 DEF OwnSlot
<1> QED
  BY <1>1, Invariance, PTL

(***************************************************************************)
(* No connection goes to the address of another, although addresses are    *)
(* wiped from slots that have been taken again.                            *)
(***************************************************************************)
THEOREM ConnectionsGoHome == Spec => []ConnectsHome
<1>1. Inv => ConnectsHome
  BY DEF Inv
<1> QED
  BY <1>1, Invariance, PTL

(***************************************************************************)
(* A body written after activation goes to another connection only when    *)
(* its own has ended (node_connect_and_send_message and its callers).      *)
(***************************************************************************)
THEOREM BodiesStray == Spec => []BodyHome
<1>1. Inv => BodyHome
  BY DEF Inv
<1> QED
  BY <1>1, Invariance, PTL

(***************************************************************************)
(* Nobody waits in a circle for succs_lock and connections_lock.           *)
(***************************************************************************)
THEOREM LocksInOrder == Spec => []LocksOrdered
<1>1. Inv => LocksOrdered
  <2> SUFFICES ASSUME Inv
               PROVE  LocksOrdered
    OBVIOUS
  <2>1. connections_lock \in Threads \cup {None} /\ succs_lock \in Threads \cup {None}
    BY DEF Inv, TypeOK
  <2>2. connections_lock # None => pc[connections_lock] \in Locking
    BY <2>1 DEF Inv, Locks
  <2>3. succs_lock # None => pc[succs_lock] \notin {"idle", "succs"}
    BY <2>1 DEF Inv, Locks, HasSuccs, Working, Purpose
  <2> QED
    BY <2>2, <2>3 DEF LocksOrdered, Locking
<1> QED
  BY <1>1, Invariance, PTL

(***************************************************************************)
(* The pool of the code implements the pool of AbstractPool, for any size  *)
(* and any number of connections.  Only two stores count, that of a        *)
(* bufferevent and that of the null pointer: at the first the slot is      *)
(* still empty, and its connection is in no other.                         *)
(***************************************************************************)
LEMMA PoolStep == Inv /\ [Next]_vars => [Pool!Next]_bev
<1> SUFFICES ASSUME Inv, Next
             PROVE  [Pool!Next]_bev
  BY DEF vars
<1>1. ASSUME NEW t \in Threads, StoreBev(t)
      PROVE  Pool!Next
  <2>1. /\ mine[t] \in Conns /\ at[t] \in Slots
        /\ bev[at[t]] = None /\ conn[mine[t]] = "begun"
    BY <1>1 DEF StoreBev, Inv, TypeOK, Working, Purpose, Opening
  <2>2. \A j \in Slots : bev[j] # mine[t]
    BY <2>1, Constants DEF Inv, Placed
  <2>3. Pool!Take(at[t], mine[t])
    BY <1>1, <2>1, <2>2 DEF StoreBev, Pool!Take
  <2> QED
    BY <2>1, <2>3 DEF Pool!Next
<1>2. ASSUME NEW t \in Threads, ForgetBev(t)
      PROVE  Pool!Next
  <2>1. at[t] \in Slots /\ bev[at[t]] # None
    BY <1>2 DEF ForgetBev, Inv, TypeOK, Working, Closing
  <2>2. Pool!Leave(at[t])
    BY <1>2, <2>1 DEF ForgetBev, Pool!Leave
  <2> QED
    BY <2>1, <2>2 DEF Pool!Next
<1>3. ASSUME NEW t \in Threads, Begin(t)
      PROVE  UNCHANGED bev
  BY <1>3 DEF Begin
<1>4. ASSUME NEW t \in Threads, Continue(t), ~StoreBev(t), ~ForgetBev(t)
      PROVE  UNCHANGED bev
  BY <1>4 DEF Continue, LockSuccs, LockPool, Scan, GiveUp, StoreSin, UnlockPool, Enable,
              Activate, FailToActivate, AddBody, FreeBev, WipeSin
<1>5. ASSUME NEW k \in Slots, BeginClose(k)
      PROVE  UNCHANGED bev
  BY <1>5 DEF BeginClose
<1> QED
  BY <1>1, <1>2, <1>3, <1>4, <1>5 DEF Next

(* Opening and closing, step by step and partly without the lock, are one  *)
(* step each for whoever knows slots by number.                            *)
THEOREM PoolImplements == Spec => ImplementsPool
<1>1. Init => Pool!Init
  BY DEF Init, Pool!Init
<1> QED
  BY <1>1, PoolStep, Invariance, PTL DEF Spec, ImplementsPool, Pool!Spec
=============================================================================
