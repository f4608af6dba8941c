--------------------------- MODULE NativeIdsProofs ----------------------------
(***************************************************************************)
(* That each store keeps to its own slots, proved for any number of        *)
(* stores, any memory and any RESERVED_ID.  Inv is the inductive           *)
(* invariant: types (TypeOK), the ids of the stores that exist (StoreInv), *)
(* the memory that belongs to none (MemoryInv), what the Ids in            *)
(* circulation name (IdInv), the guards (GuardInv) and the queues          *)
(* (QueuesOwnSlots).                                                       *)
(***************************************************************************)
EXTENDS NativeIds, SequenceTheorems, TLAPS

\* The types of the state.
TypeOK ==
    /\ NEXT_RWSTORE_ID \in Nat
    /\ Live \subseteq Stores
    /\ store_id \in [Live -> Nat]
    /\ owner \in [Addresses -> Live \cup {NoStore}]
    /\ header \in [Addresses -> [id : Nat, occupied : BOOLEAN, locked : BOOLEAN]]
    /\ erasures \in [Live -> Seq(Addresses)]
    /\ ids \subseteq [ordinal : Nat, slot_address : Addresses, store_id : Nat]
    /\ guards \subseteq ids

\* No two stores that exist have the same id, and the counter is past them all.
StoreInv ==
    /\ \A s \in Live : store_id[s] < NEXT_RWSTORE_ID
    /\ \A s, r \in Live : store_id[s] = store_id[r] => s = r

\* Memory that belongs to no store is as Block::new will find it: its ordinals
\* begin again.
MemoryInv == \A a \in Addresses : owner[a] = NoStore => header[a] = NewHeader

\* An Id that passes the check of store s is in the memory of s, has an ordinal
\* that its slot has reached, and names an element if the slot is still there.
Named(s, id) ==
    /\ owner[id.slot_address] = s
    /\ id.ordinal <= header[id.slot_address].id
    /\ header[id.slot_address].id = id.ordinal => header[id.slot_address].occupied

\* The Ids of a store that was dropped pass no check, as its id is never used
\* again; the others are Named.
IdInv ==
    \A id \in ids :
        /\ id.store_id < NEXT_RWSTORE_ID
        /\ \A s \in Live : store_id[s] = id.store_id => Named(s, id)

\* A guard's store exists, and its element is there and locked.
GuardInv ==
    \A g \in guards :
        /\ \E s \in Live : store_id[s] = g.store_id
        /\ header[g.slot_address].id = g.ordinal
        /\ header[g.slot_address].locked

\* The inductive invariant.
Inv == TypeOK /\ StoreInv /\ MemoryInv /\ IdInv /\ GuardInv /\ QueuesOwnSlots

-----------------------------------------------------------------------------
\* ConcurrentQueue::pop on the sequence of a queue.
LEMMA QueueTail ==
  ASSUME NEW S, NEW q \in Seq(S), q # <<>>, IsInjective(q)
  PROVE  /\ Tail(q) \in Seq(S) /\ Head(q) \in S /\ Head(q) \in ToSet(q)
         /\ IsInjective(Tail(q)) /\ ToSet(Tail(q)) = ToSet(q) \ {Head(q)}
<1> DEFINE r == Tail(q)
<1>1. /\ Len(q) \in Nat \ {0} /\ Head(q) = q[1] /\ Head(q) \in S
      /\ r \in Seq(S) /\ Len(r) = Len(q) - 1
      /\ \A i \in 1 .. Len(r) : r[i] = q[i + 1]
      /\ DOMAIN q = 1 .. Len(q) /\ DOMAIN r = 1 .. Len(r)
  BY HeadTailProperties
<1> HIDE DEF r
<1>2. 1 \in 1 .. Len(q) /\ \A i \in 1 .. Len(r) : i + 1 \in 1 .. Len(q)
  BY <1>1
<1>3. IsInjective(r)
  <2>1. ASSUME NEW i \in 1 .. Len(r), NEW j \in 1 .. Len(r), r[i] = r[j]
        PROVE  i = j
    <3>1. /\ i + 1 \in DOMAIN q /\ j + 1 \in DOMAIN q
          /\ q[i + 1] = q[j + 1]
      BY <1>1, <1>2, <2>1
    <3>2. i + 1 = j + 1
      BY <3>1, Zenon DEF IsInjective
    <3> QED BY <1>1, <3>2
  <2> QED BY <1>1, <2>1 DEF IsInjective
<1>4. ASSUME NEW x \in ToSet(r)
      PROVE  x \in ToSet(q) /\ x # q[1]
  <2>1. PICK i \in 1 .. Len(r) : r[i] = x
    BY <1>1 DEF ToSet
  <2>2. q[i + 1] = x /\ i + 1 \in 1 .. Len(q) /\ i + 1 # 1
    BY <1>1, <1>2, <2>1
  <2> QED BY <1>1, <1>2, <2>2 DEF ToSet, IsInjective
<1>5. ASSUME NEW x \in ToSet(q), x # q[1]
      PROVE  x \in ToSet(r)
  <2>1. PICK i \in 1 .. Len(q) : q[i] = x
    BY <1>1 DEF ToSet
  <2>2. i - 1 \in 1 .. Len(r) /\ (i - 1) + 1 = i
    BY <1>1, <1>5, <2>1
  <2>3. r[i - 1] = x
    BY <1>1, <2>1, <2>2
  <2> QED BY <1>1, <2>2, <2>3 DEF ToSet
<1>6. q[1] \in ToSet(q)
  BY <1>1, <1>2 DEF ToSet
<1> QED BY <1>1, <1>3, <1>4, <1>5, <1>6 DEF r

\* ConcurrentQueue::push on the sequence of a queue.
LEMMA QueueAppend ==
  ASSUME NEW S, NEW q \in Seq(S), NEW a \in S, IsInjective(q), a \notin ToSet(q)
  PROVE  /\ Append(q, a) \in Seq(S)
         /\ IsInjective(Append(q, a)) /\ ToSet(Append(q, a)) = ToSet(q) \cup {a}
<1> DEFINE r == Append(q, a)
<1>1. /\ r \in Seq(S) /\ Len(r) = Len(q) + 1 /\ Len(q) \in Nat
      /\ \A i \in 1 .. Len(q) : r[i] = q[i]
      /\ r[Len(q) + 1] = a
      /\ DOMAIN q = 1 .. Len(q) /\ DOMAIN r = 1 .. Len(r)
  BY AppendProperties
<1> HIDE DEF r
<1>2. DOMAIN r = DOMAIN q \cup {Len(q) + 1} /\ Len(q) + 1 \notin DOMAIN q
  BY <1>1
<1>3. IsInjective(r)
  BY <1>1, <1>2 DEF IsInjective, ToSet
<1>4. ToSet(r) = ToSet(q) \cup {a}
  BY <1>1, <1>2 DEF ToSet
<1> QED BY <1>1, <1>3, <1>4 DEF r

-----------------------------------------------------------------------------
\* The facts that the proofs of all steps use.
LEMMA Facts ==
  ASSUME Inv
  PROVE  /\ \A s \in Live : /\ s \in Stores /\ s # NoStore
                            /\ store_id[s] \in Nat /\ erasures[s] \in Seq(Addresses)
                            /\ IsInjective(erasures[s])
                            /\ \A a \in ToSet(erasures[s]) :
                                   a \in Addresses /\ owner[a] = s /\ ~header[a].occupied
         /\ \A a \in Addresses : /\ owner[a] \in Live \cup {NoStore}
                                 /\ header[a].id \in Nat
         /\ \A id \in ids : /\ id.slot_address \in Addresses
                            /\ id.ordinal \in Nat /\ id.store_id \in Nat
         /\ DOMAIN erasures = Live
<1>1. \A s \in Live : /\ s \in Stores /\ s # NoStore
                      /\ store_id[s] \in Nat /\ erasures[s] \in Seq(Addresses)
  BY NoStoreAssumption DEF Inv, TypeOK
<1>2. ASSUME NEW s \in Live, NEW a \in ToSet(erasures[s])
      PROVE  a \in Addresses /\ owner[a] = s /\ ~header[a].occupied
  BY <1>1 DEF ToSet, Inv, QueuesOwnSlots
<1>3. \A s \in Live : IsInjective(erasures[s])
  BY DEF Inv, QueuesOwnSlots
<1>4. \A a \in Addresses : owner[a] \in Live \cup {NoStore} /\ header[a].id \in Nat
  BY DEF Inv, TypeOK
<1>5. \A id \in ids : /\ id.slot_address \in Addresses
                      /\ id.ordinal \in Nat /\ id.store_id \in Nat
  BY DEF Inv, TypeOK
<1>6. DOMAIN erasures = Live
  BY DEF Inv, TypeOK
<1> QED BY <1>1, <1>2, <1>3, <1>4, <1>5, <1>6

\* Setting the occupied bit of one header.
LEMMA SetOccupied ==
  ASSUME NEW f \in [Addresses -> [id : Nat, occupied : BOOLEAN, locked : BOOLEAN]],
         NEW a \in Addresses, NEW b \in BOOLEAN
  PROVE  LET g == [f EXCEPT ![a].occupied = b]
         IN  /\ g \in [Addresses -> [id : Nat, occupied : BOOLEAN, locked : BOOLEAN]]
             /\ g[a].id = f[a].id /\ g[a].occupied = b /\ g[a].locked = f[a].locked
             /\ \A x \in Addresses \ {a} : g[x] = f[x]
OBVIOUS

\* Setting the locked bit of one header.
LEMMA SetLocked ==
  ASSUME NEW f \in [Addresses -> [id : Nat, occupied : BOOLEAN, locked : BOOLEAN]],
         NEW a \in Addresses, NEW b \in BOOLEAN
  PROVE  LET g == [f EXCEPT ![a].locked = b]
         IN  /\ g \in [Addresses -> [id : Nat, occupied : BOOLEAN, locked : BOOLEAN]]
             /\ g[a].id = f[a].id /\ g[a].locked = b /\ g[a].occupied = f[a].occupied
             /\ \A x \in Addresses \ {a} : g[x] = f[x]
OBVIOUS

\* The header that is left when an element is removed.
LEMMA ErasedHeader ==
  ASSUME NEW m \in Nat
  PROVE  [NewHeader EXCEPT !.id = m] = [id |-> m, occupied |-> FALSE, locked |-> FALSE]
<1>1. PICK h \in [id : Nat, occupied : BOOLEAN, locked : BOOLEAN] : h = NewHeader
  BY DEF NewHeader
<1>2. h.occupied = FALSE /\ h.locked = FALSE
  BY <1>1 DEF NewHeader
<1>3. [h EXCEPT !.id = m] = [id |-> m, occupied |-> h.occupied, locked |-> h.locked]
  OBVIOUS
<1> QED BY <1>1, <1>2, <1>3

\* Nothing exists at the start.
LEMMA InvInit == Init => Inv
<1> SUFFICES ASSUME Init PROVE Inv
  OBVIOUS
<1>1. Live = {} /\ ids = {} /\ guards = {} /\ NEXT_RWSTORE_ID = 0
      /\ owner = [a \in Addresses |-> NoStore] /\ header = [a \in Addresses |-> NewHeader]
      /\ DOMAIN erasures = {} /\ erasures = [s \in {} |-> <<>>]
      /\ store_id = [s \in {} |-> 0]
  BY DEF Init, Live
<1>2. NewHeader \in [id : Nat, occupied : BOOLEAN, locked : BOOLEAN]
  BY DEF NewHeader
<1>3. TypeOK
  BY <1>1, <1>2 DEF TypeOK
<1> QED BY <1>1, <1>3
        DEF Inv, StoreInv, MemoryInv, IdInv, GuardInv, QueuesOwnSlots

\* A new store has an id that no Id in circulation carries.
LEMMA NewStep ==
  ASSUME Inv, NEW s \in Stores, RwStore_new(s)
  PROVE  Inv'
<1> USE Facts
<1>1. /\ s \notin Live /\ NEXT_RWSTORE_ID' = NEXT_RWSTORE_ID + 1
      /\ store_id' = [x \in Live \cup {s} |->
                         IF x = s THEN NEXT_RWSTORE_ID ELSE store_id[x]]
      /\ erasures' = [x \in Live \cup {s} |-> IF x = s THEN <<>> ELSE erasures[x]]
      /\ owner' = owner /\ header' = header /\ ids' = ids /\ guards' = guards
  BY DEF RwStore_new, generate, memory
<1>2. NEXT_RWSTORE_ID \in Nat
  BY DEF Inv, TypeOK
<1>3. /\ Live' = Live \cup {s}
      /\ store_id'[s] = NEXT_RWSTORE_ID /\ \A x \in Live : store_id'[x] = store_id[x]
      /\ erasures'[s] = <<>> /\ \A x \in Live : erasures'[x] = erasures[x]
  BY <1>1 DEF Live
<1>4. TypeOK'
  <2>1. store_id' \in [Live' -> Nat] /\ erasures' \in [Live' -> Seq(Addresses)]
    BY <1>1, <1>2, <1>3
  <2> QED BY <1>1, <1>2, <1>3, <2>1 DEF Inv, TypeOK
<1>5. StoreInv'
  BY <1>1, <1>2, <1>3 DEF Inv, StoreInv
<1>6. IdInv'
  BY <1>1, <1>2, <1>3 DEF Inv, IdInv, Named
<1>7. MemoryInv' /\ GuardInv'
  BY <1>1, <1>3 DEF Inv, MemoryInv, GuardInv
<1>8. QueuesOwnSlots'
  <2>1. IsInjective(<<>>) /\ ToSet(<<>>) = {}
    BY DEF IsInjective, ToSet
  <2> QED BY <1>1, <1>3, <2>1 DEF QueuesOwnSlots
<1> QED BY <1>4, <1>5, <1>6, <1>7, <1>8 DEF Inv

\* The slot an insertion takes is empty, and no store queues it afterwards; so
\* no Id in circulation is the one the insertion makes.
LEMMA Located ==
  ASSUME Inv, NEW s \in Stores, NEW a \in Addresses, insert(s, a)
  PROVE  /\ s \in Live /\ ~header[a].occupied
         /\ owner' = [owner EXCEPT ![a] = s]
         /\ owner[a] = s \/ owner[a] = NoStore
         /\ erasures' \in [Live -> Seq(Addresses)]
         /\ \A x \in Live : /\ IsInjective(erasures'[x])
                            /\ ToSet(erasures'[x]) = ToSet(erasures[x]) \ {a}
         /\ \A id \in ids : id.slot_address = a /\ id.store_id = store_id[s] =>
                                id.ordinal # header[a].id
<1> USE Facts
<1>1. s \in Live /\ a \in Locations(s) /\ owner \in [Addresses -> Live \cup {NoStore}]
      /\ erasures \in [Live -> Seq(Addresses)]
  BY DEF insert, Inv, TypeOK
<1>2. CASE erasures[s] = <<>>
  <2>1. owner[a] = NoStore /\ owner' = [owner EXCEPT ![a] = s] /\ erasures' = erasures
    BY <1>1, <1>2 DEF insert, Locations
  <2>2. header[a] = NewHeader
    BY <2>1 DEF Inv, MemoryInv
  <2>3. ~header[a].occupied
    BY <2>2 DEF NewHeader
  <2>4. \A x \in Live : a \notin ToSet(erasures[x])
    BY <2>1
  <2>5. \A id \in ids : id.slot_address = a => id.store_id # store_id[s]
    BY <1>1, <2>1 DEF Inv, IdInv, Named
  <2> QED BY <1>1, <2>1, <2>3, <2>4, <2>5
<1>3. CASE erasures[s] # <<>>
  <2>1. a = Head(erasures[s]) /\ owner' = owner
        /\ erasures' = [erasures EXCEPT ![s] = Tail(erasures[s])]
    BY <1>1, <1>3 DEF insert, Locations
  <2>2. /\ a \in ToSet(erasures[s]) /\ Tail(erasures[s]) \in Seq(Addresses)
        /\ IsInjective(Tail(erasures[s]))
        /\ ToSet(Tail(erasures[s])) = ToSet(erasures[s]) \ {a}
    BY <1>1, <1>3, <2>1, QueueTail
  <2>3. owner[a] = s /\ ~header[a].occupied
    BY <1>1, <2>2
  <2>4. owner' = [owner EXCEPT ![a] = s]
    BY <1>1, <2>1, <2>3
  <2>5. erasures' \in [Live -> Seq(Addresses)]
    BY <1>1, <2>1, <2>2
  <2>6. \A x \in Live \ {s} : erasures'[x] = erasures[x] /\ a \notin ToSet(erasures[x])
    BY <1>1, <2>1, <2>3
  <2>7. erasures'[s] = Tail(erasures[s])
    BY <1>1, <2>1
  <2>8. \A id \in ids : id.slot_address = a /\ id.store_id = store_id[s] =>
                            id.ordinal # header[a].id
    BY <1>1, <2>3 DEF Inv, IdInv, Named
  <2>9. \A x \in Live : /\ IsInjective(erasures'[x])
                         /\ ToSet(erasures'[x]) = ToSet(erasures[x]) \ {a}
    BY <2>2, <2>6, <2>7
  <2> QED BY <1>1, <2>3, <2>4, <2>5, <2>8, <2>9
<1> QED BY <1>2, <1>3

\* The Id an insertion makes is Named, and no other is disturbed.
LEMMA InsertStep ==
  ASSUME Inv, NEW s \in Stores, NEW a \in Addresses, insert(s, a)
  PROVE  Inv'
<1> USE Facts
<1>1. /\ s \in Live /\ ~header[a].occupied
      /\ owner' = [owner EXCEPT ![a] = s]
      /\ owner[a] = s \/ owner[a] = NoStore
      /\ erasures' \in [Live -> Seq(Addresses)]
      /\ \A x \in Live : /\ IsInjective(erasures'[x])
                         /\ ToSet(erasures'[x]) = ToSet(erasures[x]) \ {a}
  BY Located
<1>2. PICK new : new = [ordinal |-> header[a].id, slot_address |-> a,
                        store_id |-> store_id[s]]
  OBVIOUS
<1>3. /\ header' = [header EXCEPT ![a].occupied = TRUE] /\ ids' = ids \cup {new}
      /\ NEXT_RWSTORE_ID' = NEXT_RWSTORE_ID /\ store_id' = store_id /\ guards' = guards
      /\ Live' = Live
  BY <1>2 DEF insert, Live
<1>4. /\ header' \in [Addresses -> [id : Nat, occupied : BOOLEAN, locked : BOOLEAN]]
      /\ header'[a].id = header[a].id /\ header'[a].occupied
      /\ header'[a].locked = header[a].locked
      /\ \A x \in Addresses \ {a} : header'[x] = header[x]
  <2>1. header \in [Addresses -> [id : Nat, occupied : BOOLEAN, locked : BOOLEAN]]
    BY DEF Inv, TypeOK
  <2>2. PICK b \in BOOLEAN : b = TRUE
    OBVIOUS
  <2>3. header' = [header EXCEPT ![a].occupied = b]
    BY <1>3, <2>2
  <2>4. /\ header' \in [Addresses -> [id : Nat, occupied : BOOLEAN, locked : BOOLEAN]]
        /\ header'[a].id = header[a].id /\ header'[a].occupied = b
        /\ header'[a].locked = header[a].locked
        /\ \A x \in Addresses \ {a} : header'[x] = header[x]
    BY ONLY a \in Addresses, b \in BOOLEAN, <2>1, <2>3, SetOccupied
  <2> QED BY <2>2, <2>4
<1>5. owner'[a] = s /\ \A x \in Addresses \ {a} : owner'[x] = owner[x]
  BY <1>1 DEF Inv, TypeOK
<1>6. new.slot_address = a /\ new.ordinal = header[a].id /\ new.store_id = store_id[s]
      /\ new \in [ordinal : Nat, slot_address : Addresses, store_id : Nat]
  BY <1>1, <1>2
<1>7. TypeOK'
  <2>1. owner' \in [Addresses -> Live \cup {NoStore}]
    BY <1>1 DEF Inv, TypeOK
  <2> QED BY <1>1, <1>3, <1>4, <1>6, <2>1 DEF Inv, TypeOK
<1>8. StoreInv'
  BY <1>3 DEF Inv, StoreInv
<1>9. MemoryInv'
  <2>1. \A x \in Addresses \ {a} : owner[x] = NoStore => header[x] = NewHeader
    BY DEF Inv, MemoryInv
  <2>2. owner'[a] # NoStore
    BY <1>1, <1>5
  <2> QED BY <1>4, <1>5, <2>1, <2>2 DEF MemoryInv
<1>10. IdInv'
  <2>1. ASSUME NEW id \in ids, NEW r \in Live, store_id[r] = id.store_id
        PROVE  Named(r, id)'
    <3>1. Named(r, id)
      BY <2>1 DEF Inv, IdInv
    <3>2. CASE id.slot_address = a
      BY <1>1, <1>4, <1>5, <3>1, <3>2 DEF Named
    <3>3. CASE id.slot_address # a
      BY <1>4, <1>5, <3>1, <3>3 DEF Named
    <3> QED BY <3>2, <3>3
  <2>2. ASSUME NEW r \in Live, store_id[r] = new.store_id
        PROVE  Named(r, new)'
    <3>1. r = s
      BY <1>1, <1>6, <2>2 DEF Inv, StoreInv
    <3> QED BY <1>4, <1>5, <1>6, <3>1 DEF Named
  <2>3. new.store_id < NEXT_RWSTORE_ID
    BY <1>1, <1>6 DEF Inv, StoreInv
  <2> QED BY <1>3, <2>1, <2>2, <2>3 DEF Inv, IdInv
<1>11. GuardInv'
  <2>1. \A g \in guards : g.slot_address \in Addresses
    BY DEF Inv, TypeOK
  <2>2. \A x \in Addresses : header'[x].id = header[x].id /\ header'[x].locked = header[x].locked
    BY <1>4
  <2> QED BY <1>3, <2>1, <2>2 DEF Inv, GuardInv
<1>12. QueuesOwnSlots'
  BY <1>1, <1>3, <1>4, <1>5 DEF QueuesOwnSlots
<1> QED BY <1>7, <1>8, <1>9, <1>10, <1>11, <1>12 DEF Inv

\* Taking and dropping a guard changes the lock of one slot only.
LEMMA LockStep ==
  ASSUME Inv, NEW id \in ids, NEW b \in BOOLEAN,
         header' = [header EXCEPT ![id.slot_address].locked = b],
         UNCHANGED <<NEXT_RWSTORE_ID, store_id, owner, erasures, ids>>,
         owner[id.slot_address] # NoStore
  PROVE  /\ guards' \subseteq ids => TypeOK'
         /\ StoreInv' /\ MemoryInv' /\ IdInv' /\ QueuesOwnSlots' /\ Live' = Live
         /\ header'[id.slot_address].locked = b
         /\ \A a \in Addresses : header'[a].id = header[a].id
         /\ \A a \in Addresses \ {id.slot_address} : header'[a] = header[a]
<1> USE Facts
<1> DEFINE a == id.slot_address
<1>1. /\ header' \in [Addresses -> [id : Nat, occupied : BOOLEAN, locked : BOOLEAN]]
      /\ header'[a].id = header[a].id /\ header'[a].locked = b
      /\ header'[a].occupied = header[a].occupied
      /\ \A x \in Addresses \ {a} : header'[x] = header[x]
  <2>1. header \in [Addresses -> [id : Nat, occupied : BOOLEAN, locked : BOOLEAN]]
        /\ a \in Addresses
    BY DEF Inv, TypeOK
  <2>2. header' = [header EXCEPT ![a].locked = b]
    OBVIOUS
  <2> QED BY ONLY <2>1, <2>2, b \in BOOLEAN, SetLocked
<1>2. Live' = Live
  BY DEF Live
<1>3. \A x \in Addresses : /\ header'[x].id = header[x].id
                           /\ header'[x].occupied = header[x].occupied
  BY <1>1
<1>4. guards' \subseteq ids => TypeOK'
  BY <1>1, <1>2 DEF Inv, TypeOK
<1>5. StoreInv'
  BY <1>2 DEF Inv, StoreInv
<1>6. MemoryInv'
  BY <1>1 DEF Inv, MemoryInv
<1>7. IdInv'
  BY <1>2, <1>3 DEF Inv, IdInv, Named
<1>8. QueuesOwnSlots'
  BY <1>2, <1>3 DEF QueuesOwnSlots
<1> QED BY <1>1, <1>2, <1>3, <1>4, <1>5, <1>6, <1>7, <1>8

\* An Id that passes the check is Named.
LEMMA Passed ==
  ASSUME Inv, NEW s \in Live, NEW id \in ids, assert_native_id(s, id)
  PROVE  Named(s, id)
BY DEF Inv, IdInv, assert_native_id

\* A guard's element belongs to the store of its Id, and no two guards lock the
\* same slot.
LEMMA Guarded ==
  ASSUME Inv, NEW g \in guards
  PROVE  /\ g \in ids /\ owner[g.slot_address] # NoStore
         /\ header[g.slot_address].id = g.ordinal /\ header[g.slot_address].locked
         /\ \A h \in guards : h.slot_address = g.slot_address => h = g
         /\ \E s \in Live : store_id[s] = g.store_id /\ owner[g.slot_address] = s
<1> USE Facts
<1>1. guards \subseteq ids
      /\ ids \subseteq [ordinal : Nat, slot_address : Addresses, store_id : Nat]
  BY DEF Inv, TypeOK
<1>2. ASSUME NEW h \in guards
      PROVE  /\ header[h.slot_address].id = h.ordinal /\ header[h.slot_address].locked
             /\ \E s \in Live : store_id[s] = h.store_id /\ owner[h.slot_address] = s
  BY <1>1 DEF Inv, GuardInv, IdInv, Named
<1>3. ASSUME NEW h \in guards, h.slot_address = g.slot_address
      PROVE  h = g
  <2>1. h.ordinal = g.ordinal /\ h.store_id = g.store_id
    BY <1>2, <1>3
  <2> QED BY <1>1, <1>3, <2>1
<1> QED BY <1>1, <1>2, <1>3

\* write locks an element that the store has.
LEMMA WriteStep ==
  ASSUME Inv, NEW s \in Stores, NEW id \in ids, write(s, id)
  PROVE  Inv'
<1> USE Facts
<1>1. /\ s \in Live /\ assert_native_id(s, id) /\ header[id.slot_address].id = id.ordinal
      /\ header' = [header EXCEPT ![id.slot_address].locked = TRUE]
      /\ guards' = guards \cup {id}
      /\ UNCHANGED <<NEXT_RWSTORE_ID, store_id, owner, erasures, ids>>
  BY DEF write, Found
<1>2. owner[id.slot_address] = s /\ s # NoStore
  BY <1>1, Passed DEF Named
<1>3. guards' \subseteq ids /\ guards \subseteq ids
  BY <1>1 DEF Inv, TypeOK
<1>4. /\ guards' \subseteq ids => TypeOK'
      /\ StoreInv' /\ MemoryInv' /\ IdInv' /\ QueuesOwnSlots' /\ Live' = Live
      /\ header'[id.slot_address].locked = TRUE
      /\ \A a \in Addresses : header'[a].id = header[a].id
      /\ \A a \in Addresses \ {id.slot_address} : header'[a] = header[a]
  BY <1>1, <1>2, LockStep
<1>5. GuardInv'
  <2>1. ASSUME NEW g \in guards'
        PROVE  /\ \E r \in Live : store_id[r] = g.store_id
               /\ header'[g.slot_address].id = g.ordinal
               /\ header'[g.slot_address].locked
    <3>1. CASE g = id
      BY <1>1, <1>4, <3>1 DEF assert_native_id
    <3>2. CASE g \in guards
      BY <1>3, <1>4, <3>2 DEF Inv, GuardInv
    <3> QED BY <1>1, <3>1, <3>2
  <2> QED BY <1>1, <1>4, <2>1 DEF GuardInv
<1> QED BY <1>3, <1>4, <1>5 DEF Inv

\* Dropping a guard unlocks its own element and leaves the other guards theirs.
LEMMA UnlockStep ==
  ASSUME Inv, NEW g \in guards, unlock_write(g)
  PROVE  Inv'
<1> USE Facts
<1>1. /\ header' = [header EXCEPT ![g.slot_address].locked = FALSE]
      /\ guards' = guards \ {g}
      /\ UNCHANGED <<NEXT_RWSTORE_ID, store_id, owner, erasures, ids>>
  BY DEF unlock_write
<1>2. /\ g \in ids /\ owner[g.slot_address] # NoStore
      /\ \A h \in guards : h.slot_address = g.slot_address => h = g
  BY Guarded
<1>3. guards' \subseteq ids /\ guards \subseteq ids
  BY <1>1 DEF Inv, TypeOK
<1>4. /\ guards' \subseteq ids => TypeOK'
      /\ StoreInv' /\ MemoryInv' /\ IdInv' /\ QueuesOwnSlots' /\ Live' = Live
      /\ \A a \in Addresses \ {g.slot_address} : header'[a] = header[a]
  BY <1>1, <1>2, LockStep
<1>5. GuardInv'
  BY <1>1, <1>2, <1>3, <1>4 DEF Inv, GuardInv
<1> QED BY <1>3, <1>4, <1>5 DEF Inv

\* Emptying a slot: the ordinal passes the Id's, and the slot, which was occupied
\* and so not queued, is queued by its own store.
LEMMA EraseStep ==
  ASSUME Inv, NEW s \in Live, NEW id \in ids, assert_native_id(s, id),
         header[id.slot_address].id = id.ordinal, Erase(s, id),
         guards' \subseteq guards,
         \A g \in guards' : g.slot_address # id.slot_address
  PROVE  Inv'
<1> USE Facts
<1> DEFINE a == id.slot_address
           n == id.ordinal
           h == [id |-> n + 1, occupied |-> FALSE, locked |-> FALSE]
<1>1. /\ header' = [header EXCEPT ![a] = h]
      /\ erasures' = IF may_reuse(n) THEN [erasures EXCEPT ![s] = Append(erasures[s], a)]
                                     ELSE erasures
      /\ NEXT_RWSTORE_ID' = NEXT_RWSTORE_ID /\ store_id' = store_id
      /\ owner' = owner /\ ids' = ids /\ Live' = Live
  <2>1. [NewHeader EXCEPT !.id = n + 1] = h
    <3>1. n + 1 \in Nat
      BY DEF Inv, TypeOK
    <3> QED BY <3>1, ErasedHeader, Zenon
  <2>2. /\ header' = [header EXCEPT ![a] = [NewHeader EXCEPT !.id = n + 1]]
        /\ erasures' = IF may_reuse(n) THEN [erasures EXCEPT ![s] = Append(@, a)]
                                       ELSE erasures
        /\ UNCHANGED <<NEXT_RWSTORE_ID, store_id, owner, ids>>
    BY Zenon DEF Erase
  <2> HIDE DEF h, n, a
  <2> QED BY <2>1, <2>2 DEF Live
<1>2. owner[a] = s /\ header[a].occupied /\ a \in Addresses /\ n \in Nat
  BY Passed DEF Named
<1>3. h \in [id : Nat, occupied : BOOLEAN, locked : BOOLEAN]
      /\ h.id = n + 1 /\ h.occupied = FALSE
  BY <1>2
<1> HIDE DEF h
<1>4. /\ header' \in [Addresses -> [id : Nat, occupied : BOOLEAN, locked : BOOLEAN]]
      /\ header'[a] = h /\ \A x \in Addresses \ {a} : header'[x] = header[x]
  BY <1>1, <1>2, <1>3 DEF Inv, TypeOK
<1>5. \A x \in Live : a \notin ToSet(erasures[x])
  BY <1>2
<1>6. /\ Append(erasures[s], a) \in Seq(Addresses)
      /\ IsInjective(Append(erasures[s], a))
      /\ ToSet(Append(erasures[s], a)) = ToSet(erasures[s]) \cup {a}
  BY <1>2, <1>5, QueueAppend
<1>7. erasures \in [Live -> Seq(Addresses)]
  BY DEF Inv, TypeOK
<1>8. /\ erasures' \in [Live -> Seq(Addresses)]
      /\ \A x \in Live \ {s} : erasures'[x] = erasures[x]
      /\ erasures'[s] = erasures[s] \/ erasures'[s] = Append(erasures[s], a)
  BY <1>1, <1>6, <1>7
<1>9. TypeOK'
  BY <1>1, <1>4, <1>8 DEF Inv, TypeOK
<1>10. StoreInv'
  BY <1>1 DEF Inv, StoreInv
<1>11. MemoryInv'
  BY <1>1, <1>2, <1>4 DEF Inv, MemoryInv
<1>12. IdInv'
  <2>1. ASSUME NEW i \in ids, NEW r \in Live, store_id[r] = i.store_id
        PROVE  Named(r, i)'
    <3>1. Named(r, i)
      BY <2>1 DEF Inv, IdInv
    <3>2. CASE i.slot_address = a
      <4>1. i.ordinal <= n /\ i.ordinal \in Nat
        BY <3>1, <3>2 DEF Named
      <4>2. i.ordinal <= n + 1 /\ i.ordinal # n + 1
        BY <1>2, <4>1
      <4> QED BY <1>1, <1>3, <1>4, <3>1, <3>2, <4>2 DEF Named
    <3>3. CASE i.slot_address # a
      BY <1>1, <1>4, <3>1, <3>3 DEF Named
    <3> QED BY <3>2, <3>3
  <2> QED BY <1>1, <2>1 DEF Inv, IdInv
<1>13. GuardInv'
  <2>1. \A g \in guards' : g \in guards /\ g.slot_address \in Addresses \ {a}
    BY DEF Inv, TypeOK
  <2> QED BY <1>1, <1>4, <2>1 DEF Inv, GuardInv
<1>14. QueuesOwnSlots'
  <2>1. ASSUME NEW x \in Live
        PROVE  /\ IsInjective(erasures'[x])
               /\ \A c \in ToSet(erasures'[x]) : owner[c] = x /\ ~header'[c].occupied
    <3>1. CASE x # s
      <4>1. erasures'[x] = erasures[x]
        BY <1>8, <3>1
      <4>2. \A c \in ToSet(erasures[x]) : header'[c] = header[c]
        BY <1>4, <1>5
      <4> QED BY <4>1, <4>2
    <3>2. CASE x = s /\ erasures'[s] = erasures[s]
      <4>1. \A c \in ToSet(erasures[s]) : header'[c] = header[c]
        BY <1>4, <1>5
      <4> QED BY <3>2, <4>1
    <3>3. CASE x = s /\ erasures'[s] = Append(erasures[s], a)
      <4>1. \A c \in ToSet(erasures[s]) : header'[c] = header[c]
        BY <1>4, <1>5
      <4>2. ~header'[a].occupied
        BY <1>3, <1>4
      <4> QED BY <1>2, <1>6, <3>3, <4>1, <4>2
    <3> QED BY <1>8, <3>1, <3>2, <3>3
  <2> QED BY <1>1, <2>1 DEF QueuesOwnSlots
<1> QED BY <1>9, <1>10, <1>11, <1>12, <1>13, <1>14 DEF Inv

\* remove empties a slot that no guard locks.
LEMMA RemoveStep ==
  ASSUME Inv, NEW s \in Stores, NEW id \in ids, remove(s, id)
  PROVE  Inv'
<1>1. /\ s \in Live /\ assert_native_id(s, id) /\ header[id.slot_address].id = id.ordinal
      /\ ~header[id.slot_address].locked /\ Erase(s, id) /\ guards' = guards
  BY DEF remove, Found
<1>2. \A g \in guards' : g.slot_address # id.slot_address
  BY <1>1, Guarded
<1> QED BY <1>1, <1>2, EraseStep

\* remove_locked empties the slot that its guard locks, or forgets the guard of
\* another store and leaves the element locked.
LEMMA RemoveLockedStep ==
  ASSUME Inv, NEW s \in Stores, NEW g \in guards, remove_locked(s, g)
  PROVE  Inv'
<1>1. s \in Live /\ guards' = guards \ {g}
  BY DEF remove_locked
<1>2. CASE assert_native_id(s, g)
  <2>1. Erase(s, g)
    BY <1>2 DEF remove_locked
  <2>2. /\ g \in ids /\ header[g.slot_address].id = g.ordinal
        /\ \A h \in guards' : h.slot_address # g.slot_address
    BY <1>1, Guarded
  <2> QED BY <1>1, <1>2, <2>1, <2>2, EraseStep
<1>3. CASE ~assert_native_id(s, g)
  <2>1. /\ NEXT_RWSTORE_ID' = NEXT_RWSTORE_ID /\ store_id' = store_id /\ owner' = owner
        /\ header' = header /\ erasures' = erasures /\ ids' = ids /\ Live' = Live
    BY <1>3 DEF remove_locked, memory, Live
  <2>2. TypeOK'
    BY <1>1, <2>1 DEF Inv, TypeOK
  <2>3. StoreInv' /\ MemoryInv' /\ QueuesOwnSlots'
    BY <2>1 DEF Inv, StoreInv, MemoryInv, QueuesOwnSlots
  <2>4. IdInv'
    BY <2>1 DEF Inv, IdInv, Named
  <2>5. GuardInv'
    BY <1>1, <2>1 DEF Inv, GuardInv
  <2> QED BY <2>2, <2>3, <2>4, <2>5 DEF Inv
<1> QED BY <1>2, <1>3

\* A store that is dropped takes its id with it: what its Ids named may be given
\* to another store.
LEMMA DropStep ==
  ASSUME Inv, NEW s \in Stores, drop(s)
  PROVE  Inv'
<1> USE Facts
<1>1. /\ s \in Live /\ \A g \in guards : owner[g.slot_address] # s
      /\ owner' = [a \in Addresses |-> IF owner[a] = s THEN NoStore ELSE owner[a]]
      /\ header' = [a \in Addresses |-> IF owner[a] = s THEN NewHeader ELSE header[a]]
      /\ store_id' = [x \in Live \ {s} |-> store_id[x]]
      /\ erasures' = [x \in Live \ {s} |-> erasures[x]]
      /\ NEXT_RWSTORE_ID' = NEXT_RWSTORE_ID /\ ids' = ids /\ guards' = guards
  BY DEF drop
<1>2. /\ Live' = Live \ {s}
      /\ \A x \in Live \ {s} : store_id'[x] = store_id[x] /\ erasures'[x] = erasures[x]
  BY <1>1 DEF Live
<1>3. \A a \in Addresses : /\ owner[a] = s => owner'[a] = NoStore /\ header'[a] = NewHeader
                           /\ owner[a] # s => owner'[a] = owner[a] /\ header'[a] = header[a]
  BY <1>1
<1>4. NewHeader \in [id : Nat, occupied : BOOLEAN, locked : BOOLEAN]
  BY DEF NewHeader
<1>5. TypeOK'
  <2>1. store_id' \in [Live' -> Nat] /\ erasures' \in [Live' -> Seq(Addresses)]
    BY <1>1, <1>2
  <2>2. owner' \in [Addresses -> Live' \cup {NoStore}]
    BY <1>1, <1>2
  <2>3. header' \in [Addresses -> [id : Nat, occupied : BOOLEAN, locked : BOOLEAN]]
    BY <1>1, <1>4 DEF Inv, TypeOK
  <2> QED BY <1>1, <1>2, <2>1, <2>2, <2>3 DEF Inv, TypeOK
<1>6. StoreInv'
  BY <1>1, <1>2 DEF Inv, StoreInv
<1>7. MemoryInv'
  BY <1>3 DEF Inv, MemoryInv
<1>8. IdInv'
  <2>1. ASSUME NEW i \in ids, NEW r \in Live \ {s}, store_id[r] = i.store_id
        PROVE  Named(r, i)'
    <3>1. Named(r, i)
      BY <2>1 DEF Inv, IdInv
    <3> QED BY <1>3, <3>1 DEF Named
  <2> QED BY <1>1, <1>2, <2>1 DEF Inv, IdInv
<1>9. GuardInv'
  <2>1. ASSUME NEW g \in guards
        PROVE  /\ \E r \in Live \ {s} : store_id[r] = g.store_id
               /\ header'[g.slot_address] = header[g.slot_address]
    <3>1. g.slot_address \in Addresses /\ owner[g.slot_address] # s
      BY <1>1, Guarded
    <3>2. PICK r \in Live : store_id[r] = g.store_id /\ owner[g.slot_address] = r
      BY Guarded
    <3> QED BY <1>3, <3>1, <3>2
  <2>2. \A g \in guards : /\ header[g.slot_address].id = g.ordinal
                           /\ header[g.slot_address].locked
    BY DEF Inv, GuardInv
  <2>3. \A g \in guards : \E r \in Live' : store_id'[r] = g.store_id
    BY <1>2, <2>1
  <2> QED BY <1>1, <2>1, <2>2, <2>3 DEF GuardInv
<1>10. QueuesOwnSlots'
  <2>1. ASSUME NEW x \in Live \ {s}, NEW a \in ToSet(erasures[x])
        PROVE  owner'[a] = x /\ ~header'[a].occupied
    BY <1>3
  <2> QED BY <1>2, <2>1 DEF QueuesOwnSlots
<1> QED BY <1>5, <1>6, <1>7, <1>8, <1>9, <1>10 DEF Inv

\* A step that changes nothing keeps the invariant.
LEMMA StutterStep == Inv /\ UNCHANGED vars => Inv'
<1> SUFFICES ASSUME Inv, UNCHANGED vars PROVE Inv'
  OBVIOUS
<1>1. /\ NEXT_RWSTORE_ID' = NEXT_RWSTORE_ID /\ store_id' = store_id /\ owner' = owner
      /\ header' = header /\ erasures' = erasures /\ ids' = ids /\ guards' = guards
      /\ Live' = Live
  BY DEF vars, memory, Live
<1> QED BY <1>1 DEF Inv, TypeOK, StoreInv, MemoryInv, IdInv, Named, GuardInv,
                    QueuesOwnSlots

\* Inv holds whatever stores the program creates and drops, and whichever store it
\* gives an Id or a guard to.
THEOREM Invariance == Spec => []Inv
<1>1. ASSUME Inv, Next
      PROVE  Inv'
  <2>1. ASSUME NEW s \in Stores, RwStore_new(s) \/ drop(s)
        PROVE  Inv'
    BY <1>1, <2>1, NewStep, DropStep
  <2>2. ASSUME NEW s \in Stores, NEW a \in Addresses, insert(s, a)
        PROVE  Inv'
    BY <1>1, <2>2, InsertStep
  <2>3. ASSUME NEW s \in Stores, NEW id \in ids, write(s, id) \/ remove(s, id)
        PROVE  Inv'
    BY <1>1, <2>3, WriteStep, RemoveStep
  <2>4. ASSUME NEW s \in Stores, NEW g \in guards, remove_locked(s, g)
        PROVE  Inv'
    BY <1>1, <2>4, RemoveLockedStep
  <2>5. ASSUME NEW g \in guards, unlock_write(g)
        PROVE  Inv'
    BY <1>1, <2>5, UnlockStep
  <2> QED BY <1>1, <2>1, <2>2, <2>3, <2>4, <2>5 DEF Next
<1> QED BY InvInit, <1>1, StutterStep, PTL DEF Spec

-----------------------------------------------------------------------------
\* An Id that passes assert_native_id names memory of the store it was given to,
\* for as long as the program runs and however often memory changes hands.
THEOREM NativeIdsResolveHolds == Spec => []NativeIdsResolve
<1>1. Inv => NativeIdsResolve
  BY Passed DEF NativeIdsResolve, Named
<1> QED BY Invariance, <1>1, PTL

\* A store queues its own empty slots only, each once.
THEOREM QueuesOwnSlotsHolds == Spec => []QueuesOwnSlots
<1>1. Inv => QueuesOwnSlots
  BY DEF Inv
<1> QED BY Invariance, <1>1, PTL

\* Every insertion returns an Id that no store has returned before.
THEOREM IdsUniqueHolds == Spec => IdsUnique
<1> DEFINE New == \A a \in Addresses :
                      header'[a].occupied /\ ~header[a].occupied => ids' # ids
<1>1. ASSUME Inv, Next
      PROVE  New
  <2> SUFFICES ASSUME NEW a \in Addresses, header'[a].occupied, ~header[a].occupied,
                      ids' = ids
               PROVE  FALSE
    OBVIOUS
  <2>0. header \in [Addresses -> [id : Nat, occupied : BOOLEAN, locked : BOOLEAN]]
    BY <1>1 DEF Inv, TypeOK
  <2>1. ASSUME NEW s \in Stores, RwStore_new(s) \/ drop(s)
        PROVE  FALSE
    BY <2>1 DEF RwStore_new, drop, memory, NewHeader
  <2>2. ASSUME NEW s \in Stores, NEW c \in Addresses, insert(s, c)
        PROVE  FALSE
    <3>1. PICK new : new = [ordinal |-> header[c].id, slot_address |-> c,
                            store_id |-> store_id[s]]
      OBVIOUS
    <3>2. new \in ids
      BY <2>2, <3>1 DEF insert
    <3>3. new.ordinal = header[c].id /\ new.slot_address = c /\ new.store_id = store_id[s]
      BY <3>1
    <3> QED BY <1>1, <2>2, <3>2, <3>3, Located
  <2>3. ASSUME NEW id \in ids, NEW b \in BOOLEAN,
               header' = [header EXCEPT ![id.slot_address].locked = b]
        PROVE  FALSE
    BY <2>0, <2>3
  <2>4. ASSUME NEW s \in Stores, NEW id \in ids, Erase(s, id)
        PROVE  FALSE
    BY <2>0, <2>4 DEF Erase, NewHeader
  <2>5. guards \subseteq ids
    BY <1>1 DEF Inv, TypeOK
  <2>6. ASSUME NEW s \in Stores, NEW id \in ids, write(s, id) \/ remove(s, id)
        PROVE  FALSE
    BY <2>3, <2>4, <2>6 DEF write, remove
  <2>7. ASSUME NEW s \in Stores, NEW g \in guards, remove_locked(s, g)
        PROVE  FALSE
    BY <2>4, <2>5, <2>7 DEF remove_locked, memory
  <2>8. ASSUME NEW g \in guards, unlock_write(g)
        PROVE  FALSE
    BY <2>3, <2>5, <2>8 DEF unlock_write
  <2> QED BY <1>1, <2>1, <2>2, <2>6, <2>7, <2>8 DEF Next
<1>2. Inv /\ [Next]_vars => [New]_vars
  BY <1>1
<1> QED BY Invariance, <1>2, PTL DEF Spec, IdsUnique
=============================================================================
