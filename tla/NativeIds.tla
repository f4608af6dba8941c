----------------------------- MODULE NativeIds ------------------------------
(***************************************************************************)
(* Several stores in one program, in a build with debug assertions         *)
(* (src/src/rwstore_id.rs, src/src/id.rs and assert_native_id in           *)
(* src/src/lib.rs).  An Id is the address of a slot, an ordinal and the id *)
(* of the store that made it; it may be given to any store, and may        *)
(* outlive its own, whose memory the allocator then gives to another.  The *)
(* check must keep each store to its own slots.                            *)
(*                                                                         *)
(* The operations are steps, as Slot and Store show; a call that the check *)
(* refuses panics and changes nothing, but for remove_locked.  Of the      *)
(* guards only write guards are modelled: the check stands before a read   *)
(* as it does before a write.                                              *)
(***************************************************************************)
EXTENDS Naturals, SequencesExt

CONSTANTS Stores,           \* the variables of the program that hold a store
          Addresses,        \* the memory that slots may be placed in
          RESERVED_ID,      \* the ordinal that is never given out
          MaxStores,        \* bound: stores created
          NoStore           \* the memory belongs to no store

ASSUME NativeReservedAssumption == RESERVED_ID \in Nat \ {0}
ASSUME MaxStoresAssumption == MaxStores \in Nat
ASSUME NoStoreAssumption == NoStore \notin Stores

VARIABLES
    NEXT_RWSTORE_ID,    \* the counter all stores share
    store_id,           \* the ids of the stores that exist
    owner,              \* the store whose block a slot is in
    header,             \* each slot: its ordinal, whether it is occupied and
                        \* whether it is locked
    erasures,           \* each store's queue of slots ready for insertion
    ids,                \* the Ids insert has returned
    guards              \* the write guards that are held

memory == <<owner, header>>
vars == <<NEXT_RWSTORE_ID, store_id, memory, erasures, ids, guards>>

Live == DOMAIN store_id

NewHeader == [id |-> 0, occupied |-> FALSE, locked |-> FALSE]

Init ==
    /\ NEXT_RWSTORE_ID = 0
    /\ store_id = [s \in {} |-> 0]
    /\ owner = [a \in Addresses |-> NoStore]
    /\ header = [a \in Addresses |-> NewHeader]
    /\ erasures = [s \in {} |-> <<>>]
    /\ ids = {}
    /\ guards = {}

-----------------------------------------------------------------------------
\* Fault variant: the id of a store that was dropped is used again.
generate_lowest ==
    CHOOSE n \in 0 .. MaxStores : \A s \in Live : store_id[s] # n

\* RwStoreId::generate: fetch_add returns the value before.
generate == NEXT_RWSTORE_ID

\* RwStore::new
RwStore_new(s) ==
    /\ s \notin Live
    /\ NEXT_RWSTORE_ID < MaxStores
    /\ NEXT_RWSTORE_ID' = NEXT_RWSTORE_ID + 1
    /\ store_id' = [x \in Live \cup {s} |->
                       IF x = s THEN generate ELSE store_id[x]]
    /\ erasures' = [x \in Live \cup {s} |->
                       IF x = s THEN <<>> ELSE erasures[x]]
    /\ UNCHANGED <<memory, ids, guards>>

\* Fault variant: nothing is asserted, as in a release build.
assert_native_id_not(s, id) == TRUE

\* RwStore::assert_native_id
assert_native_id(s, id) == store_id[s] = id.store_id

\* The slots a store may insert into: the first in its queue, or else one in
\* memory that is free.
Locations(s) == IF erasures[s] = <<>>
                THEN {a \in Addresses : owner[a] = NoStore}
                ELSE {Head(erasures[s])}

\* RwStore::insert and Block::insert, which makes the Id.
insert(s, a) ==
    /\ s \in Live
    /\ a \in Locations(s)
    /\ owner' = IF erasures[s] = <<>> THEN [owner EXCEPT ![a] = s] ELSE owner
    /\ erasures' = IF erasures[s] = <<>> THEN erasures
                                         ELSE [erasures EXCEPT ![s] = Tail(@)]
    /\ header' = [header EXCEPT ![a].occupied = TRUE]
    /\ ids' = ids \cup {[ordinal |-> header[a].id, slot_address |-> a,
                         store_id |-> store_id[s]]}
    /\ UNCHANGED <<NEXT_RWSTORE_ID, store_id, guards>>

\* The store is given an Id that passes the check and names an element.
Found(s, id) ==
    /\ s \in Live
    /\ assert_native_id(s, id)
    /\ header[id.slot_address].id = id.ordinal

\* RwStore::write succeeds.
write(s, id) ==
    /\ Found(s, id)
    /\ ~header[id.slot_address].locked
    /\ header' = [header EXCEPT ![id.slot_address].locked = TRUE]
    /\ guards' = guards \cup {id}
    /\ UNCHANGED <<NEXT_RWSTORE_ID, store_id, owner, erasures, ids>>

\* The guard is dropped.
unlock_write(g) ==
    /\ header' = [header EXCEPT ![g.slot_address].locked = FALSE]
    /\ guards' = guards \ {g}
    /\ UNCHANGED <<NEXT_RWSTORE_ID, store_id, owner, erasures, ids>>

may_reuse(ordinal) == ordinal + 1 # RESERVED_ID

\* The slot is emptied and, if its ordinals have not run out, queued.
Erase(s, id) ==
    /\ header' = [header EXCEPT ![id.slot_address] =
                     [NewHeader EXCEPT !.id = id.ordinal + 1]]
    /\ erasures' = IF may_reuse(id.ordinal)
                   THEN [erasures EXCEPT ![s] = Append(@, id.slot_address)]
                   ELSE erasures
    /\ UNCHANGED <<NEXT_RWSTORE_ID, store_id, owner, ids>>

\* RwStore::remove succeeds.
remove(s, id) ==
    /\ Found(s, id)
    /\ ~header[id.slot_address].locked
    /\ Erase(s, id)
    /\ UNCHANGED guards

\* Fault variant: the assertion is missing here.
remove_locked_unchecked(s, g) ==
    /\ s \in Live
    /\ guards' = guards \ {g}
    /\ Erase(s, g)

\* RwStore::remove_locked forgets the guard first, and then panics if it is
\* another store's.
remove_locked(s, g) ==
    /\ s \in Live
    /\ guards' = guards \ {g}
    /\ IF assert_native_id(s, g)
       THEN Erase(s, g)
       ELSE UNCHANGED <<NEXT_RWSTORE_ID, store_id, memory, erasures, ids>>

\* The store is dropped and its memory freed.  No guard borrows from it; with
\* an element left locked Header::drop panics, as SlotExclusive shows.
drop(s) ==
    /\ s \in Live
    /\ \A g \in guards : owner[g.slot_address] # s
    /\ \A a \in Addresses : owner[a] = s => ~header[a].locked
    /\ owner' = [a \in Addresses |-> IF owner[a] = s THEN NoStore
                                                     ELSE owner[a]]
    /\ header' = [a \in Addresses |-> IF owner[a] = s THEN NewHeader
                                                      ELSE header[a]]
    /\ store_id' = [x \in Live \ {s} |-> store_id[x]]
    /\ erasures' = [x \in Live \ {s} |-> erasures[x]]
    /\ UNCHANGED <<NEXT_RWSTORE_ID, ids, guards>>

Next ==
    \/ \E s \in Stores :
          \/ RwStore_new(s) \/ drop(s)
          \/ \E a \in Addresses : insert(s, a)
          \/ \E id \in ids : write(s, id) \/ remove(s, id)
          \/ \E g \in guards : remove_locked(s, g)
    \/ \E g \in guards : unlock_write(g)

Spec == Init /\ [][Next]_vars

-----------------------------------------------------------------------------
\* "Using a lock from another store will panic": an Id that passes the check
\* names memory of that store, though Ids outlive stores and memory is given
\* from one store to the next (slot_from_id follows the address unchecked).
NativeIdsResolve ==
    \A s \in Live, id \in ids :
        assert_native_id(s, id) => owner[id.slot_address] = s

\* A store queues its own slots only, each at most once, so no insertion writes
\* into memory of another store, or memory that was freed.
QueuesOwnSlots ==
    \A s \in Live : /\ IsInjective(erasures[s])
                    /\ \A a \in ToSet(erasures[s]) :
                           owner[a] = s /\ ~header[a].occupied

\* No Id is returned twice, by one store or by two, even when the same memory
\* is used again from its first ordinal on.
IdsUnique ==
    [][\A a \in Addresses :
          header'[a].occupied /\ ~header[a].occupied => ids' # ids]_vars
=============================================================================
