-------------------------- MODULE MemoryOrderProofs ---------------------------
(***************************************************************************)
(* That the accesses to an element are published, and that a slot is       *)
(* reused after its removal, proved for any number of threads, ordinals,   *)
(* concurrent reads and guards.  The steps are steps of Slot, so its       *)
(* invariant holds; MemInv is what has to be added to it about the order.  *)
(***************************************************************************)
EXTENDS MemoryOrder, SlotProofs

\* The types of what MemoryOrder adds; a thread knows its own reads.
MemTypeOK ==
    /\ unseen \in [Places -> SUBSET Accesses]
    /\ \A t \in Threads : t \notin unseen[t]

\* The holder of the WriteLock may lack earlier writes, which the exchange that
\* made the lock did not acquire, but those the word has; its own it knows.
WriterKnows == \A w \in write_locks : "write" \notin unseen["word"] \cap unseen[w.owner]

\* Whoever does not know of the accesses in U comes after the removal.
Settled(U) ==
    /\ emptied.by \notin U
    /\ emptied.op = "remove_locked" => U = {}

\* The empty slot on its way from the removal to the next insertion.
Handing(t) ==
    \/ pc[t] \in {"push", "fill"}
    \/ pc[t] = "unpark" /\ call[t].op = "remove_locked" /\ may_reuse(call[t].id)

\* The remover, the queue and the inserter come after the removal, and an
\* insertion that has written the element knows of all accesses.
HandedOver ==
    /\ vacant => Settled(unseen["queue"])
    /\ \A t \in Threads : /\ Handing(t) => Settled(unseen[t])
                          /\ pc[t] = "occupy" => unseen[t] = {}
                          /\ pc[t] = "take" => call[t].op = "remove"

\* What holds beside the invariant of Slot.
MemInv == MemTypeOK /\ AccessesPublished /\ WriterKnows /\ HandedOver

-----------------------------------------------------------------------------
\* Threads and the other places are different.
LEMMA PlaceNames ==
  /\ Threads \subseteq Places /\ {"word", "mutex", "queue", "id"} \subseteq Places
  /\ \A t \in Threads : t \notin {"write", "word", "mutex", "queue", "id"}
  /\ Threads \subseteq Accesses /\ "write" \in Accesses
BY PlacesAssumption DEF Places, Accesses

\* Telling changes what one place knows.
LEMMA Told ==
  ASSUME NEW u \in [Places -> SUBSET Accesses], NEW from \in Places, NEW to \in Places
  PROVE  /\ Tell(u, from, to) \in [Places -> SUBSET Accesses]
         /\ Tell(u, from, to)[to] = u[to] \cap u[from]
         /\ \A p \in Places \ {to} : Tell(u, from, to)[p] = u[p]
         /\ \A p \in Places : Tell(u, from, to)[p] \subseteq u[p]
BY DEF Tell

\* What v leaves unseen, u leaves unseen too; the queue is as it was.
Less(v, u) ==
    /\ v \in [Places -> SUBSET Accesses]
    /\ \A p \in Threads \cup {"word"} : v[p] \subseteq u[p]
    /\ v["queue"] = u["queue"]

\* Telling a place that is not the queue only spreads knowledge.
LEMMA TellLess ==
  ASSUME NEW u \in [Places -> SUBSET Accesses], NEW from \in Places, NEW to \in Places,
         to # "queue"
  PROVE  Less(Tell(u, from, to), u)
BY Told, PlaceNames DEF Less

\* Two exchanges one after the other only spread knowledge if each does.
LEMMA LessTransitive ==
  ASSUME NEW u, NEW v, NEW w, Less(w, v), Less(v, u)
  PROVE  Less(w, u)
BY DEF Less

\* The exchange of one of Slot's steps only spreads knowledge.
LEMMA ExchangeLess ==
  ASSUME NEW t \in Threads, unseen \in [Places -> SUBSET Accesses], Exchange(t)
  PROVE  /\ Less(unseen', unseen)
         /\ Exchanged(t) => unseen'["word"] \subseteq unseen[t]
<1> DEFINE v == IF Exchanged(t) THEN compare_exchange(unseen, t) ELSE unseen
<1>1. v = unseen \/ v = Tell(unseen, t, "word")
  BY DEF compare_exchange, Release
<1>2. Exchanged(t) => v = Tell(unseen, t, "word")
  BY DEF compare_exchange, Release
<1>3. unseen' = v \/ unseen' = Tell(v, t, "mutex")
  BY DEF Exchange
<1> HIDE DEF v
<1>4. Less(v, unseen)
  BY <1>1, TellLess, PlaceNames DEF Less
<1>5. v \in [Places -> SUBSET Accesses]
  BY <1>4 DEF Less
<1>6. Less(unseen', v) /\ unseen'["word"] = v["word"]
  <2>1. CASE unseen' = v
    BY <1>5, <2>1 DEF Less
  <2>2. CASE unseen' = Tell(v, t, "mutex")
    <3>1. t \in Places /\ "mutex" \in Places /\ "word" \in Places \ {"mutex"}
      BY PlaceNames
    <3>2. Less(Tell(v, t, "mutex"), v)
      BY <1>5, <3>1, TellLess
    <3>3. Tell(v, t, "mutex")["word"] = v["word"]
      BY <1>5, <3>1 DEF Tell
    <3> QED BY <2>2, <3>2, <3>3
  <2> QED BY <1>3, <2>1, <2>2
<1>7. Exchanged(t) => v["word"] \subseteq unseen[t]
  BY <1>2, Told, PlaceNames
<1> QED BY <1>4, <1>6, <1>7, LessTransitive

\* swap and fetch_or: the thread and the word know the same.
LEMMA SwapFacts ==
  ASSUME NEW t \in Threads, NEW u \in [Places -> SUBSET Accesses]
  PROVE  /\ Less(swap(u, t), u)
         /\ swap(u, t)[t] = u[t] \cap u["word"]
         /\ swap(u, t)["word"] = u[t] \cap u["word"]
         /\ fetch_or(u, t) = swap(u, t)
<1> DEFINE v == Tell(u, "word", t)
<1>1. v \in [Places -> SUBSET Accesses] /\ v[t] = u[t] \cap u["word"]
      /\ v["word"] = u["word"] /\ Less(v, u)
  BY Told, TellLess, PlaceNames
<1>2. swap(u, t) = Tell(v, t, "word") /\ fetch_or(u, t) = swap(u, t)
  BY DEF swap, fetch_or, Release, Acquire
<1> HIDE DEF v
<1>3. /\ Less(Tell(v, t, "word"), v)
      /\ Tell(v, t, "word")[t] = v[t]
      /\ Tell(v, t, "word")["word"] = v["word"] \cap v[t]
  BY <1>1, Told, TellLess, PlaceNames
<1>4. Less(swap(u, t), u)
  BY <1>1, <1>2, <1>3, LessTransitive
<1> QED BY <1>1, <1>2, <1>3, <1>4

-----------------------------------------------------------------------------
\* The threads that have guards.
Owners == {g.owner : g \in read_locks \cup write_locks}

\* An empty slot has no guards.
LEMMA NoGuards ==
  ASSUME Inv, ~is_occupied(state)
  PROVE  read_locks = {} /\ write_locks = {}
BY LockedHeader

\* Spreading knowledge keeps the types.
LEMMA TypeKeep ==
  ASSUME MemInv, Less(unseen', unseen)
  PROVE  MemTypeOK'
BY DEF MemInv, MemTypeOK, Less

\* It keeps the order between removal and insertion where no thread begins to hand
\* the slot on, to occupy it or to empty it.
LEMMA HandedKeep ==
  ASSUME MemInv, Less(unseen', unseen), emptied' = emptied, vacant' => vacant,
         \A t \in Threads : /\ Handing(t)' => Handing(t)
                            /\ pc'[t] = "occupy" => pc[t] = "occupy"
                            /\ pc'[t] = "take" => \/ pc[t] = "take" /\ call'[t] = call[t]
                                                  \/ call'[t].op = "remove"
  PROVE  HandedOver'
<1>1. vacant' => Settled(unseen["queue"])'
  BY DEF MemInv, HandedOver, Settled, Less
<1>2. ASSUME NEW t \in Threads
      PROVE  /\ Handing(t)' => Settled(unseen[t])'
             /\ pc'[t] = "occupy" => unseen'[t] = {}
             /\ pc'[t] = "take" => call'[t].op = "remove"
  <2>1. unseen'[t] \subseteq unseen[t]
    BY DEF Less
  <2>2. Handing(t)' => Settled(unseen[t])
    BY DEF MemInv, HandedOver
  <2>3. Handing(t)' => Settled(unseen[t])'
    BY <2>1, <2>2 DEF Settled
  <2>4. pc'[t] = "occupy" => unseen'[t] = {}
    BY <2>1 DEF MemInv, HandedOver
  <2>5. pc'[t] = "take" => call'[t].op = "remove"
    BY DEF MemInv, HandedOver
  <2> QED BY <2>3, <2>4, <2>5
<1> QED BY <1>1, <1>2 DEF HandedOver

\* A step that only spreads knowledge, and at which no guard goes and nothing is
\* inserted, handed on or emptied.
LEMMA Quiet ==
  ASSUME Inv, MemInv, Less(unseen', unseen), emptied' = emptied, vacant' => vacant,
         is_occupied(state') => is_occupied(state),
         read_locks \subseteq read_locks', write_locks \subseteq write_locks',
         write_locks' \subseteq write_locks \/ write_locks = {},
         \A t \in Threads : /\ Handing(t)' => Handing(t)
                            /\ pc'[t] = "occupy" => pc[t] = "occupy"
                            /\ pc'[t] = "take" => \/ pc[t] = "take" /\ call'[t] = call[t]
                                                  \/ call'[t].op = "remove",
         write_locks' # write_locks => is_occupied(state),
         \A w \in write_locks' : w.owner \in Threads
  PROVE  MemInv'
<1>1. MemTypeOK' /\ HandedOver'
  BY TypeKeep, HandedKeep
<1>2. AccessesPublished'
  BY DEF MemInv, AccessesPublished, Less
<1>3. WriterKnows'
  <2> SUFFICES ASSUME NEW w \in write_locks', "write" \in unseen'["word"] \cap unseen'[w.owner]
               PROVE  FALSE
    BY DEF WriterKnows
  <2>1. "write" \in unseen["word"] \cap unseen[w.owner]
    BY DEF Less
  <2>2. w \notin write_locks
    BY <2>1 DEF MemInv, WriterKnows
  <2>3. write_locks = {} /\ is_occupied(state)
    BY <2>2
  <2>4. "write" \in Owners
    BY <2>1, <2>3 DEF MemInv, AccessesPublished, Owners
  <2>5. Owners \subseteq Threads
    BY DEF Owners, Inv, TypeOK, ReadLocks, WriteLocks
  <2> QED BY <2>4, <2>5, PlaceNames
<1> QED BY <1>1, <1>2, <1>3 DEF MemInv

\* Where a thread neither hands a slot on nor is about to occupy or empty it.
Plain == {"idle", "load", "read_cas", "transition", "park", "eval", "mark", "parked",
          "unlock_cas", "swap"}

\* Only thread t moves.
Moves(t) == \A u \in Threads \ {t} : pc'[u] = pc[u] /\ call'[u] = call[u]

\* The same for a step of one thread of Slot.
LEMMA QuietThread ==
  ASSUME Inv, MemInv, NEW t \in Threads, Less(unseen', unseen), emptied' = emptied,
         vacant' = vacant, is_occupied(state') => is_occupied(state),
         read_locks \subseteq read_locks',
         \/ write_locks' = write_locks
         \/ /\ write_locks = {} /\ is_occupied(state)
            /\ \A w \in write_locks' : w.owner = t,
         Moves(t), pc'[t] \in Plain \/ (pc'[t] = "take" /\ call'[t].op = "remove")
  PROVE  MemInv'
<1>1. \A w \in write_locks' : w.owner \in Threads
  BY DEF Inv, TypeOK, WriteLocks
<1>2. ASSUME NEW u \in Threads
      PROVE  /\ Handing(u)' => Handing(u)
             /\ pc'[u] = "occupy" => pc[u] = "occupy"
             /\ pc'[u] = "take" => \/ pc[u] = "take" /\ call'[u] = call[u]
                                   \/ call'[u].op = "remove"
  BY DEF Moves, Handing, Plain
<1> QED BY <1>1, <1>2, Quiet

\* How a call of Slot moves on.
LEMMA Control ==
  ASSUME Inv, NEW t \in Threads
  PROVE  /\ \A r : Return(t, r) => Moves(t) /\ pc'[t] = "idle"
         /\ \A q : Go(t, q) => Moves(t) /\ pc'[t] = q /\ call' = call
         /\ \A q, c : GoWith(t, q, c) => Moves(t) /\ pc'[t] = q /\ call' = call
         /\ \A op, id, d, q : Begin(t, op, id, d, q) =>
                Moves(t) /\ pc'[t] = q /\ call'[t].op = op /\ pc[t] = "idle"
BY DEF Inv, TypeOK, Return, Go, GoWith, Begin, Moves

\* lock_read_with_current ends at a plain place.
LEMMA WithCurrentPlain ==
  ASSUME Inv, NEW t \in Threads, NEW c, lock_read_with_current(t, c)
  PROVE  Moves(t) /\ pc'[t] \in Plain
BY Control DEF lock_read_with_current, Slow, Increment, Plain

\* A write lock or a removal that exchanges the word finds an occupied, unlocked
\* slot; the lock it takes is its thread's, and a removal goes on to move the element.
LEMMA TransitionedPlain ==
  ASSUME Inv, NEW t \in Threads, call[t].op \in {"write", "remove"}, Transitioned(t),
         state = expected(t), call[t].id \in Ordinals
  PROVE  /\ Moves(t)
         /\ pc'[t] \in Plain \/ (pc'[t] = "take" /\ call'[t].op = "remove")
         /\ is_occupied(state)
         /\ \/ write_locks' = write_locks
            \/ /\ write_locks = {} /\ is_occupied(state)
               /\ \A w \in write_locks' : w.owner = t
<1>1. state.readers = 0 /\ is_occupied(state)
  BY StateFields DEF expected
<1>2. write_locks = {}
  BY <1>1, LockedHeader
<1>3. CASE call[t].op = "write"
  BY <1>1, <1>2, <1>3, Control DEF Transitioned, Plain
<1>4. CASE call[t].op = "remove"
  BY <1>1, <1>4, Control DEF Transitioned, Plain
<1> QED BY <1>3, <1>4

-----------------------------------------------------------------------------
\* The steps of header.rs that spread knowledge only.

\* The relaxed load at the start of a lock call leaves the order alone.
LEMMA lock_readOrder ==
  ASSUME Inv, MemInv, NEW t \in Threads, lock_read(t), UNCHANGED unseen, UNCHANGED emptied
  PROVE  MemInv'
<1>1. Less(unseen', unseen)
  BY DEF MemInv, MemTypeOK, Less
<1>2. Moves(t) /\ pc'[t] \in Plain
  BY WithCurrentPlain DEF lock_read
<1>3. state' = state /\ vacant' = vacant /\ read_locks' = read_locks /\ write_locks' = write_locks
  BY DEF lock_read, slotVars, guardVars
<1> QED BY <1>1, <1>2, <1>3, QuietThread

\* The exchange of lock_read, or its retry, keeps the order.
LEMMA read_casOrder ==
  ASSUME Inv, MemInv, NEW t \in Threads, read_cas(t), Exchange(t), UNCHANGED emptied
  PROVE  MemInv'
<1>1. Less(unseen', unseen)
  BY ExchangeLess DEF MemInv, MemTypeOK
<1>2. vacant' = vacant /\ write_locks' = write_locks
  BY DEF read_cas, slotVars
<1>3. CASE /\ state = current[t] /\ state' = increment_readers(current[t])
           /\ NewReadLock(t) /\ Return(t, "ok")
  <2>1. Moves(t) /\ pc'[t] \in Plain /\ read_locks \subseteq read_locks'
    BY <1>3, Control DEF Plain, NewReadLock
  <2>2. is_occupied(state') => is_occupied(state)
    <3>1. pc[t] = "read_cas"
      BY DEF read_cas
    <3>2. call[t].id \in issued /\ current[t].id = call[t].id
      BY <3>1 DEF Inv, CallInv
    <3> QED BY <1>3, <3>2, IssuedIds
  <2> QED BY <1>1, <1>2, <2>1, <2>2, QuietThread
<1>4. CASE lock_read_with_current(t, state) /\ UNCHANGED <<state, read_locks>>
  BY <1>1, <1>2, <1>4, WithCurrentPlain, QuietThread
<1> QED BY <1>3, <1>4 DEF read_cas

\* The exchange of lock_write and remove, or its retry, keeps the order.
LEMMA transitionOrder ==
  ASSUME Inv, MemInv, NEW t \in Threads, transition(t), Exchange(t), UNCHANGED emptied
  PROVE  MemInv'
<1>1. Less(unseen', unseen)
  BY ExchangeLess DEF MemInv, MemTypeOK
<1>2. vacant' = vacant /\ read_locks' = read_locks /\ pc[t] = "transition"
  BY DEF transition, slotVars
<1>3. call[t].op \in {"write", "remove"} /\ call[t].id \in Ordinals
  BY <1>2 DEF Inv, CallInv, TypeOK, Calls
<1>4. CASE state = expected(t) /\ Transitioned(t)
  BY <1>1, <1>2, <1>3, <1>4, TransitionedPlain, QuietThread
<1>5. CASE /\ state' = state /\ write_locks' = write_locks
           /\ Slow(t) \/ Go(t, "transition") \/ Return(t, "none")
  <2>1. Moves(t) /\ pc'[t] \in Plain
    BY <1>5, Control DEF Slow, Plain
  <2> QED BY <1>1, <1>2, <1>5, <2>1, QuietThread
<1> QED BY <1>4, <1>5 DEF transition

\* The closure run under the queue's mutex, exchange included, keeps the order.
LEMMA evalOrder ==
  ASSUME Inv, MemInv, NEW t \in Threads, eval(t), Exchange(t), UNCHANGED emptied
  PROVE  MemInv'
<1>1. Less(unseen', unseen)
  BY ExchangeLess DEF MemInv, MemTypeOK
<1>2. vacant' = vacant /\ read_locks' = read_locks /\ pc[t] = "eval"
  BY DEF eval, slotVars
<1>3. call[t].op \in {"read", "write", "remove"} /\ call[t].id \in Ordinals
  BY <1>2 DEF Inv, CallInv, TypeOK, Calls
<1>4. CASE state = expected(t) /\ Transitioned(t) /\ call[t].op # "read"
  BY <1>1, <1>2, <1>3, <1>4, TransitionedPlain, QuietThread
<1>5. CASE /\ state' = state /\ write_locks' = write_locks
           /\ \/ Return(t, "none") \/ GoWith(t, "mark", state)
              \/ Increment(t, state)
  <2>1. Moves(t) /\ pc'[t] \in Plain
    BY <1>5, Control DEF Increment, Plain
  <2> QED BY <1>1, <1>2, <1>5, <2>1, QuietThread
<1> QED BY <1>4, <1>5 DEF eval, EvalRead, EvalTransition

\* Clearing the notification bit before parking keeps the order.
LEMMA markOrder ==
  ASSUME Inv, MemInv, NEW t \in Threads, mark(t), Exchange(t), UNCHANGED emptied
  PROVE  MemInv'
<1>1. Less(unseen', unseen)
  BY ExchangeLess DEF MemInv, MemTypeOK
<1>2. vacant' = vacant /\ read_locks' = read_locks /\ write_locks' = write_locks
      /\ pc[t] = "mark" /\ Moves(t) /\ pc'[t] \in Plain
  BY Control DEF mark, slotVars, guardVars, Plain
<1>3. current[t].readers > 0 /\ current[t] \in States
  BY <1>2 DEF Inv, CallInv, TypeOK
<1>4. is_occupied(state') => is_occupied(state)
  BY <1>3 DEF mark, is_occupied, States
<1> QED BY <1>1, <1>2, <1>4, QuietThread

\* Taking the mutex, and giving up, as the parking lot runs them.
LEMMA parkOrder ==
  ASSUME Inv, MemInv, NEW t \in Threads, UNCHANGED emptied,
         \/ park(t) /\ unseen' = Tell(unseen, "mutex", t)
         \/ TimeOut(t) /\ unseen' = Tell(Tell(unseen, "mutex", t), t, "mutex")
  PROVE  MemInv'
<1>1. unseen \in [Places -> SUBSET Accesses]
  BY DEF MemInv, MemTypeOK
<1>2. Less(Tell(unseen, "mutex", t), unseen)
  BY <1>1, TellLess, PlaceNames
<1>3. Less(Tell(Tell(unseen, "mutex", t), t, "mutex"), Tell(unseen, "mutex", t))
  <2>1. Tell(unseen, "mutex", t) \in [Places -> SUBSET Accesses]
    BY <1>2 DEF Less
  <2> QED BY <2>1, TellLess, PlaceNames
<1>4. Less(unseen', unseen)
  BY <1>2, <1>3, LessTransitive
<1>5. /\ state' = state /\ vacant' = vacant /\ read_locks' = read_locks
      /\ write_locks' = write_locks /\ Moves(t) /\ pc'[t] \in Plain
  BY Control DEF park, TimeOut, slotVars, guardVars, Plain
<1> QED BY <1>4, <1>5, QuietThread

\* Starting a call, with what its Id brings along.
LEMMA CallOrder ==
  ASSUME Inv, MemInv, NEW t \in Threads, UNCHANGED emptied,
         NEW op, NEW id, NEW d, CallM(t, op, id, d)
  PROVE  MemInv'
<1>1. unseen \in [Places -> SUBSET Accesses]
  BY DEF MemInv, MemTypeOK
<1>2. Less(unseen', unseen)
  <2>1. unseen' = unseen \/ unseen' = Tell(unseen, "id", t)
    BY DEF CallM
  <2>2. Less(unseen, unseen)
    BY <1>1 DEF Less
  <2> QED BY <1>1, <2>1, <2>2, TellLess, PlaceNames
<1>3. /\ state' = state /\ vacant' = vacant /\ read_locks' = read_locks
      /\ write_locks' = write_locks /\ Moves(t) /\ pc'[t] \in Plain
  BY Control DEF CallM, Call, slotVars, guardVars, Plain
<1> QED BY <1>2, <1>3, QuietThread

\* The start of dropping a read guard leaves the order alone.
LEMMA DropReadOrder ==
  ASSUME Inv, MemInv, NEW t \in Threads, DropRead(t), UNCHANGED unseen, UNCHANGED emptied
  PROVE  MemInv'
<1>1. Less(unseen', unseen)
  BY DEF MemInv, MemTypeOK, Less
<1>2. /\ state' = state /\ vacant' = vacant /\ read_locks' = read_locks
      /\ write_locks' = write_locks /\ Moves(t) /\ pc'[t] \in Plain
  BY Control DEF DropRead, slotVars, guardVars, Plain
<1> QED BY <1>1, <1>2, QuietThread

\* unpark_all: the threads that are woken learn what the waker knows.
LEMMA unparkOrder ==
  ASSUME Inv, MemInv, NEW t \in Threads, unparkM(t), UNCHANGED emptied
  PROVE  MemInv'
<1> DEFINE v == Tell(unseen, "mutex", t)
           u == Tell(v, t, "mutex")
<1>1. unseen \in [Places -> SUBSET Accesses]
  BY DEF MemInv, MemTypeOK
<1>2. Less(v, unseen)
  BY <1>1, TellLess, PlaceNames
<1>3. Less(u, v)
  <2>1. v \in [Places -> SUBSET Accesses]
    BY <1>2 DEF Less
  <2> HIDE DEF v
  <2> QED BY <2>1, TellLess, PlaceNames
<1>4. unseen' = [p \in Places |-> IF p \in parked THEN u[p] \cap u[t] ELSE u[p]]
  BY DEF unparkM
<1> HIDE DEF u, v
<1>5. u \in [Places -> SUBSET Accesses] /\ Less(u, unseen)
  BY <1>2, <1>3, LessTransitive DEF Less
<1>6. Less(unseen', u)
  <2>1. "queue" \notin parked
    BY PlaceNames DEF Inv, TypeOK
  <2> QED BY <1>4, <1>5, <2>1, PlaceNames DEF Less
<1>7. Less(unseen', unseen)
  BY <1>5, <1>6, LessTransitive
<1>8. /\ state' = state /\ vacant' = vacant /\ read_locks' = read_locks
      /\ write_locks' = write_locks /\ pc[t] = "unpark"
  BY DEF unparkM, unpark, slotVars, guardVars
<1>9. ASSUME NEW r \in Threads
      PROVE  /\ Handing(r)' => Handing(r)
             /\ pc'[r] # "take" \/ (pc[r] = "take" /\ call'[r] = call[r])
             /\ pc'[r] = "occupy" => pc[r] = "occupy"
  <2>1. pc'[r] = IF r \in parked THEN "park"
                 ELSE IF r # t THEN pc[r]
                 ELSE IF call[t].op # "remove_locked" \/ ~may_reuse(call[t].id)
                      THEN "idle" ELSE "push"
    BY DEF unparkM, unpark
  <2>2. r # t => call'[r] = call[r]
    BY DEF unparkM, unpark, Inv, TypeOK
  <2> QED BY <1>8, <2>1, <2>2 DEF Handing
<1>10. \A w \in write_locks' : w.owner \in Threads
  BY <1>8 DEF Inv, TypeOK, WriteLocks
<1> QED BY <1>7, <1>8, <1>9, <1>10, Quiet
-----------------------------------------------------------------------------
\* The steps that access the element, hand the slot on or let go of a guard.

\* Nothing is handed on while an element is in the slot.
LEMMA OccupiedAlone ==
  ASSUME Inv, is_occupied(state)
  PROVE  /\ ~vacant
         /\ \A u \in Threads : ~Handing(u) /\ pc[u] \notin {"occupy", "take"}
BY DEF Inv, OwnInv, Holder, Handing

\* An empty slot is handed on by one thread at a time, which has it alone.
LEMMA HolderAlone ==
  ASSUME Inv, NEW t \in Threads, Handing(t) \/ pc[t] \in {"occupy", "take"}
  PROVE  /\ ~vacant /\ ~is_occupied(state)
         /\ \A u \in Threads \ {t} : ~Handing(u) /\ pc[u] \notin {"occupy", "take"}
BY DEF Inv, OwnInv, Holder, Handing

\* What the word and the writer both lack: nothing.
LEMMA WriterAlone ==
  ASSUME Inv, MemInv, NEW w \in write_locks
  PROVE  /\ w.owner \in Threads /\ is_occupied(state)
         /\ write_locks = {w} /\ read_locks = {}
         /\ unseen["word"] \cap unseen[w.owner] = {}
<1>1. w.owner \in Threads /\ write_locks = {w} /\ read_locks = {}
  BY DEF Inv, LockInv, TypeOK, WriteLocks
<1>2. is_occupied(state)
  BY LockedHeader
<1>3. Owners = {w.owner}
  BY <1>1 DEF Owners
<1>4. unseen["word"] \subseteq {w.owner, "write"}
  BY <1>1, <1>2, <1>3 DEF MemInv, AccessesPublished, Owners
<1>5. w.owner \notin unseen[w.owner] /\ "write" \notin unseen["word"] \cap unseen[w.owner]
  BY <1>1 DEF MemInv, MemTypeOK, WriterKnows
<1> QED BY <1>1, <1>2, <1>4, <1>5

\* A read is new to all other places.
LEMMA ReadFacts ==
  ASSUME MemInv, NEW t \in Threads, Read(t)
  PROVE  /\ MemTypeOK'
         /\ unseen'[t] = unseen[t] \ {t}
         /\ \A p \in Places \ {t} : unseen'[p] = unseen[p] \cup {t}
<1>1. unseen \in [Places -> SUBSET Accesses] /\ \A u \in Threads : u \notin unseen[u]
  BY DEF MemInv, MemTypeOK
<1>2. /\ unseen'[t] = unseen[t] \ {t}
      /\ \A p \in Places \ {t} : unseen'[p] = unseen[p] \cup {t}
  BY PlaceNames DEF Read
<1>3. unseen' \in [Places -> SUBSET Accesses]
  BY <1>1, PlaceNames DEF Read
<1>4. \A u \in Threads : u \notin unseen'[u]
  BY <1>1, <1>2, PlaceNames
<1> QED BY <1>2, <1>3, <1>4 DEF MemTypeOK

\* A write makes all earlier accesses irrelevant.
LEMMA WriteFacts ==
  ASSUME NEW t \in Threads, Write(t)
  PROVE  /\ MemTypeOK' /\ unseen'[t] = {}
         /\ \A p \in Places \ {t} : unseen'[p] = {"write"}
<1>1. /\ unseen'[t] = {}
      /\ \A p \in Places \ {t} : unseen'[p] = {"write"}
      /\ unseen' \in [Places -> SUBSET Accesses]
  BY PlaceNames DEF Write
<1>2. \A u \in Threads : u \notin unseen'[u]
  BY <1>1, PlaceNames
<1> QED BY <1>1, <1>2 DEF MemTypeOK

\* insert: what the queue knows passes to the inserter.
LEMMA InsertOrder ==
  ASSUME Inv, MemInv, NEW t \in Threads, InsertM(t), UNCHANGED emptied
  PROVE  MemInv'
<1>1. /\ vacant /\ vacant' = FALSE /\ state' = state /\ read_locks' = read_locks
      /\ write_locks' = write_locks /\ Moves(t) /\ pc'[t] = "fill"
      /\ unseen' = [Tell(unseen, "queue", t) EXCEPT !["queue"] = {}]
  BY Control DEF InsertM, Insert, guardVars
<1>2. ~is_occupied(state) /\ read_locks = {} /\ write_locks = {}
  BY <1>1, NoGuards DEF Inv, OwnInv
<1>3. unseen \in [Places -> SUBSET Accesses] /\ \A u \in Threads : u \notin unseen[u]
  BY DEF MemInv, MemTypeOK
<1>4. /\ unseen' \in [Places -> SUBSET Accesses]
      /\ unseen'[t] = unseen[t] \cap unseen["queue"]
      /\ \A p \in Threads \ {t} : unseen'[p] = unseen[p]
  <2>1. /\ Tell(unseen, "queue", t) \in [Places -> SUBSET Accesses]
        /\ Tell(unseen, "queue", t)[t] = unseen[t] \cap unseen["queue"]
        /\ \A p \in Places \ {t} : Tell(unseen, "queue", t)[p] = unseen[p]
    BY <1>3, Told, PlaceNames
  <2> QED BY <1>1, <2>1, PlaceNames
<1>5. MemTypeOK'
  BY <1>3, <1>4 DEF MemTypeOK
<1>6. AccessesPublished' /\ WriterKnows'
  BY <1>1, <1>2 DEF AccessesPublished, WriterKnows
<1>7. ASSUME NEW u \in Threads
      PROVE  /\ Handing(u)' => Settled(unseen[u])'
             /\ pc'[u] = "occupy" => unseen'[u] = {}
             /\ pc'[u] = "take" => call'[u].op = "remove"
  <2>1. CASE u = t
    <3>1. Settled(unseen["queue"])
      BY <1>1 DEF MemInv, HandedOver
    <3>2. Settled(unseen[t])'
      BY <1>4, <3>1 DEF Settled
    <3> QED BY <1>1, <2>1, <3>2
  <2>2. CASE u # t
    BY <1>1, <1>4, <2>2 DEF MemInv, HandedOver, Moves, Handing, Settled
  <2> QED BY <2>1, <2>2
<1>8. HandedOver'
  BY <1>1, <1>7 DEF HandedOver
<1> QED BY <1>5, <1>6, <1>8 DEF MemInv

\* Block::insert writes the element.
LEMMA FillOrder ==
  ASSUME Inv, MemInv, NEW t \in Threads, Fill(t), Write(t), UNCHANGED emptied
  PROVE  MemInv'
<1>1. /\ pc[t] = "fill" /\ vacant' = vacant /\ state' = state /\ read_locks' = read_locks
      /\ write_locks' = write_locks /\ Moves(t) /\ pc'[t] = "occupy"
  BY Control DEF Fill, guardVars
<1>2. /\ ~vacant /\ ~is_occupied(state)
      /\ \A u \in Threads \ {t} : ~Handing(u) /\ pc[u] \notin {"occupy", "take"}
  BY <1>1, HolderAlone DEF Handing
<1>3. write_locks = {}
  BY <1>2, NoGuards
<1>4. MemTypeOK' /\ unseen'[t] = {}
  BY WriteFacts
<1>5. AccessesPublished' /\ WriterKnows'
  BY <1>1, <1>2, <1>3 DEF AccessesPublished, WriterKnows
<1>6. ASSUME NEW u \in Threads \ {t}
      PROVE  ~Handing(u)' /\ pc'[u] \notin {"occupy", "take"}
  BY <1>1, <1>2 DEF Moves, Handing
<1>7. ~Handing(t)'
  BY <1>1 DEF Handing
<1>8. HandedOver'
  BY <1>1, <1>2, <1>4, <1>6, <1>7 DEF HandedOver
<1> QED BY <1>4, <1>5, <1>8 DEF MemInv

\* occupy publishes what was done to the slot.
LEMMA occupyOrder ==
  ASSUME Inv, MemInv, NEW t \in Threads, occupyM(t)
  PROVE  MemInv'
<1>1. /\ pc[t] = "occupy" /\ vacant' = vacant /\ Moves(t) /\ pc'[t] = "idle"
  BY Control DEF occupyM, occupy
<1>2. /\ ~vacant
      /\ \A u \in Threads \ {t} : ~Handing(u) /\ pc[u] \notin {"occupy", "take"}
  BY <1>1, HolderAlone
<1>3. unseen \in [Places -> SUBSET Accesses] /\ unseen[t] = {}
  BY <1>1 DEF MemInv, MemTypeOK, HandedOver
<1> DEFINE v == fetch_or(unseen, t)
<1>4. Less(v, unseen) /\ v["word"] = {}
  BY <1>3, SwapFacts
<1>5. unseen' = [v EXCEPT !["id"] = v[t]]
  BY DEF occupyM
<1> HIDE DEF v
<1>6. Less(unseen', unseen) /\ unseen'["word"] = {}
  <2>1. v \in [Places -> SUBSET Accesses]
    BY <1>4 DEF Less
  <2>2. /\ unseen' \in [Places -> SUBSET Accesses]
        /\ \A p \in Places \ {"id"} : unseen'[p] = v[p]
    BY <1>5, <2>1, PlaceNames
  <2> QED BY <1>4, <2>2, PlaceNames DEF Less
<1>7. MemTypeOK'
  BY <1>6, TypeKeep
<1>8. AccessesPublished' /\ WriterKnows'
  BY <1>6 DEF AccessesPublished, WriterKnows
<1>9. ASSUME NEW u \in Threads
      PROVE  ~Handing(u)' /\ pc'[u] \notin {"occupy", "take"}
  BY <1>1, <1>2 DEF Moves, Handing
<1>10. HandedOver'
  BY <1>1, <1>2, <1>9 DEF HandedOver
<1> QED BY <1>7, <1>8, <1>10 DEF MemInv

\* unlock_read: the exchange that lets go of the guard publishes its reads.
LEMMA unlock_readOrder ==
  ASSUME Inv, MemInv, NEW t \in Threads, unlock_read(t), Exchange(t), UNCHANGED emptied
  PROVE  MemInv'
<1>1. Less(unseen', unseen) /\ (Exchanged(t) => unseen'["word"] \subseteq unseen[t])
  BY ExchangeLess DEF MemInv, MemTypeOK
<1>2. vacant' = vacant /\ write_locks' = write_locks /\ pc[t] = "unlock_cas"
  BY DEF unlock_read, slotVars
<1>3. CASE GoWith(t, "unlock_cas", state) /\ UNCHANGED <<state, read_locks>>
  <2>1. Moves(t) /\ pc'[t] \in Plain
    BY <1>3, Control DEF Plain
  <2> QED BY <1>1, <1>2, <1>3, <2>1, QuietThread
<1>4. CASE /\ state = current[t]
           /\ state' = read_unlocked(current[t])
           /\ \E g \in read_locks :
                  /\ g.owner = t
                  /\ \A h \in read_locks : h.owner = t => h.n <= g.n
                  /\ read_locks' = read_locks \ {g}
           /\ IF must_unpark(current[t]) THEN Go(t, "unpark") ELSE Return(t, "ok")
  <2>1. PICK g \in read_locks : g.owner = t /\ read_locks' = read_locks \ {g}
    BY <1>4
  <2>2. write_locks = {} /\ is_occupied(state) /\ state \in States
    BY LockedHeader DEF Inv, LockInv, TypeOK
  <2>3. Exchanged(t)
    <3>1. state.readers \in Nat /\ decrement_readers(state).readers = state.readers - 1
      BY <2>2, StateFields, LockedHeader
    <3>2. decrement_readers(state) \in States
      BY <2>1, <2>2, LockedHeader, StateWords
    <3>3. read_unlocked(state).readers = state.readers - 1
      BY <3>1, <3>2, StateFields DEF read_unlocked
    <3>4. state' # state
      BY <1>4, <3>1, <3>3
    <3> QED BY <3>4 DEF Exchanged
  <2>4. unseen["word"] \subseteq Owners
    BY <2>2 DEF MemInv, AccessesPublished, Owners
  <2>5. t \notin unseen'["word"]
    BY <1>1, <2>3 DEF MemInv, MemTypeOK
  <2>6. unseen'["word"] \subseteq {h.owner : h \in read_locks' \cup write_locks'}
    <3> SUFFICES ASSUME NEW x \in unseen'["word"]
                 PROVE  \E h \in read_locks' \cup write_locks' : x = h.owner
      OBVIOUS
    <3>1. x \in Owners /\ x # t
      BY <1>1, <2>4, <2>5 DEF Less
    <3>2. PICK h \in read_locks : x = h.owner
      BY <2>2, <3>1 DEF Owners
    <3> QED BY <2>1, <3>1, <3>2
  <2>7. AccessesPublished'
    BY <2>6 DEF AccessesPublished
  <2>8. WriterKnows'
    BY <1>2, <2>2 DEF WriterKnows
  <2>9. Moves(t) /\ pc'[t] \in {"unpark", "idle"} /\ (pc'[t] = "unpark" => call' = call)
    BY <1>4, Control
  <2>10. call[t].op = "unlock_read"
    BY <1>2 DEF Inv, CallInv
  <2>11. ASSUME NEW u \in Threads
         PROVE  /\ Handing(u)' => Handing(u)
                /\ pc'[u] = "occupy" => pc[u] = "occupy"
                /\ pc'[u] = "take" => pc[u] = "take" /\ call'[u] = call[u]
    BY <2>9, <2>10 DEF Moves, Handing
  <2>12. MemTypeOK' /\ HandedOver'
    BY <1>1, <1>2, <2>11, TypeKeep, HandedKeep
  <2> QED BY <2>7, <2>8, <2>12 DEF MemInv
<1> QED BY <1>3, <1>4 DEF unlock_read

\* unlock_write: the swap publishes everything.
LEMMA DropWriteOrder ==
  ASSUME Inv, MemInv, NEW t \in Threads, DropWrite(t), unseen' = swap(unseen, t),
         UNCHANGED emptied
  PROVE  MemInv'
<1>1. PICK w \in write_locks :
          /\ w.owner = t
          /\ write_locks' = write_locks \ {w}
          /\ IF has_thread_blocking(state)
             THEN Begin(t, "unlock_write", w.id, "DontBlock", "unpark")
             ELSE UNCHANGED <<pc, call, result>>
  BY DEF DropWrite
<1>2. vacant' = vacant /\ pc[t] = "idle"
  BY DEF DropWrite, slotVars
<1>3. Less(unseen', unseen) /\ unseen'["word"] = unseen[t] \cap unseen["word"]
  BY SwapFacts DEF MemInv, MemTypeOK
<1>4. unseen'["word"] = {}
  BY <1>1, <1>3, WriterAlone
<1>5. AccessesPublished' /\ WriterKnows'
  BY <1>4 DEF AccessesPublished, WriterKnows
<1>6. ASSUME NEW u \in Threads
      PROVE  /\ Handing(u)' => Handing(u)
             /\ pc'[u] = "occupy" => pc[u] = "occupy"
             /\ pc'[u] = "take" => pc[u] = "take" /\ call'[u] = call[u]
  <2>1. CASE Begin(t, "unlock_write", w.id, "DontBlock", "unpark")
    <3>1. Moves(t) /\ pc'[t] = "unpark" /\ call'[t].op = "unlock_write"
      BY <2>1, Control
    <3> QED BY <3>1 DEF Moves, Handing
  <2>2. CASE UNCHANGED <<pc, call, result>>
    BY <2>2 DEF Handing
  <2> QED BY <1>1, <2>1, <2>2
<1>7. MemTypeOK' /\ HandedOver'
  BY <1>2, <1>3, <1>6, TypeKeep, HandedKeep
<1> QED BY <1>5, <1>7 DEF MemInv

\* An access through a guard that its thread keeps.
LEMMA AccessOrder ==
  ASSUME Inv, MemInv, NEW t \in Threads, UNCHANGED emptied, vacant' = vacant,
         state' = state, read_locks' = read_locks, write_locks' = write_locks,
         Moves(t), pc'[t] \in Plain, t \in Owners,
         Read(t) \/ (Write(t) /\ write_locks # {})
  PROVE  MemInv'
<1>1. is_occupied(state)
  BY LockedHeader DEF Owners
<1>2. /\ ~vacant
      /\ \A u \in Threads : ~Handing(u) /\ pc[u] \notin {"occupy", "take"}
  BY <1>1, OccupiedAlone
<1>3. ASSUME NEW u \in Threads
      PROVE  ~Handing(u)' /\ pc'[u] \notin {"occupy", "take"}
  BY <1>2 DEF Moves, Handing, Plain
<1>4. HandedOver'
  BY <1>2, <1>3 DEF HandedOver
<1>5. CASE Read(t)
  <2>1. /\ MemTypeOK'
        /\ unseen'[t] = unseen[t] \ {t}
        /\ \A p \in Places \ {t} : unseen'[p] = unseen[p] \cup {t}
    BY <1>5, ReadFacts
  <2>2. unseen'["word"] = unseen["word"] \cup {t}
    BY <2>1, PlaceNames
  <2>3. AccessesPublished'
    BY <1>1, <2>2 DEF MemInv, AccessesPublished, Owners
  <2>4. \A p \in Places : "write" \in unseen'[p] => "write" \in unseen[p]
    BY <2>1, PlaceNames
  <2>5. \A w \in write_locks : w.owner \in Places /\ "word" \in Places
    BY PlaceNames DEF Inv, TypeOK, WriteLocks
  <2>6. WriterKnows'
    BY <2>4, <2>5 DEF MemInv, WriterKnows
  <2> QED BY <1>4, <2>1, <2>3, <2>6 DEF MemInv
<1>6. CASE Write(t) /\ write_locks # {}
  <2>1. PICK w \in write_locks : TRUE
    BY <1>6
  <2>2. write_locks = {w} /\ read_locks = {}
    BY WriterAlone
  <2>3. w.owner = t
    BY <2>2 DEF Owners
  <2>4. MemTypeOK' /\ unseen'[t] = {} /\ unseen'["word"] = {"write"}
    BY <1>6, WriteFacts, PlaceNames
  <2>5. AccessesPublished'
    BY <2>2, <2>4 DEF AccessesPublished
  <2>6. WriterKnows'
    BY <2>2, <2>3, <2>4 DEF WriterKnows
  <2> QED BY <1>4, <2>4, <2>5, <2>6 DEF MemInv
<1> QED BY <1>5, <1>6

\* RwStore::remove_locked reads the element while the lock is held.
LEMMA RemoveLockedOrder ==
  ASSUME Inv, MemInv, NEW t \in Threads, RemoveLocked(t), Read(t), UNCHANGED emptied
  PROVE  MemInv'
<1>1. /\ state' = state /\ vacant' = vacant /\ read_locks' = read_locks
      /\ write_locks' = write_locks /\ Moves(t) /\ pc'[t] \in Plain
  BY Control DEF RemoveLocked, guardVars, Plain
<1>2. t \in Owners
  BY DEF RemoveLocked, Owners
<1> QED BY <1>1, <1>2, AccessOrder

\* Deref and DerefMut.
LEMMA DerefOrder ==
  ASSUME Inv, MemInv, NEW t \in Threads, Deref(t) \/ DerefMut(t),
         UNCHANGED <<vars, emptied>>
  PROVE  MemInv'
<1>1. /\ state' = state /\ vacant' = vacant /\ read_locks' = read_locks
      /\ write_locks' = write_locks /\ pc' = pc /\ call' = call /\ emptied' = emptied
  BY DEF vars
<1>2. pc[t] = "idle" /\ t \in Owners /\ (Read(t) \/ (Write(t) /\ write_locks # {}))
  BY DEF Deref, DerefMut, GuardsOf, Owners
<1>3. Moves(t) /\ pc'[t] \in Plain
  BY <1>1, <1>2 DEF Moves, Plain
<1> QED BY <1>1, <1>2, <1>3, AccessOrder

\* push_erasure: what the remover knows passes to the queue.
LEMMA push_erasureOrder ==
  ASSUME Inv, MemInv, NEW t \in Threads, push_erasure(t), unseen' = push(unseen, t),
         UNCHANGED emptied
  PROVE  MemInv'
<1>1. /\ pc[t] = "push" /\ state' = state /\ read_locks' = read_locks
      /\ write_locks' = write_locks /\ Moves(t) /\ pc'[t] = "idle"
  BY Control DEF push_erasure, guardVars
<1>2. ~is_occupied(state) /\ write_locks = {}
  BY <1>1, HolderAlone, NoGuards DEF Handing
<1>3. unseen \in [Places -> SUBSET Accesses] /\ \A u \in Threads : u \notin unseen[u]
  BY DEF MemInv, MemTypeOK
<1>4. /\ unseen' \in [Places -> SUBSET Accesses] /\ unseen'["queue"] = unseen[t]
      /\ \A u \in Threads : unseen'[u] = unseen[u]
  BY <1>3, PlaceNames DEF push
<1>5. MemTypeOK'
  BY <1>3, <1>4 DEF MemTypeOK
<1>6. AccessesPublished' /\ WriterKnows'
  BY <1>1, <1>2 DEF AccessesPublished, WriterKnows
<1>7. Settled(unseen["queue"])'
  <2>1. Settled(unseen[t])
    BY <1>1 DEF MemInv, HandedOver, Handing
  <2> QED BY <1>4, <2>1 DEF Settled
<1>8. ASSUME NEW u \in Threads
      PROVE  /\ Handing(u)' => Settled(unseen[u])'
             /\ pc'[u] = "occupy" => unseen'[u] = {}
             /\ pc'[u] = "take" => call'[u].op = "remove"
  <2>1. CASE u = t
    BY <1>1, <2>1 DEF Handing
  <2>2. CASE u # t
    BY <1>1, <1>4, <2>2 DEF MemInv, HandedOver, Moves, Handing, Settled
  <2> QED BY <2>1, <2>2
<1>9. HandedOver'
  BY <1>7, <1>8 DEF HandedOver
<1> QED BY <1>5, <1>6, <1>9 DEF MemInv

\* Block::remove reads the element out of the emptied slot.
LEMMA takeOrder ==
  ASSUME Inv, MemInv, NEW t \in Threads, take(t), Read(t),
         emptied' = [op |-> call[t].op, by |-> t]
  PROVE  MemInv'
<1>1. /\ pc[t] = "take" /\ vacant' = vacant /\ state' = state /\ read_locks' = read_locks
      /\ write_locks' = write_locks /\ Moves(t) /\ pc'[t] \in {"push", "idle"}
  BY Control DEF take, guardVars
<1>2. /\ ~vacant /\ ~is_occupied(state)
      /\ \A u \in Threads \ {t} : ~Handing(u) /\ pc[u] \notin {"occupy", "take"}
  BY <1>1, HolderAlone
<1>3. write_locks = {}
  BY <1>2, NoGuards
<1>4. MemTypeOK'
  BY ReadFacts
<1>5. AccessesPublished' /\ WriterKnows'
  BY <1>1, <1>2, <1>3 DEF AccessesPublished, WriterKnows
<1>6. ASSUME NEW u \in Threads \ {t}
      PROVE  ~Handing(u)' /\ pc'[u] \notin {"occupy", "take"}
  BY <1>1, <1>2 DEF Moves, Handing
<1>7. Settled(unseen[t])'
  <2>1. emptied'.by = t /\ emptied'.op = "remove"
    BY <1>1 DEF MemInv, HandedOver
  <2>2. t \notin unseen'[t]
    BY <1>4 DEF MemTypeOK
  <2> QED BY <2>1, <2>2 DEF Settled
<1>8. HandedOver'
  BY <1>1, <1>2, <1>6, <1>7 DEF HandedOver
<1> QED BY <1>4, <1>5, <1>8 DEF MemInv

\* Header::remove_locked: the swap acquires everything that was released.
LEMMA remove_lockedOrder ==
  ASSUME Inv, MemInv, NEW t \in Threads, remove_locked(t), unseen' = swap(unseen, t),
         emptied' = [op |-> call[t].op, by |-> t]
  PROVE  MemInv'
<1>1. PICK w : w = [owner |-> t, id |-> call[t].id]
  OBVIOUS
<1>2. pc[t] = "swap" /\ vacant' = vacant /\ w \in write_locks /\ w.owner = t
      /\ state' = unoccupied_bits(call[t].id + 1) /\ write_locks' = write_locks \ {w}
  BY <1>1 DEF remove_locked, slotVars, Inv, CallInv
<1>3. /\ is_occupied(state) /\ write_locks = {w} /\ unseen["word"] \cap unseen[t] = {}
  BY <1>2, WriterAlone
<1>4. /\ Less(unseen', unseen) /\ unseen'[t] = {} /\ unseen'["word"] = {}
  BY <1>3, SwapFacts DEF MemInv, MemTypeOK
<1>5. MemTypeOK'
  BY <1>4, TypeKeep
<1>6. AccessesPublished' /\ WriterKnows'
  BY <1>4 DEF AccessesPublished, WriterKnows
<1>7. /\ ~vacant
      /\ \A u \in Threads : ~Handing(u) /\ pc[u] \notin {"occupy", "take"}
  BY <1>3, OccupiedAlone
<1>8. Moves(t) /\ pc'[t] \in {"unpark", "push", "idle"}
  BY Control DEF remove_locked
<1>9. ASSUME NEW u \in Threads \ {t}
      PROVE  ~Handing(u)' /\ pc'[u] \notin {"occupy", "take"}
  BY <1>7, <1>8 DEF Moves, Handing
<1>10. Settled(unseen[t])'
  BY <1>4 DEF Settled
<1>11. HandedOver'
  BY <1>2, <1>7, <1>8, <1>9, <1>10 DEF HandedOver
<1> QED BY <1>5, <1>6, <1>11 DEF MemInv

-----------------------------------------------------------------------------
\* Nothing was accessed yet.
LEMMA MemInvInit == MemInit => MemInv
<1> SUFFICES ASSUME MemInit PROVE MemInv
  OBVIOUS
<1>1. /\ unseen = [p \in Places |-> {}] /\ write_locks = {}
      /\ pc = [t \in Threads |-> "idle"]
  BY DEF MemInit, Init
<1>2. MemTypeOK
  BY <1>1, PlaceNames DEF MemTypeOK
<1>3. AccessesPublished /\ WriterKnows
  BY <1>1, PlaceNames DEF AccessesPublished, WriterKnows
<1>4. HandedOver
  BY <1>1, PlaceNames DEF HandedOver, Settled, Handing
<1> QED BY <1>2, <1>3, <1>4 DEF MemInv

\* The steps of this module are steps of Slot, or accesses between them.
LEMMA MemSteps == [MemNext]_memVars => [Next]_vars
<1>1. MemNext => [Next]_vars
  BY DEF MemNext, Keep, Empty, occupyM, InsertM, CallM, unparkM, Next, Step, NewCall, Drop
<1>2. UNCHANGED memVars => UNCHANGED vars
  BY DEF memVars
<1> QED BY <1>1, <1>2

\* Every step keeps the order.
LEMMA MemStepInv ==
  ASSUME Inv, MemInv, MemNext
  PROVE  MemInv'
<1>1. PICK t \in Threads : \/ Keep(t) /\ UNCHANGED emptied
                           \/ Empty(t) \/ occupyM(t)
                           \/ (Deref(t) \/ DerefMut(t)) /\ UNCHANGED <<vars, emptied>>
  BY DEF MemNext
<1>2. CASE Keep(t) /\ UNCHANGED emptied
  <2> USE <1>2
  <2>1. CASE InsertM(t)
    BY <2>1, InsertOrder
  <2>2. CASE Fill(t) /\ Write(t)
    BY <2>2, FillOrder
  <2>3. ASSUME NEW op, NEW id, NEW d, CallM(t, op, id, d)
        PROVE  MemInv'
    BY <2>3, CallOrder
  <2>4. CASE lock_read(t) /\ UNCHANGED unseen
    BY <2>4, lock_readOrder
  <2>5. CASE (read_cas(t) \/ transition(t) \/ eval(t) \/ mark(t)) /\ Exchange(t)
    BY <2>5, read_casOrder, transitionOrder, evalOrder, markOrder
  <2>6. CASE \/ park(t) /\ unseen' = Tell(unseen, "mutex", t)
             \/ TimeOut(t) /\ unseen' = Tell(Tell(unseen, "mutex", t), t, "mutex")
    BY <2>6, parkOrder
  <2>7. CASE unparkM(t)
    BY <2>7, unparkOrder
  <2>8. CASE DropRead(t) /\ UNCHANGED unseen
    BY <2>8, DropReadOrder
  <2>9. CASE unlock_read(t) /\ Exchange(t)
    BY <2>9, unlock_readOrder
  <2>10. CASE DropWrite(t) /\ unseen' = swap(unseen, t)
    BY <2>10, DropWriteOrder
  <2>11. CASE RemoveLocked(t) /\ Read(t)
    BY <2>11, RemoveLockedOrder
  <2>12. CASE push_erasure(t) /\ unseen' = push(unseen, t)
    BY <2>12, push_erasureOrder
  <2> QED BY <2>1, <2>2, <2>3, <2>4, <2>5, <2>6, <2>7, <2>8, <2>9, <2>10, <2>11, <2>12
          DEF Keep
<1>3. CASE Empty(t)
  BY <1>3, takeOrder, remove_lockedOrder DEF Empty
<1>4. CASE occupyM(t)
  BY <1>4, occupyOrder
<1>5. CASE (Deref(t) \/ DerefMut(t)) /\ UNCHANGED <<vars, emptied>>
  BY <1>5, DerefOrder
<1> QED BY <1>1, <1>2, <1>3, <1>4, <1>5

\* A step that changes nothing keeps it too.
LEMMA MemStutter ==
  ASSUME MemInv, UNCHANGED memVars
  PROVE  MemInv'
<1>1. /\ unseen' = unseen /\ emptied' = emptied /\ state' = state /\ vacant' = vacant
      /\ pc' = pc /\ call' = call /\ read_locks' = read_locks /\ write_locks' = write_locks
  BY DEF memVars, vars
<1> QED BY <1>1 DEF MemInv, MemTypeOK, AccessesPublished, WriterKnows, HandedOver,
                    Handing, Settled

\* MemoryOrder only adds to what Slot does, so Slot's properties hold in it.
THEOREM OrderKeepsSlot == MemSpec => Spec
BY MemSteps, PTL DEF MemSpec, MemInit, Spec

\* Both invariants hold, with any number of threads and guards.
THEOREM OrderInvariance == MemSpec => [](Inv /\ MemInv)
<1>1. MemInit => Inv /\ MemInv
  BY InitInv, MemInvInit DEF MemInit
<1>2. Inv /\ MemInv /\ [MemNext]_memVars => (Inv /\ MemInv)'
  BY MemSteps, NextInv, MemStepInv, MemStutter
<1> QED BY <1>1, <1>2, PTL DEF MemSpec

\* While an element is in the slot, every access to it is released to the header
\* word when its guard goes: by unlock_read's exchange, unlock_write's swap and
\* occupy's fetch_or.
THEOREM AccessesPublishedHolds == MemSpec => []AccessesPublished
<1>1. MemInv => AccessesPublished
  BY DEF MemInv
<1> QED BY OrderInvariance, <1>1, PTL

\* An insertion that reuses the slot comes after the removal that emptied it, by
\* way of push_erasure and the queue, and after remove_locked it comes after all
\* accesses to the element that was there.
THEOREM ReuseAfterRemovalHolds == MemSpec => []ReuseAfterRemoval
<1>1. MemInv => ReuseAfterRemoval
  BY DEF MemInv, HandedOver, Handing, Settled, ReuseAfterRemoval
<1> QED BY OrderInvariance, <1>1, PTL
=============================================================================
