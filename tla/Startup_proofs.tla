--------------------------- MODULE Startup_proofs ---------------------------
(***************************************************************************)
(* Theorems about Startup, for any processes, worlds and registrations.    *)
(***************************************************************************)
EXTENDS Startup, TLAPS

----------------------------------------------------------------------------
\* schema_migrations.

CallbackState ==
  [pc : Altering \cup {"off", "dial", "up", "applying", "seed", "seeding", "over"},
   service : BOOLEAN, pk : {"legacy", "version", "none"}]

RepairTypes ==
  /\ callback \in [Procs -> CallbackState]
  /\ table = None \/ table \in Table
  /\ \A p \in Procs : Repairing(p) => table \in Table
  /\ raced \in BOOLEAN /\ repaired \in BOOLEAN

\* What a callback that is alone in the repair has read is still so, and the
\* ALTERs it has still to do are the ones the table needs.
Accurate(cb) ==
  /\ cb.pc = "key" => cb.service = table.service
  /\ cb.pc = "drop legacy"  => table.service /\ table.pk = "legacy"
  /\ cb.pc = "drop service" => table.service /\ table.pk = cb.pk
  /\ cb.pc = "drop key"     => ~table.service /\ table.pk = "legacy"
  /\ cb.pc = "add key"      => ~table.service /\ table.pk = "none"

InOrder == table \in Table /\ ~table.service /\ table.pk = "version"

OneRepair ==
  /\ \A p, q \in Procs : Repairing(p) /\ Repairing(q) => p = q
  /\ \A p \in Procs : Accurate(callback[p])
  /\ repaired => InOrder

RepairInv == RepairTypes /\ (~raced => OneRepair)

LEMMA CallbackOf ==
  ASSUME RepairTypes, NEW p \in Procs, NEW state, callback' = [callback EXCEPT ![p] = state]
  PROVE  callback'[p] = state /\ \A q \in Procs : q # p => callback'[q] = callback[q]
BY DEF RepairTypes

\* A callback is somewhere else than in the repair.
LEMMA OutsideRepair ==
  ASSUME RepairInv, NEW p \in Procs, NEW state \in CallbackState,
         callback' = [callback EXCEPT ![p] = state], state.pc \notin Altering,
         UNCHANGED <<table, raced, repaired>>
  PROVE  RepairInv'
<1>1. callback' \in [Procs -> CallbackState]
  BY DEF RepairInv, RepairTypes
<1>2. callback'[p] = state /\ \A q \in Procs : q # p => callback'[q] = callback[q]
  BY CallbackOf DEF RepairInv
<1>3. \A q \in Procs : Repairing(q)' => Repairing(q)
  BY <1>2 DEF Repairing
<1>4. RepairTypes'
  BY <1>1, <1>3 DEF RepairInv, RepairTypes
<1>5. ASSUME ~raced' PROVE OneRepair'
  <2>1. OneRepair
    BY <1>5 DEF RepairInv
  <2>2. ASSUME NEW q \in Procs PROVE Accurate(callback[q])'
    <3>1. CASE q = p
      BY <1>2, <3>1 DEF Accurate, Altering
    <3>2. CASE q # p
      BY <1>2, <2>1, <3>2 DEF OneRepair, Accurate
    <3> QED BY <3>1, <3>2
  <2> QED BY <1>3, <2>1, <2>2 DEF OneRepair, InOrder
<1> QED BY <1>4, <1>5 DEF RepairInv

\* A step of a callback in the repair.
LEMMA InRepair ==
  ASSUME RepairInv, NEW p \in Procs, NEW state \in CallbackState,
         callback' = [callback EXCEPT ![p] = state],
         table' \in Table, raced' \in BOOLEAN, repaired' \in BOOLEAN, raced => raced',
         ~raced' /\ OneRepair => /\ \A q \in Procs : q # p => ~Repairing(q)
                                 /\ Accurate(state)'
                                 /\ repaired' => InOrder'
  PROVE  RepairInv'
<1>1. callback' \in [Procs -> CallbackState]
  BY DEF RepairInv, RepairTypes
<1>2. callback'[p] = state /\ \A q \in Procs : q # p => callback'[q] = callback[q]
  BY CallbackOf DEF RepairInv
<1>3. RepairTypes'
  BY <1>1 DEF RepairTypes
<1>4. ASSUME ~raced' PROVE OneRepair'
  <2>1. OneRepair
    BY <1>4 DEF RepairInv
  <2>2. /\ \A q \in Procs : q # p => ~Repairing(q)
        /\ Accurate(state)' /\ (repaired' => InOrder')
    BY <1>4, <2>1
  <2>3. \A q \in Procs : q # p => ~Repairing(q)'
    BY <1>2, <2>2 DEF Repairing
  <2>4. ASSUME NEW q \in Procs PROVE Accurate(callback[q])'
    <3>1. CASE q = p
      BY <1>2, <2>2, <3>1 DEF Accurate
    <3>2. CASE q # p
      BY <2>3, <3>2 DEF Repairing, Accurate, Altering
    <3> QED BY <3>1, <3>2
  <2> QED BY <2>2, <2>3, <2>4 DEF OneRepair
<1> QED BY <1>3, <1>4 DEF RepairInv

LEMMA AloneInRepair ==
  ASSUME OneRepair, NEW p \in Procs, Repairing(p)
  PROVE  Accurate(callback[p]) /\ \A q \in Procs : q # p => ~Repairing(q)
BY DEF OneRepair

LEMMA DialRepairs ==
  ASSUME RepairInv, NEW p \in Procs, Dial(p)
  PROVE  RepairInv'
<1>1. PICK state : /\ state = [callback[p] EXCEPT !.pc = "service"]
                   /\ callback' = [callback EXCEPT ![p] = state]
  BY DEF Dial, CbPc, CbGoto
<1>2. callback[p] \in CallbackState
  BY DEF RepairInv, RepairTypes
<1>3. state \in CallbackState /\ state.pc = "service"
  BY <1>1, <1>2 DEF CallbackState, Altering
<1>4. table' \in Table /\ (table \in Table => table' = table \/ table = None)
  BY DEF Dial, RepairInv, RepairTypes, Table
<1>5. raced' \in BOOLEAN /\ (raced => raced') /\ UNCHANGED repaired /\ repaired \in BOOLEAN
  BY DEF Dial, RepairInv, RepairTypes
<1>6. ASSUME ~raced', OneRepair
      PROVE  /\ \A q \in Procs : q # p => ~Repairing(q)
             /\ Accurate(state)' /\ (repaired' => InOrder')
  <2>1. \A q \in Procs : q # p => ~Repairing(q)
    BY <1>6 DEF Dial
  <2>2. Accurate(state)'
    BY <1>3 DEF Accurate
  <2>3. table = None => table' = [service |-> FALSE, pk |-> "version", rows |-> 0]
    BY DEF Dial
  <2>4. table # None => table' = table
    BY DEF Dial
  <2>5. repaired' => InOrder'
    BY <1>4, <1>5, <1>6, <2>3, <2>4 DEF OneRepair, InOrder
  <2> QED BY <2>1, <2>2, <2>5
<1> QED BY <1>1, <1>3, <1>4, <1>5, <1>6, InRepair

LEMMA ReadColumnRepairs ==
  ASSUME RepairInv, NEW p \in Procs, ReadColumn(p)
  PROVE  RepairInv'
<1>1. PICK state : /\ state = [callback[p] EXCEPT !.pc = "key", !.service = table.service]
                   /\ callback' = [callback EXCEPT ![p] = state]
  BY DEF ReadColumn, CbGoto
<1>2. Repairing(p) /\ callback[p] \in CallbackState /\ table \in Table
  BY DEF ReadColumn, CbAt, Repairing, Altering, RepairInv, RepairTypes
<1>3. state \in CallbackState /\ state.pc = "key" /\ state.service = table.service
  BY <1>1, <1>2 DEF CallbackState, Altering, Table
<1>4. UNCHANGED <<table, raced, repaired>> /\ raced \in BOOLEAN /\ repaired \in BOOLEAN
  BY DEF ReadColumn, tvars, RepairInv, RepairTypes
<1>5. Accurate(state)'
  BY <1>3, <1>4 DEF Accurate
<1>6. OneRepair => (repaired' => InOrder')
  BY <1>4 DEF OneRepair, InOrder
<1> QED BY <1>1, <1>2, <1>3, <1>4, <1>5, <1>6, AloneInRepair, InRepair

LEMMA ReadKeyRepairs ==
  ASSUME RepairInv, NEW p \in Procs, ReadKey(p)
  PROVE  RepairInv'
<1>1. Repairing(p) /\ callback[p] \in CallbackState /\ table \in Table
  BY DEF ReadKey, Repairing, Altering, RepairInv, RepairTypes
<1>2. table.pk \in {"legacy", "version", "none"}
  BY <1>1 DEF Table
<1>3. PICK pc :
        /\ pc = IF callback[p].service
                  THEN IF table.pk = "legacy" THEN "drop legacy" ELSE "drop service"
                  ELSE NextForKey(table.pk)
        /\ callback' = [callback EXCEPT ![p] = [callback[p] EXCEPT !.pk = table.pk, !.pc = pc]]
  BY DEF ReadKey, CbGoto
<1>4. /\ pc \in {"up", "drop legacy", "drop service", "drop key", "add key"}
      /\ pc \in {"drop legacy", "drop service"} => callback[p].service
      /\ pc \in {"up", "drop key", "add key"} => ~callback[p].service
      /\ pc = "up" => table.pk = "version"
      /\ pc \in {"drop key", "drop legacy"} => table.pk = "legacy"
      /\ pc = "add key" => table.pk = "none"
  BY <1>1, <1>2, <1>3 DEF NextForKey, CallbackState
<1>5. PICK state : /\ state = [callback[p] EXCEPT !.pk = table.pk, !.pc = pc]
                   /\ callback' = [callback EXCEPT ![p] = state]
  BY <1>3
<1>6. state \in CallbackState /\ state.pc = pc /\ state.pk = table.pk
  BY <1>1, <1>2, <1>4, <1>5 DEF CallbackState, Altering
<1>7. callback'[p] = state
  BY <1>5, CallbackOf DEF RepairInv
<1>8. /\ UNCHANGED <<table, raced>> /\ raced \in BOOLEAN /\ repaired' \in BOOLEAN
      /\ repaired' => repaired \/ pc = "up"
  BY <1>6, <1>7 DEF ReadKey, RepairInv, RepairTypes
<1>9. ASSUME ~raced', OneRepair
      PROVE  /\ \A q \in Procs : q # p => ~Repairing(q)
             /\ Accurate(state)' /\ (repaired' => InOrder')
  <2>1. /\ \A q \in Procs : q # p => ~Repairing(q)
        /\ callback[p].service = table.service
    BY <1>1, <1>9, AloneInRepair DEF ReadKey, Accurate
  <2>2. Accurate(state)'
    BY <1>4, <1>6, <1>8, <2>1 DEF Accurate
  <2>3. repaired' => InOrder'
    BY <1>1, <1>4, <1>8, <1>9, <2>1 DEF OneRepair, InOrder
  <2> QED BY <2>1, <2>2, <2>3
<1> QED BY <1>1, <1>5, <1>6, <1>8, <1>9, InRepair

LEMMA DropKeyRepairs ==
  ASSUME RepairInv, NEW p \in Procs, DropKey(p)
  PROVE  RepairInv'
<1>1. PICK state :
        /\ state = [callback[p] EXCEPT !.pk = "none",
                      !.pc = IF callback[p].pc = "drop key" THEN "add key" ELSE "drop service"]
        /\ callback' = [callback EXCEPT ![p] = state]
  BY DEF DropKey, CbGoto, CbAt
<1>2. Repairing(p) /\ callback[p] \in CallbackState /\ table \in Table
  BY DEF DropKey, Repairing, Altering, RepairInv, RepairTypes
<1>3. /\ state \in CallbackState /\ state.pk = "none"
      /\ state.pc = IF callback[p].pc = "drop key" THEN "add key" ELSE "drop service"
  BY <1>1, <1>2 DEF CallbackState, Altering
<1>4. /\ table' \in Table /\ table'.service = table.service /\ table'.pk = "none"
      /\ UNCHANGED <<raced, repaired>> /\ raced \in BOOLEAN /\ repaired \in BOOLEAN
  BY <1>2 DEF DropKey, Table, RepairInv, RepairTypes
<1>5. ASSUME ~raced', OneRepair
      PROVE  /\ \A q \in Procs : q # p => ~Repairing(q)
             /\ Accurate(state)' /\ (repaired' => InOrder')
  <2>1. /\ \A q \in Procs : q # p => ~Repairing(q)
        /\ callback[p].pc = "drop legacy" => table.service
        /\ callback[p].pc = "drop key" => ~table.service
        /\ table.pk = "legacy"
    BY <1>2, <1>5, AloneInRepair DEF DropKey, Accurate
  <2>2. Accurate(state)'
    BY <1>3, <1>4, <2>1 DEF Accurate, DropKey
  <2>3. ~repaired'
    BY <1>4, <1>5, <2>1 DEF OneRepair, InOrder
  <2> QED BY <2>1, <2>2, <2>3
<1> QED BY <1>1, <1>2, <1>3, <1>4, <1>5, InRepair

LEMMA DropServiceRepairs ==
  ASSUME RepairInv, NEW p \in Procs, DropService(p)
  PROVE  RepairInv'
<1>1. PICK state : /\ state = [callback[p] EXCEPT !.pc = NextForKey(callback[p].pk)]
                   /\ callback' = [callback EXCEPT ![p] = state]
  BY DEF DropService, CbPc, CbGoto
<1>2. Repairing(p) /\ callback[p] \in CallbackState /\ table \in Table
  BY DEF DropService, CbAt, Repairing, Altering, RepairInv, RepairTypes
<1>3. /\ callback[p].pk = "version" => NextForKey(callback[p].pk) = "up"
      /\ callback[p].pk = "legacy" => NextForKey(callback[p].pk) = "drop key"
      /\ callback[p].pk = "none" => NextForKey(callback[p].pk) = "add key"
      /\ callback[p].pk \in {"version", "legacy", "none"}
  BY <1>2 DEF NextForKey, CallbackState
<1>4. state \in CallbackState /\ state.pc = NextForKey(callback[p].pk)
  BY <1>1, <1>2, <1>3 DEF CallbackState, Altering
<1>5. callback'[p] = state
  BY <1>1, CallbackOf DEF RepairInv
<1>6. /\ table' \in Table /\ ~table'.service /\ table'.pk = table.pk
      /\ UNCHANGED raced /\ raced \in BOOLEAN /\ repaired' \in BOOLEAN
      /\ repaired' => repaired \/ state.pc = "up"
  BY <1>2, <1>5 DEF DropService, Table, RepairInv, RepairTypes
<1>7. ASSUME ~raced', OneRepair
      PROVE  /\ \A q \in Procs : q # p => ~Repairing(q)
             /\ Accurate(state)' /\ (repaired' => InOrder')
  <2>1. /\ \A q \in Procs : q # p => ~Repairing(q)
        /\ table.service /\ table.pk = callback[p].pk
    BY <1>2, <1>7, AloneInRepair DEF DropService, CbAt, Accurate
  <2>2. Accurate(state)'
    BY <1>3, <1>4, <1>6, <2>1 DEF Accurate
  <2>3. ~repaired
    BY <1>7, <2>1 DEF OneRepair, InOrder
  <2>4. repaired' => InOrder'
    BY <1>3, <1>4, <1>6, <2>1, <2>3 DEF InOrder
  <2> QED BY <2>1, <2>2, <2>4
<1> QED BY <1>1, <1>4, <1>6, <1>7, InRepair

LEMMA AddKeyRepairs ==
  ASSUME RepairInv, NEW p \in Procs, AddKey(p)
  PROVE  RepairInv'
<1>1. PICK state : /\ state = [callback[p] EXCEPT !.pc = "up"]
                   /\ callback' = [callback EXCEPT ![p] = state]
  BY DEF AddKey, CbPc, CbGoto
<1>2. Repairing(p) /\ callback[p] \in CallbackState /\ table \in Table
  BY DEF AddKey, CbAt, Repairing, Altering, RepairInv, RepairTypes
<1>3. state \in CallbackState /\ state.pc = "up"
  BY <1>1, <1>2 DEF CallbackState
<1>4. /\ table' \in Table /\ table'.service = table.service /\ table'.pk = "version"
      /\ UNCHANGED raced /\ raced \in BOOLEAN /\ repaired' = TRUE
  BY <1>2 DEF AddKey, Table, RepairInv, RepairTypes
<1>5. ASSUME ~raced', OneRepair
      PROVE  /\ \A q \in Procs : q # p => ~Repairing(q)
             /\ Accurate(state)' /\ (repaired' => InOrder')
  <2>1. (\A q \in Procs : q # p => ~Repairing(q)) /\ ~table.service
    BY <1>2, <1>5, AloneInRepair DEF AddKey, CbAt, Accurate
  <2> QED BY <1>3, <1>4, <2>1 DEF Accurate, InOrder
<1> QED BY <1>1, <1>2, <1>3, <1>4, <1>5, InRepair

\* The callback outside of the repair, and the steps of the other goroutines.
LEMMA OtherCallbackSteps ==
  ASSUME RepairInv, NEW p \in Procs, Up(p) \/ EnsureMigrationsFails(p) \/ Seed(p)
  PROVE  RepairInv'
<1>1. callback[p] \in CallbackState /\ UNCHANGED <<table, raced, repaired>>
  BY DEF Up, EnsureMigrationsFails, Seed, tvars, RepairInv, RepairTypes
<1>2. CASE UNCHANGED callback
  BY <1>1, <1>2 DEF RepairInv, RepairTypes, Repairing, OneRepair, Accurate, InOrder
<1>3. ASSUME NEW pc \in {"applying", "seed", "seeding", "over"}, CbPc(p, pc)
      PROVE  RepairInv'
  <2>1. PICK state : /\ state = [callback[p] EXCEPT !.pc = pc]
                     /\ callback' = [callback EXCEPT ![p] = state]
    BY <1>3 DEF CbPc, CbGoto
  <2>2. state \in CallbackState /\ state.pc = pc
    BY <1>1, <2>1 DEF CallbackState
  <2> QED BY <1>1, <2>1, <2>2, OutsideRepair DEF Altering
<1> QED BY <1>2, <1>3 DEF Up, EnsureMigrationsFails, Seed

LEMMA CallbackStepRepairs ==
  ASSUME RepairInv, NEW p \in Procs, CallbackStep(p)
  PROVE  RepairInv'
BY DialRepairs, ReadColumnRepairs, ReadKeyRepairs, DropKeyRepairs, DropServiceRepairs,
   AddKeyRepairs, OtherCallbackSteps DEF CallbackStep

LEMMA GoroutinesRepair ==
  ASSUME RepairInv, NEW p \in Procs,
         \/ Configure(p) \/ RegisterOnConnect(p) \/ OpenFails(p) \/ OpenSucceeds(p)
         \/ WalkOnConnect(p) \/ Serve(p) \/ Stop(p) \/ Restart(p)
  PROVE  RepairInv'
<1>1. UNCHANGED <<table, raced, repaired>>
  BY DEF Configure, RegisterOnConnect, OpenFails, OpenSucceeds, WalkOnConnect, Serve, Stop,
         Restart, tvars
<1>2. \/ UNCHANGED callback
      \/ callback' = [callback EXCEPT ![p] = [NoCallback EXCEPT !.pc = "dial"]]
      \/ callback' = [callback EXCEPT ![p] = NoCallback]
  BY DEF Configure, RegisterOnConnect, OpenFails, OpenSucceeds, WalkOnConnect, Serve, Stop,
         Restart, Started
<1>3. CASE UNCHANGED callback
  BY <1>1, <1>3 DEF RepairInv, RepairTypes, Repairing, OneRepair, Accurate, InOrder
<1>4. /\ [NoCallback EXCEPT !.pc = "dial"] \in CallbackState
      /\ [NoCallback EXCEPT !.pc = "dial"].pc = "dial"
      /\ NoCallback \in CallbackState /\ NoCallback.pc = "off"
  BY DEF NoCallback, CallbackState
<1> QED BY <1>1, <1>2, <1>3, <1>4, OutsideRepair DEF Altering

LEMMA RepairInit == Init => RepairInv
<1> SUFFICES ASSUME Init PROVE RepairInv
  OBVIOUS
<1>1. PICK w \in Worlds :
        /\ callback = [p \in Procs |-> [NoCallback EXCEPT !.pc =
                                          IF p \in w.running THEN "over" ELSE "off"]]
        /\ table = w.table /\ raced = FALSE /\ repaired = FALSE
  BY DEF Init
<1>2. table = None \/ table \in Table
  BY <1>1, WorldsAssumption
<1>3. \A p \in Procs : callback[p] \in CallbackState /\ callback[p].pc \in {"off", "over"}
  <2>1. ASSUME NEW pc \in {"off", "over"}
        PROVE  LET state == [NoCallback EXCEPT !.pc = pc] IN
               state \in CallbackState /\ state.pc = pc
    BY DEF NoCallback, CallbackState
  <2> QED BY <1>1, <2>1
<1>4. callback \in [Procs -> CallbackState]
  BY <1>1, <1>3
<1>5. \A p \in Procs : ~Repairing(p) /\ Accurate(callback[p])
  BY <1>3 DEF Repairing, Altering, Accurate
<1> QED BY <1>1, <1>2, <1>4, <1>5 DEF RepairInv, RepairTypes, OneRepair

LEMMA RepairStep == RepairInv /\ [Next]_vars => RepairInv'
<1> SUFFICES ASSUME RepairInv, [Next]_vars PROVE RepairInv'
  OBVIOUS
<1>1. CASE UNCHANGED vars
  BY <1>1 DEF vars, tvars, RepairInv, RepairTypes, Repairing, OneRepair, Accurate, InOrder
<1> QED BY <1>1, CallbackStepRepairs, GoroutinesRepair DEF Next

\* Once a repair of schema_migrations has gone through, golang-migrate can use the
\* table, whatever form it had and wherever earlier repairs stopped, unless two
\* processes repaired it at the same time.
THEOREM RepairDone == Spec => []RepairedUnlessRaced
<1>1. RepairInv => RepairedUnlessRaced
  BY DEF RepairInv, OneRepair, InOrder, RepairedUnlessRaced
<1> QED BY <1>1, RepairInit, RepairStep, PTL DEF Spec

----------------------------------------------------------------------------
\* oauth2_clients.

IsSeed(tx) == {"pc", "rows", "next"} \subseteq DOMAIN tx

BuiltInIds == {PublicId, SuperId}

ClientTypes ==
  /\ seed = [p \in Procs |-> seed[p]] /\ \A p \in Procs : IsSeed(seed[p])
  /\ request = [p \in Procs |-> request[p]]
  /\ \A p \in Procs : request[p].pc = "create" => request[p].id \in Services

\* A row that a transaction is about to add is no one else's, and of the rows that
\* are there it changes only those of the built-in clients.
OwnRows ==
  /\ \A p \in Procs : DOMAIN seed[p].rows \cap DOMAIN clients \subseteq BuiltInIds
  /\ \A p, q \in Procs : p # q => DOMAIN seed[p].rows \cap DOMAIN seed[q].rows = {}

HandedInv ==
  \A h \in handed :
    /\ h.id \in Services /\ h.id \in DOMAIN clients /\ clients[h.id] = h.secret
    /\ h.id \in inactive => h.inactive

ClientsInv == ClientTypes /\ OwnRows /\ HandedInv

LEMMA NoRows == DOMAIN <<>> = {}
<1>1. \A q : q = <<>> => q \in Seq({}) /\ Len(q) = 0
  OBVIOUS
<1> QED BY <1>1

LEMMA SeedOf ==
  ASSUME ClientTypes, NEW p \in Procs, NEW tx, seed' = [seed EXCEPT ![p] = tx]
  PROVE  /\ seed' = [q \in Procs |-> seed'[q]]
         /\ seed'[p] = tx /\ \A q \in Procs : q # p => seed'[q] = seed[q]
BY DEF ClientTypes

\* A transaction goes on, and perhaps locks more rows: of those that are there
\* only the built-in clients', and none that another has locked.
LEMMA SeedMoves ==
  ASSUME ClientsInv, NEW p \in Procs, NEW tx, IsSeed(tx), seed' = [seed EXCEPT ![p] = tx],
         UNCHANGED <<clients, inactive, request, handed>>,
         \A id \in DOMAIN tx.rows \ DOMAIN seed[p].rows :
           ~LockedByOther(p, id) /\ (id \in DOMAIN clients => id \in BuiltInIds)
  PROVE  ClientsInv'
<1>1. /\ seed' = [q \in Procs |-> seed'[q]]
      /\ seed'[p] = tx /\ \A q \in Procs : q # p => seed'[q] = seed[q]
  BY SeedOf DEF ClientsInv
<1>2. ClientTypes'
  BY <1>1 DEF ClientsInv, ClientTypes
<1>3. \A id \in DOMAIN tx.rows : id \in DOMAIN clients => id \in BuiltInIds
  BY DEF ClientsInv, OwnRows
<1>4. \A id \in DOMAIN tx.rows : \A q \in Procs : q # p => id \notin DOMAIN seed[q].rows
  BY DEF ClientsInv, OwnRows, LockedByOther
<1>5. OwnRows'
  <2>1. ASSUME NEW q \in Procs PROVE DOMAIN seed'[q].rows \cap DOMAIN clients' \subseteq BuiltInIds
    BY <1>1, <1>3 DEF ClientsInv, OwnRows
  <2>2. ASSUME NEW q1 \in Procs, NEW q2 \in Procs, q1 # q2
        PROVE  DOMAIN seed'[q1].rows \cap DOMAIN seed'[q2].rows = {}
    <3>1. CASE q1 = p
      BY <1>1, <1>4, <2>2, <3>1
    <3>2. CASE q2 = p
      BY <1>1, <1>4, <2>2, <3>2
    <3>3. CASE q1 # p /\ q2 # p
      BY <1>1, <2>2, <3>3 DEF ClientsInv, OwnRows
    <3> QED BY <3>1, <3>2, <3>3
  <2> QED BY <2>1, <2>2 DEF OwnRows, BuiltInIds
<1>6. HandedInv'
  BY DEF ClientsInv, HandedInv
<1> QED BY <1>2, <1>5, <1>6 DEF ClientsInv

LEMMA NoSeedState == IsSeed(NoSeed) /\ DOMAIN NoSeed.rows = {}
BY NoRows DEF IsSeed, NoSeed

LEMMA RollbackKeeps ==
  ASSUME ClientsInv, NEW p \in Procs, Rollback(p), UNCHANGED <<clients, inactive, request, handed>>
  PROVE  ClientsInv'
BY NoSeedState, SeedMoves DEF Rollback

LEMMA SeedBeginKeeps ==
  ASSUME ClientsInv, NEW p \in Procs, SeedBegin(p)
  PROVE  ClientsInv'
<1>1. PICK tx : /\ tx = [pc |-> "built-in", snapshot |-> clients, rows |-> <<>>, next |-> 1]
                /\ seed' = [seed EXCEPT ![p] = tx]
  BY DEF SeedBegin
<1>2. IsSeed(tx) /\ DOMAIN tx.rows = {}
  BY <1>1, NoRows DEF IsSeed
<1> QED BY <1>1, <1>2, SeedMoves DEF SeedBegin

LEMMA SeedBuiltInsKeeps ==
  ASSUME ClientsInv, NEW p \in Procs, SeedBuiltIns(p)
  PROVE  ClientsInv'
<1>1. CASE Rollback(p)
  BY <1>1, RollbackKeeps DEF SeedBuiltIns
<1>2. CASE seed' = [seed EXCEPT ![p].pc = "service", ![p].rows = BuiltIns]
  <2>1. PICK tx : /\ tx = [seed[p] EXCEPT !.pc = "service", !.rows = BuiltIns]
                  /\ seed' = [seed EXCEPT ![p] = tx]
    BY <1>2 DEF ClientsInv, ClientTypes
  <2>2. IsSeed(tx) /\ tx.rows = BuiltIns
    <3>1. IsSeed(seed[p])
      BY DEF ClientsInv, ClientTypes
    <3> QED BY <2>1, <3>1 DEF IsSeed
  <2>3. DOMAIN BuiltIns = BuiltInIds
    BY DEF BuiltIns, BuiltInIds
  <2> QED BY <2>1, <2>2, <2>3, SeedMoves DEF SeedBuiltIns
<1> QED BY <1>1, <1>2 DEF SeedBuiltIns

LEMMA SeedServiceKeeps ==
  ASSUME ClientsInv, NEW p \in Procs, SeedService(p)
  PROVE  ClientsInv'
<1> DEFINE id == Configured(p)[seed[p].next]
<1>1. CASE Rollback(p)
  BY <1>1, RollbackKeeps DEF SeedService
<1>2. CASE seed' = [seed EXCEPT ![p].next = @ + 1]
  <2>1. PICK tx : /\ tx = [seed[p] EXCEPT !.next = @ + 1]
                  /\ seed' = [seed EXCEPT ![p] = tx]
    BY <1>2 DEF ClientsInv, ClientTypes
  <2>2. IsSeed(tx) /\ tx.rows = seed[p].rows
    BY <2>1 DEF IsSeed, ClientsInv, ClientTypes
  <2> QED BY <2>1, <2>2, SeedMoves DEF SeedService
<1>3. ASSUME ~LockedByOther(p, id), id \notin DOMAIN clients,
             seed' = [[seed EXCEPT ![p].next = @ + 1] EXCEPT ![p].rows = With(@, id, EntrySecret(id))]
      PROVE  ClientsInv'
  <2>0. seed = [q \in Procs |-> seed[q]] /\ IsSeed(seed[p])
    BY DEF ClientsInv, ClientTypes
  <2>1. PICK tx : /\ tx = [[seed[p] EXCEPT !.next = seed[p].next + 1]
                            EXCEPT !.rows = With(seed[p].rows, id, EntrySecret(id))]
                  /\ seed' = [seed EXCEPT ![p] = tx]
    <3> DEFINE first == [seed[p] EXCEPT !.next = seed[p].next + 1]
    <3>1. first.rows = seed[p].rows
      BY <2>0 DEF IsSeed
    <3>2. [seed EXCEPT ![p].next = @ + 1] = [seed EXCEPT ![p] = first]
      BY <2>0
    <3> HIDE DEF id, first
    <3>3. [seed EXCEPT ![p] = first][p] = first
      BY <2>0
    <3>4. seed' = [[seed EXCEPT ![p] = first]
                     EXCEPT ![p] = [first EXCEPT !.rows = With(first.rows, id, EntrySecret(id))]]
      BY <1>3, <3>2, <3>3
    <3>5. seed' = [seed EXCEPT ![p] = [first EXCEPT !.rows = With(first.rows, id, EntrySecret(id))]]
      BY <2>0, <3>4
    <3> QED BY <3>1, <3>5 DEF first
  <2>2. IsSeed(tx) /\ tx.rows = With(seed[p].rows, id, EntrySecret(id))
    <3>1. IsSeed(seed[p])
      BY DEF ClientsInv, ClientTypes
    <3> HIDE DEF id
    <3> QED BY <2>1, <3>1 DEF IsSeed
  <2>3. DOMAIN tx.rows = DOMAIN seed[p].rows \cup {id}
    BY <2>2 DEF With
  <2> HIDE DEF id
  <2> QED BY <1>3, <2>1, <2>2, <2>3, SeedMoves, ZenonT(60) DEF SeedService
<1> QED BY <1>1, <1>2, <1>3 DEF SeedService

LEMMA SeedCommitKeeps ==
  ASSUME ClientsInv, NEW p \in Procs, SeedCommit(p)
  PROVE  ClientsInv'
<1>1. /\ seed' = [q \in Procs |-> seed'[q]]
      /\ seed'[p] = NoSeed /\ \A q \in Procs : q # p => seed'[q] = seed[q]
  BY SeedOf DEF SeedCommit, Rollback, ClientsInv
<1>2. /\ UNCHANGED <<request, handed>> /\ clients' = Over(seed[p].rows, clients)
      /\ inactive' \subseteq inactive
  BY DEF SeedCommit
<1>3. /\ DOMAIN clients' = DOMAIN seed[p].rows \cup DOMAIN clients
      /\ \A id \in DOMAIN clients \ DOMAIN seed[p].rows : clients'[id] = clients[id]
  BY <1>2 DEF Over
<1>4. ClientTypes'
  BY <1>1, <1>2, NoSeedState DEF ClientsInv, ClientTypes
<1>5. OwnRows'
  <2>1. ASSUME NEW q \in Procs PROVE DOMAIN seed'[q].rows \cap DOMAIN clients' \subseteq BuiltInIds
    <3>1. CASE q = p
      BY <1>1, <3>1, NoSeedState
    <3>2. CASE q # p
      BY <1>1, <1>3, <3>2 DEF ClientsInv, OwnRows
    <3> QED BY <3>1, <3>2
  <2>2. \A q1, q2 \in Procs : q1 # q2 => DOMAIN seed'[q1].rows \cap DOMAIN seed'[q2].rows = {}
    BY <1>1, NoSeedState DEF ClientsInv, OwnRows
  <2> QED BY <2>1, <2>2 DEF OwnRows, BuiltInIds
<1>6. HandedInv'
  <2>1. ASSUME NEW h \in handed PROVE h.id \in DOMAIN clients \ DOMAIN seed[p].rows
    <3>1. h.id \in Services /\ h.id \in DOMAIN clients
      BY DEF ClientsInv, HandedInv
    <3>2. h.id \notin BuiltInIds
      BY <3>1, ClientConstants DEF BuiltInIds
    <3> QED BY <3>1, <3>2 DEF ClientsInv, OwnRows
  <2> QED BY <1>2, <1>3, <2>1 DEF ClientsInv, HandedInv
<1> QED BY <1>4, <1>5, <1>6 DEF ClientsInv

LEMMA SeedStepKeeps ==
  ASSUME ClientsInv, NEW p \in Procs, SeedStep(p)
  PROVE  ClientsInv'
<1>1. CASE SeedFails(p)
  BY <1>1, RollbackKeeps DEF SeedFails
<1> QED BY <1>1, SeedBuiltInsKeeps, SeedServiceKeeps, SeedCommitKeeps DEF SeedStep

\* A registration moves and answers perhaps with what is in the row.
LEMMA RequestMoves ==
  ASSUME ClientsInv, NEW p \in Procs, NEW state, request' = [request EXCEPT ![p] = state],
         state.pc = "create" => state.id \in Services, UNCHANGED seed,
         DOMAIN clients \subseteq DOMAIN clients', UNCHANGED inactive,
         \A id \in DOMAIN clients : clients'[id] = clients[id],
         \A id \in DOMAIN clients' \ DOMAIN clients : \A q \in Procs : id \notin DOMAIN seed[q].rows,
         \A h \in handed' \ handed :
           /\ h.id \in Services /\ h.id \in DOMAIN clients' /\ clients'[h.id] = h.secret
           /\ h.id \in inactive => h.inactive
  PROVE  ClientsInv'
<1>1. request' = [q \in Procs |-> request'[q]]
      /\ \A q \in Procs : request'[q] = IF q = p THEN state ELSE request[q]
  BY DEF ClientsInv, ClientTypes
<1>2. ClientTypes'
  BY <1>1 DEF ClientsInv, ClientTypes
<1>3. OwnRows'
  <2>1. ASSUME NEW q \in Procs PROVE DOMAIN seed[q].rows \cap DOMAIN clients' \subseteq BuiltInIds
    BY DEF ClientsInv, OwnRows
  <2> QED BY <2>1 DEF ClientsInv, OwnRows, BuiltInIds
<1>4. HandedInv'
  BY DEF ClientsInv, HandedInv
<1> QED BY <1>2, <1>3, <1>4 DEF ClientsInv

LEMMA Answered ==
  ASSUME NEW p, NEW id, NEW secret, Answer(p, id, secret)
  PROVE  /\ request' = [request EXCEPT ![p] = NoRequest]
         /\ \A h \in handed' \ handed :
              h.id = id /\ h.secret = secret /\ (h.id \in inactive => h.inactive)
<1> DEFINE off == id \in inactive
<1>1. ASSUME NEW h \in handed' \ handed
      PROVE  h.id = id /\ h.secret = secret /\ (h.id \in inactive => h.inactive)
  <2>1. h = [id |-> id, secret |-> secret, inactive |-> off]
    BY <1>1 DEF Answer
  <2> HIDE DEF off
  <2>2. h.id = id /\ h.secret = secret /\ h.inactive = off
    BY <2>1
  <2> USE DEF off
  <2> QED BY <2>2
<1> QED BY <1>1 DEF Answer

LEMMA AnswerExistingKeeps ==
  ASSUME ClientsInv, NEW p \in Procs, NEW id \in Services, id \in DOMAIN clients,
         AnswerExisting(p, id), UNCHANGED <<clients, inactive, seed>>
  PROVE  ClientsInv'
<1>1. /\ request' = [request EXCEPT ![p] = NoRequest]
      /\ \A h \in handed' \ handed :
           h.id = id /\ h.secret = clients[id] /\ (h.id \in inactive => h.inactive)
  BY Answered DEF AnswerExisting
<1>2. NoRequest.pc = "idle"
  BY DEF NoRequest
<1> QED BY <1>1, <1>2, RequestMoves

LEMMA RegistrationKeeps ==
  ASSUME ClientsInv, NEW p \in Procs, RegisterServiceClient(p) \/ RequestStep(p)
  PROVE  ClientsInv'
<1>0. NoRequest.pc = "idle"
  BY DEF NoRequest
<1>1. CASE RegisterServiceClient(p)
  <2>1. PICK s \in Services :
          IF s \in DOMAIN clients
            THEN AnswerExisting(p, s)
            ELSE request' = [request EXCEPT ![p] = [pc |-> "create", id |-> s]] /\ UNCHANGED handed
    BY <1>1 DEF RegisterServiceClient
  <2>2. UNCHANGED <<clients, inactive, seed>>
    BY <1>1 DEF RegisterServiceClient
  <2>3. CASE s \in DOMAIN clients
    BY <2>1, <2>2, <2>3, AnswerExistingKeeps
  <2>4. CASE s \notin DOMAIN clients
    BY <2>1, <2>2, <2>4, RequestMoves
  <2> QED BY <2>3, <2>4
<1>2. CASE CreateClient(p)
  <2> DEFINE id == request[p].id
  <2>1. id \in Services /\ \A q \in Procs : id \notin DOMAIN seed[q].rows
    BY <1>2 DEF CreateClient, ClientsInv, ClientTypes
  <2>2. CASE id \in DOMAIN clients
    BY <1>2, <2>1, <2>2, AnswerExistingKeeps DEF CreateClient, AnswerRaced
  <2>3. CASE id \notin DOMAIN clients
    <3>1. /\ clients' = With(clients, id, NewSecret(p, id)) /\ UNCHANGED <<inactive, seed>>
          /\ Answer(p, id, NewSecret(p, id))
      BY <1>2, <2>3 DEF CreateClient
    <3> HIDE DEF id
    <3>2. /\ DOMAIN clients' = DOMAIN clients \cup {id} /\ clients'[id] = NewSecret(p, id)
          /\ \A x \in DOMAIN clients : clients'[x] = clients[x]
      BY <2>3, <3>1 DEF With
    <3>3. /\ request' = [request EXCEPT ![p] = NoRequest]
          /\ \A h \in handed' \ handed :
               h.id = id /\ h.secret = NewSecret(p, id) /\ (h.id \in inactive => h.inactive)
      BY <3>1, Answered
    <3> QED BY <1>0, <2>1, <3>1, <3>2, <3>3, RequestMoves
  <2> QED BY <2>2, <2>3
<1>3. CASE RequestFails(p)
  BY <1>0, <1>3, RequestMoves DEF RequestFails
<1> QED BY <1>1, <1>2, <1>3 DEF RequestStep

\* The process stops: its transaction and its request are gone.
LEMMA ClientsStopKeeps ==
  ASSUME ClientsInv, NEW p \in Procs, ClientsStop(p)
  PROVE  ClientsInv'
<1>1. /\ seed' = [q \in Procs |-> seed'[q]]
      /\ seed'[p] = NoSeed /\ \A q \in Procs : q # p => seed'[q] = seed[q]
  BY SeedOf DEF ClientsStop, Rollback, ClientsInv
<1>2. UNCHANGED <<clients, inactive, handed>> /\ request' = [request EXCEPT ![p] = NoRequest]
  BY DEF ClientsStop
<1>3. ClientTypes'
  <2>1. request' = [q \in Procs |-> request'[q]]
        /\ \A q \in Procs : request'[q] = IF q = p THEN NoRequest ELSE request[q]
    BY <1>2 DEF ClientsInv, ClientTypes
  <2>2. NoRequest.pc = "idle"
    BY DEF NoRequest
  <2>3. \A q \in Procs : IsSeed(seed'[q])
    BY <1>1, NoSeedState DEF ClientsInv, ClientTypes
  <2>4. \A q \in Procs : request'[q].pc = "create" => request'[q].id \in Services
    BY <2>1, <2>2 DEF ClientsInv, ClientTypes
  <2> QED BY <1>1, <2>1, <2>3, <2>4 DEF ClientTypes, IsSeed
<1>4. OwnRows'
  <2>1. ASSUME NEW q \in Procs PROVE DOMAIN seed'[q].rows \cap DOMAIN clients' \subseteq BuiltInIds
    BY <1>1, <1>2, NoSeedState DEF ClientsInv, OwnRows
  <2>2. \A q1, q2 \in Procs : q1 # q2 => DOMAIN seed'[q1].rows \cap DOMAIN seed'[q2].rows = {}
    BY <1>1, NoSeedState DEF ClientsInv, OwnRows
  <2> QED BY <2>1, <2>2 DEF OwnRows, BuiltInIds
<1>5. HandedInv'
  BY <1>2 DEF ClientsInv, HandedInv
<1> QED BY <1>3, <1>4, <1>5 DEF ClientsInv

LEMMA ClientsInvInit == Init => ClientsInv
<1> SUFFICES ASSUME Init PROVE ClientsInv
  OBVIOUS
<1>1. /\ seed = [p \in Procs |-> NoSeed] /\ request = [p \in Procs |-> NoRequest]
      /\ handed = {}
  BY DEF Init, ClientsInit
<1>2. \A p \in Procs : seed[p] = NoSeed /\ request[p] = NoRequest /\ request[p].pc = "idle"
  BY <1>1 DEF NoRequest
<1>3. ClientTypes
  BY <1>1, <1>2, NoSeedState DEF ClientTypes
<1> QED BY <1>1, <1>2, <1>3, NoSeedState DEF ClientsInv, OwnRows, HandedInv

LEMMA ClientsInvStep == ClientsInv /\ [Next]_vars => ClientsInv'
<1> SUFFICES ASSUME ClientsInv, [Next]_vars PROVE ClientsInv'
  OBVIOUS
<1>1. ASSUME UNCHANGED ovars PROVE ClientsInv'
  BY <1>1 DEF ovars, ClientsInv, ClientTypes, OwnRows, HandedInv
<1>2. CASE UNCHANGED vars
  BY <1>1, <1>2 DEF vars
<1>3. ASSUME NEW p \in Procs, Stop(p) PROVE ClientsInv'
  BY <1>3, ClientsStopKeeps DEF Stop
<1>4. ASSUME NEW p \in Procs, Serve(p) PROVE ClientsInv'
  BY <1>4, RegistrationKeeps DEF Serve
<1>5. ASSUME NEW p \in Procs, CallbackStep(p) PROVE ClientsInv'
  BY <1>1, <1>5, SeedBeginKeeps, SeedStepKeeps
     DEF CallbackStep, Dial, ReadColumn, ReadKey, DropKey, DropService, AddKey, Up,
         EnsureMigrationsFails, Seed
<1>6. ASSUME NEW p \in Procs,
             \/ Configure(p) \/ RegisterOnConnect(p) \/ OpenFails(p) \/ OpenSucceeds(p)
             \/ WalkOnConnect(p) \/ Restart(p)
      PROVE  ClientsInv'
  BY <1>1, <1>6 DEF Configure, RegisterOnConnect, OpenFails, OpenSucceeds, WalkOnConnect, Restart
<1> QED BY <1>2, <1>3, <1>4, <1>5, <1>6 DEF Next

\* Credentials that were handed out of an active row are accepted for good, whoever
\* registers or seeds the same name at the same time (AuthenticateClient).
THEOREM CredentialsLast == Spec => []CredentialsWork
<1>1. ClientsInv => CredentialsWork
  BY DEF ClientsInv, HandedInv, CredentialsWork, AuthenticateClient
<1> QED BY <1>1, ClientsInvInit, ClientsInvStep, PTL DEF Spec
----------------------------------------------------------------------------
\* config.yaml.  What the constants None and Torn stand for is not a file.

NotFiles == \A v, keys : [version |-> v, keys |-> keys] \notin {None, Torn}

Maps ==
  /\ DOMAIN file = Procs /\ DOMAIN backup = Procs /\ DOMAIN tmp = Procs
  /\ DOMAIN start = Procs /\ DOMAIN loaded = Procs /\ DOMAIN known = Procs
  /\ DOMAIN cutShort = Procs

\* A file that is not migrated any more.
UpToDate(f) == f \notin {None, Torn} /\ ~(Version(f) < ConfigVersion)

\* Where a process is in its start, and what it has therefore on disk.
Staged(p) ==
  /\ {"pc", "read", "n"} \subseteq DOMAIN start[p]
  /\ At(p, "read") => file[p] # None
  /\ At(p, "load") => UpToDate(file[p])
  /\ At(p, "tmp open") => UpToDate(start[p].read)
  /\ At(p, "rename") => UpToDate(tmp[p])

BackedUp(p) == backup[p] = original[p] \/ cutShort[p]

\* An original that is there is not taken for a missing file, and without an earlier
\* backup it is not replaced before it is backed up.
FirstBackup(p) ==
  /\ file[p] = original[p] \/ BackedUp(p)
  /\ backup[p] # None /\ ~At(p, "backup open") => BackedUp(p)
  /\ At(p, "backup open") => file[p] = original[p] \/ cutShort[p]
  /\ start[p].pc \in {"migrate", "tmp open", "rename"} => BackedUp(p)

\* A backup that was there stays.
Kept(p) ==
  original[p] # None =>
    /\ file[p] # None /\ start[p].pc \notin {"create", "fill"}
    /\ found[p] = None => FirstBackup(p)
    /\ found[p] # None => backup[p] = found[p] /\ ~At(p, "backup open")

\* Once secrets have been loaded, the file that has them is not written again.
Settled(p) ==
  /\ known[p] # None =>
       /\ UpToDate(file[p]) /\ SecretsIn(file[p].keys) = known[p]
       /\ start[p].pc \in {"down", "stat", "read", "load", "up"}
  /\ loaded[p] # None => SecretsIn(loaded[p]) = known[p]

DiskInv == Maps /\ \A p \in Procs : Staged(p) /\ Kept(p) /\ Settled(p)

\* Each process has files of its own.
SameFor(q) ==
  /\ file'[q] = file[q] /\ backup'[q] = backup[q] /\ tmp'[q] = tmp[q] /\ start'[q] = start[q]
  /\ loaded'[q] = loaded[q] /\ known'[q] = known[q] /\ cutShort'[q] = cutShort[q]

LEMMA ConfigFrame ==
  ASSUME Maps, NEW p \in Procs, ConfigStep(p) \/ ConfigStop(p) \/ ConfigRestart(p)
  PROVE  Maps' /\ UNCHANGED <<original, found>> /\ \A q \in Procs : q # p => SameFor(q)
<1>1. CASE Stat(p)
  BY <1>1 DEF Stat, GoOn, Continue, disk, Maps, SameFor
<1>2. CASE CreateDefault(p)
  BY <1>2 DEF CreateDefault, GoOn, Continue, Maps, SameFor
<1>3. CASE ReadConfig(p)
  BY <1>3 DEF ReadConfig, Continue, disk, Maps, SameFor
<1>4. CASE BackupConfigFile(p)
  BY <1>4 DEF BackupConfigFile, GoOn, Continue, Maps, SameFor
<1>5. CASE WriteMigrated(p)
  BY <1>5 DEF WriteMigrated, GoOn, Continue, Maps, SameFor
<1>6. CASE ReplaceConfig(p)
  BY <1>6 DEF ReplaceConfig, GoOn, Continue, Maps, SameFor
<1>7. CASE Load(p)
  BY <1>7 DEF Load, Continue, disk, Maps, SameFor
<1>8. CASE ConfigStop(p)
  BY <1>8 DEF ConfigStop, disk, Maps, SameFor
<1>9. CASE ConfigRestart(p)
  BY <1>9 DEF ConfigRestart, disk, Maps, SameFor
<1> QED BY <1>1, <1>2, <1>3, <1>4, <1>5, <1>6, <1>7, <1>8, <1>9 DEF ConfigStep

LEMMA SameKeeps ==
  ASSUME DiskInv, NEW q \in Procs, SameFor(q), UNCHANGED <<original, found>>
  PROVE  Staged(q)' /\ Kept(q)' /\ Settled(q)'
<1>1. original'[q] = original[q] /\ found'[q] = found[q]
  OBVIOUS
<1>2. Staged(q) /\ Kept(q) /\ Settled(q)
  BY DEF DiskInv
<1>3. Staged(q)'
  BY <1>2 DEF SameFor, Staged, At
<1>4. Kept(q)'
  BY <1>1, <1>2 DEF SameFor, Kept, FirstBackup, BackedUp, At
<1>5. Settled(q)'
  BY <1>2 DEF SameFor, Settled
<1> QED BY <1>3, <1>4, <1>5

LEMMA OneProcess ==
  ASSUME DiskInv, NEW p \in Procs, ConfigStep(p) \/ ConfigStop(p) \/ ConfigRestart(p),
         Staged(p)', Kept(p)', Settled(p)'
  PROVE  DiskInv'
<1>1. Maps' /\ UNCHANGED <<original, found>> /\ \A q \in Procs : q # p => SameFor(q)
  BY ConfigFrame DEF DiskInv
<1>2. ASSUME NEW q \in Procs, q # p PROVE Staged(q)' /\ Kept(q)' /\ Settled(q)'
  BY <1>1, <1>2, SameKeeps
<1> QED BY <1>1, <1>2 DEF DiskInv

\* Moving on in start.
LEMMA StartMoves ==
  ASSUME DiskInv, NEW p \in Procs, NEW pc, GoOn(p, pc)
  PROVE  /\ start'[p].pc = pc /\ start'[p].read = start[p].read
         /\ {"pc", "read", "n"} \subseteq DOMAIN start'[p]
BY DEF DiskInv, Maps, Staged, GoOn, Continue

LEMMA StartReads ==
  ASSUME DiskInv, NEW p \in Procs, NEW pc, NEW read,
         Continue(p, [start[p] EXCEPT !.pc = pc, !.read = read])
  PROVE  /\ start'[p].pc = pc /\ start'[p].read = read
         /\ {"pc", "read", "n"} \subseteq DOMAIN start'[p]
BY DEF DiskInv, Maps, Staged, Continue

LEMMA StatDisk ==
  ASSUME DiskInv, NEW p \in Procs, Stat(p)
  PROVE  DiskInv'
<1>1. Staged(p) /\ Kept(p) /\ Settled(p) /\ start[p].pc = "stat"
  BY DEF Stat, At, DiskInv
<1>2. UNCHANGED <<file, backup, tmp, loaded, original, found, known, cutShort>>
  BY DEF Stat, disk
<1>3. PICK pc : pc = (IF file[p] = None THEN "create" ELSE "read") /\ GoOn(p, pc)
  BY DEF Stat
<1>4. start'[p].pc = pc /\ {"pc", "read", "n"} \subseteq DOMAIN start'[p]
  BY <1>3, StartMoves
<1>5. Staged(p)'
  BY <1>1, <1>2, <1>3, <1>4 DEF Staged, At
<1>6. Kept(p)'
  BY <1>1, <1>2, <1>3, <1>4 DEF Kept, FirstBackup, BackedUp, At
<1>7. Settled(p)'
  BY <1>1, <1>2, <1>3, <1>4 DEF Settled, UpToDate
<1> QED BY <1>5, <1>6, <1>7, OneProcess DEF ConfigStep

LEMMA CreateDefaultDisk ==
  ASSUME NotFiles, DiskInv, NEW p \in Procs, CreateDefault(p)
  PROVE  DiskInv'
<1>1. Staged(p) /\ Kept(p) /\ Settled(p) /\ start[p].pc \in {"create", "fill"}
  BY DEF CreateDefault, At, DiskInv
<1>2. UNCHANGED <<backup, tmp, loaded, original, found, known, cutShort>>
  BY DEF CreateDefault
<1>3. original[p] = None /\ known[p] = None
  BY <1>1 DEF Kept, Settled
<1>4. UpToDate(DefaultConfig(start[p].n))
  BY DEF UpToDate, DefaultConfig, NotFiles, Version, ConfigVersion
<1>5. PICK pc \in {"fill", "load"} :
        GoOn(p, pc) /\ (pc = "load" => file' = [file EXCEPT ![p] = DefaultConfig(start[p].n)])
  BY DEF CreateDefault
<1>6. start'[p].pc = pc /\ {"pc", "read", "n"} \subseteq DOMAIN start'[p]
  BY <1>5, StartMoves
<1>7. Staged(p)'
  BY <1>4, <1>5, <1>6 DEF Staged, At, UpToDate, Version, DiskInv, Maps
<1>8. Kept(p)'
  BY <1>2, <1>3 DEF Kept
<1>9. Settled(p)'
  BY <1>1, <1>2, <1>3 DEF Settled
<1> QED BY <1>7, <1>8, <1>9, OneProcess DEF ConfigStep

LEMMA ReadConfigDisk ==
  ASSUME DiskInv, NEW p \in Procs, ReadConfig(p)
  PROVE  DiskInv'
<1>1. Staged(p) /\ Kept(p) /\ Settled(p) /\ start[p].pc = "read"
  BY DEF ReadConfig, At, DiskInv
<1>2. UNCHANGED <<file, backup, tmp, loaded, original, found, known, cutShort>>
  BY DEF ReadConfig, disk
<1>3. PICK pc : /\ pc = (IF Version(file[p]) < ConfigVersion THEN "backup" ELSE "load")
                /\ Continue(p, [start[p] EXCEPT !.pc = pc, !.read = file[p]])
  BY DEF ReadConfig, AfterRead
<1>4. start'[p].pc = pc /\ {"pc", "read", "n"} \subseteq DOMAIN start'[p]
  BY <1>3, StartReads
<1>5. pc = "load" => UpToDate(file[p])
  BY <1>1, <1>3 DEF UpToDate, Staged, At, Version, ConfigVersion
<1>6. pc = "backup" => ~UpToDate(file[p])
  BY <1>3 DEF UpToDate
<1>7. Staged(p)'
  BY <1>2, <1>3, <1>4, <1>5 DEF Staged, At, UpToDate, Version
<1>8. Kept(p)'
  BY <1>1, <1>2, <1>3, <1>4 DEF Kept, FirstBackup, BackedUp, At
<1>9. Settled(p)'
  BY <1>1, <1>2, <1>3, <1>4, <1>6 DEF Settled, UpToDate, Version
<1> QED BY <1>7, <1>8, <1>9, OneProcess DEF ConfigStep

LEMMA BackupDisk ==
  ASSUME DiskInv, NEW p \in Procs, BackupConfigFile(p)
  PROVE  DiskInv'
<1>1. Staged(p) /\ Kept(p) /\ Settled(p) /\ start[p].pc \in {"backup", "backup open"}
  BY DEF BackupConfigFile, At, DiskInv
<1>2. UNCHANGED <<file, tmp, loaded, original, found, known, cutShort>> /\ known[p] = None
  BY <1>1 DEF BackupConfigFile, Settled
<1>3. PICK pc \in {"migrate", "backup open"} :
        /\ GoOn(p, pc)
        /\ \/ /\ start[p].pc = "backup" /\ backup[p] # None /\ backup' = backup /\ pc = "migrate"
           \/ /\ start[p].pc = "backup" /\ backup[p] = None /\ pc = "backup open"
              /\ backup'[p] = Torn
           \/ /\ start[p].pc = "backup open" /\ backup'[p] = file[p] /\ pc = "migrate"
  BY DEF BackupConfigFile, At, DiskInv, Maps
<1>4. start'[p].pc = pc /\ {"pc", "read", "n"} \subseteq DOMAIN start'[p]
  BY <1>3, StartMoves
<1>5. Staged(p)'
  BY <1>3, <1>4 DEF Staged, At
<1>6. Kept(p)'
  BY <1>1, <1>2, <1>3, <1>4 DEF Kept, FirstBackup, BackedUp, At
<1>7. Settled(p)'
  BY <1>1, <1>2 DEF Settled
<1> QED BY <1>5, <1>6, <1>7, OneProcess DEF ConfigStep

LEMMA MigratedFile ==
  ASSUME NotFiles, NEW config, NEW fresh
  PROVE  UpToDate(MigrateConfig(config, fresh))
<1>1. PICK keys : MigrateConfig(config, fresh) = [version |-> ConfigVersion, keys |-> keys]
  BY DEF MigrateConfig
<1> QED BY <1>1 DEF NotFiles, UpToDate, Version, ConfigVersion

LEMMA WriteMigratedDisk ==
  ASSUME NotFiles, DiskInv, NEW p \in Procs, WriteMigrated(p)
  PROVE  DiskInv'
<1>1. Staged(p) /\ Kept(p) /\ Settled(p) /\ start[p].pc \in {"migrate", "tmp open"}
  BY DEF WriteMigrated, At, DiskInv
<1>2. UNCHANGED <<file, backup, loaded, original, found, known, cutShort>> /\ known[p] = None
  BY <1>1 DEF WriteMigrated, Settled
<1>3. /\ start'[p].pc \in {"tmp open", "rename"} /\ {"pc", "read", "n"} \subseteq DOMAIN start'[p]
      /\ Staged(p)'
  <2>1. CASE start[p].pc = "migrate"
    <3>1. PICK read : /\ read = MigrateConfig(start[p].read, Fresh(start[p].n))
                      /\ Continue(p, [start[p] EXCEPT !.pc = "tmp open", !.read = read])
      BY <2>1 DEF WriteMigrated, At
    <3>2. UpToDate(read)
      BY <3>1, MigratedFile
    <3>3. /\ start'[p].pc = "tmp open" /\ start'[p].read = read
          /\ {"pc", "read", "n"} \subseteq DOMAIN start'[p]
      BY <3>1, StartReads, ZenonT(60)
    <3> QED BY <3>2, <3>3 DEF Staged, At, UpToDate, Version
  <2>2. CASE start[p].pc = "tmp open"
    <3>1. GoOn(p, "rename") /\ tmp'[p] = start[p].read
      BY <2>2 DEF WriteMigrated, At, DiskInv, Maps
    <3>2. start'[p].pc = "rename" /\ {"pc", "read", "n"} \subseteq DOMAIN start'[p]
      BY <3>1, StartMoves
    <3>3. UpToDate(start[p].read)
      BY <1>1, <2>2 DEF Staged, At
    <3> QED BY <3>1, <3>2, <3>3 DEF Staged, At, UpToDate, Version
  <2> QED BY <1>1, <2>1, <2>2
<1>4. Kept(p)'
  BY <1>1, <1>2, <1>3 DEF Kept, FirstBackup, BackedUp, At
<1>5. Settled(p)'
  BY <1>1, <1>2 DEF Settled
<1> QED BY <1>3, <1>4, <1>5, OneProcess DEF ConfigStep

LEMMA ReplaceConfigDisk ==
  ASSUME DiskInv, NEW p \in Procs, ReplaceConfig(p)
  PROVE  DiskInv'
<1>1. Staged(p) /\ Kept(p) /\ Settled(p) /\ start[p].pc = "rename"
  BY DEF ReplaceConfig, At, DiskInv
<1>2. /\ UNCHANGED <<backup, loaded, original, found, known, cutShort>>
      /\ file'[p] = tmp[p] /\ known[p] = None
  BY <1>1 DEF ReplaceConfig, Settled, DiskInv, Maps
<1>3. start'[p].pc = "load" /\ {"pc", "read", "n"} \subseteq DOMAIN start'[p]
  BY StartMoves DEF ReplaceConfig
<1>4. UpToDate(tmp[p])
  BY <1>1 DEF Staged, At
<1>5. Staged(p)'
  BY <1>2, <1>3, <1>4 DEF Staged, At, UpToDate, Version
<1>6. Kept(p)'
  BY <1>1, <1>2, <1>3, <1>4 DEF Kept, FirstBackup, BackedUp, At, UpToDate
<1>7. Settled(p)'
  BY <1>1, <1>2 DEF Settled
<1> QED BY <1>5, <1>6, <1>7, OneProcess DEF ConfigStep

LEMMA LoadDisk ==
  ASSUME DiskInv, NEW p \in Procs, Load(p)
  PROVE  DiskInv'
<1>1. Staged(p) /\ Kept(p) /\ Settled(p) /\ start[p].pc = "load"
  BY DEF Load, At, DiskInv
<1>2. UNCHANGED <<file, backup, tmp, original, found, cutShort>>
  BY DEF Load, disk
<1>3. /\ loaded'[p] = file[p].keys
      /\ known'[p] = IF known[p] = None THEN SecretsIn(file[p].keys) ELSE known[p]
  BY DEF Load, Parse, DiskInv, Maps
<1>4. start'[p].pc = "up" /\ {"pc", "read", "n"} \subseteq DOMAIN start'[p]
  BY StartReads DEF Load
<1>5. UpToDate(file[p])
  BY <1>1 DEF Staged, At
<1>6. Staged(p)'
  BY <1>4 DEF Staged, At
<1>7. Kept(p)'
  BY <1>1, <1>2, <1>4 DEF Kept, FirstBackup, BackedUp, At
<1>8. known'[p] = SecretsIn(file[p].keys)
  BY <1>1, <1>3 DEF Settled
<1>9. Settled(p)'
  BY <1>2, <1>3, <1>4, <1>5, <1>8 DEF Settled, UpToDate, Version, SecretsIn
<1> QED BY <1>6, <1>7, <1>9, OneProcess DEF ConfigStep

LEMMA StopDisk ==
  ASSUME DiskInv, NEW p \in Procs, ConfigStop(p)
  PROVE  DiskInv'
<1>1. Staged(p) /\ Kept(p) /\ Settled(p)
  BY DEF DiskInv
<1>2. UNCHANGED <<file, backup, tmp, original, found, known>>
  BY DEF ConfigStop, disk
<1>3. /\ start'[p].pc = "down" /\ {"pc", "read", "n"} \subseteq DOMAIN start'[p]
      /\ loaded'[p] = None /\ cutShort'[p] = (cutShort[p] \/ At(p, "backup open"))
  BY <1>1 DEF ConfigStop, Staged, DiskInv, Maps
<1>4. Staged(p)'
  BY <1>3 DEF Staged, At
<1>5. Kept(p)'
  BY <1>1, <1>2, <1>3 DEF Kept, FirstBackup, BackedUp, At
<1>6. Settled(p)'
  BY <1>1, <1>2, <1>3 DEF Settled, UpToDate, Version, SecretsIn
<1> QED BY <1>4, <1>5, <1>6, OneProcess

LEMMA RestartDisk ==
  ASSUME DiskInv, NEW p \in Procs, ConfigRestart(p)
  PROVE  DiskInv'
<1>1. Staged(p) /\ Kept(p) /\ Settled(p)
  BY DEF DiskInv
<1>2. UNCHANGED <<file, backup, tmp, loaded, original, found, known, cutShort>> /\ start[p].pc = "down"
  BY DEF ConfigRestart, disk, At
<1>3. start'[p].pc = "stat" /\ {"pc", "read", "n"} \subseteq DOMAIN start'[p]
  BY <1>1 DEF ConfigRestart, Staged, DiskInv, Maps
<1>4. Staged(p)'
  BY <1>3 DEF Staged, At
<1>5. Kept(p)'
  BY <1>1, <1>2, <1>3 DEF Kept, FirstBackup, BackedUp, At
<1>6. Settled(p)'
  BY <1>1, <1>2, <1>3 DEF Settled, UpToDate, Version
<1> QED BY <1>4, <1>5, <1>6, OneProcess

LEMMA DiskInit == Init => DiskInv
<1> SUFFICES ASSUME Init PROVE DiskInv
  OBVIOUS
<1>1. PICK w \in Worlds : ConfigInit(w.files, w.backups, w.used, w.running)
  BY DEF Init
<1>2. Maps
  BY <1>1, WorldsAssumption DEF ConfigInit, Maps
<1>3. ASSUME NEW p \in Procs PROVE Staged(p) /\ Kept(p) /\ Settled(p)
  <2>1. /\ file[p] = original[p] /\ file[p] = w.files[p] /\ backup[p] = found[p]
        /\ start[p] = [pc |-> IF p \in w.running THEN "up" ELSE "down", read |-> None, n |-> w.used[p]]
        /\ loaded[p] = IF p \in w.running THEN w.files[p].keys ELSE None
        /\ known[p] = IF p \in w.running THEN SecretsIn(w.files[p].keys) ELSE None
    BY <1>1 DEF ConfigInit
  <2>2. start[p].pc \in {"up", "down"} /\ {"pc", "read", "n"} \subseteq DOMAIN start[p]
    BY <2>1
  <2>3. p \in w.running => UpToDate(file[p])
    BY <2>1, WorldsAssumption DEF UpToDate, Version, ConfigVersion
  <2>4. Staged(p)
    BY <2>2 DEF Staged, At
  <2>5. Kept(p)
    BY <2>1, <2>2 DEF Kept, FirstBackup, At
  <2>6. Settled(p)
    <3>1. CASE p \in w.running
      BY <2>1, <2>2, <2>3, <3>1 DEF Settled
    <3>2. CASE p \notin w.running
      BY <2>1, <3>2 DEF Settled
    <3> QED BY <3>1, <3>2
  <2> QED BY <2>4, <2>5, <2>6
<1> QED BY <1>2, <1>3 DEF DiskInv

LEMMA DiskStep == NotFiles /\ DiskInv /\ [Next]_vars => DiskInv'
<1> SUFFICES ASSUME NotFiles, DiskInv, [Next]_vars PROVE DiskInv'
  OBVIOUS
<1>1. ASSUME UNCHANGED cvars PROVE DiskInv'
  <2>1. Maps' /\ UNCHANGED <<original, found>> /\ \A q \in Procs : SameFor(q)
    BY <1>1 DEF cvars, disk, DiskInv, Maps, SameFor
  <2> QED BY <2>1, SameKeeps DEF DiskInv
<1>2. CASE UNCHANGED vars
  BY <1>1, <1>2 DEF vars
<1>3. ASSUME NEW p \in Procs, Stop(p) PROVE DiskInv'
  BY <1>3, StopDisk DEF Stop
<1>4. ASSUME NEW p \in Procs, Restart(p) PROVE DiskInv'
  BY <1>4, RestartDisk DEF Restart
<1>5. ASSUME NEW p \in Procs, Configure(p) PROVE DiskInv'
  BY <1>5, StatDisk, CreateDefaultDisk, ReadConfigDisk, BackupDisk, WriteMigratedDisk,
     ReplaceConfigDisk, LoadDisk DEF Configure, ConfigStep
<1>6. ASSUME NEW p \in Procs, CallbackStep(p) PROVE DiskInv'
  BY <1>1, <1>6 DEF CallbackStep, Dial, ReadColumn, ReadKey, DropKey, DropService, AddKey, Up,
                    EnsureMigrationsFails, Seed
<1>7. ASSUME NEW p \in Procs,
             \/ RegisterOnConnect(p) \/ OpenFails(p) \/ OpenSucceeds(p) \/ WalkOnConnect(p) \/ Serve(p)
      PROVE  DiskInv'
  BY <1>1, <1>7 DEF RegisterOnConnect, OpenFails, OpenSucceeds, WalkOnConnect, Serve
<1> QED BY <1>2, <1>3, <1>4, <1>5, <1>6, <1>7 DEF Next

\* A backup for the file's version that was there stays as it was, and without one
\* the file the operator left is in place or backed up, wherever its upgrade was
\* interrupted, unless that was while the backup was written (BackupConfigFile).
THEOREM OriginalKept == NotFiles => (Spec => []OriginalIsKept)
<1> SUFFICES ASSUME NotFiles PROVE Spec => []OriginalIsKept
  OBVIOUS
<1>1. DiskInv /\ [Next]_vars => DiskInv'
  BY DiskStep
<1>2. DiskInv => OriginalIsKept
  BY DEF DiskInv, Kept, FirstBackup, BackedUp, OriginalIsKept
<1> QED BY <1>1, <1>2, DiskInit, PTL DEF Spec

\* The Manage Token and the super client's secret are the same after every
\* restart, wherever the starts in between were interrupted.
THEOREM SecretsKept == NotFiles => (Spec => []SecretsStay)
<1> SUFFICES ASSUME NotFiles PROVE Spec => []SecretsStay
  OBVIOUS
<1>1. DiskInv /\ [Next]_vars => DiskInv'
  BY DiskStep
<1>2. DiskInv => SecretsStay
  BY DEF DiskInv, Settled, SecretsStay
<1> QED BY <1>1, <1>2, DiskInit, PTL DEF Spec

----------------------------------------------------------------------------
\* The chain of migrations.

IsOwn(value) == \E k : value = Own(k)

LEMMA KindsDiffer ==
  /\ \A j, k : Own(j) = Own(k) => j = k
  /\ ~IsOwn(Empty) /\ \A k : Own(k) # Empty /\ ~IsOwn(DefaultOf(k))
  /\ \A k, n : Generated(k, n) # Empty /\ ~IsOwn(Generated(k, n)) /\ IsGenerated(Generated(k, n))
  /\ ~IsGenerated(Empty) /\ \A k : ~IsGenerated(Own(k)) /\ ~IsGenerated(DefaultOf(k))
BY DEF IsOwn, Own, Empty, DefaultOf, Generated, IsGenerated

LEMMA FreshTokens ==
  ASSUME NEW n, NEW k \in Secrets \cup {"core_api.internal_key"}
  PROVE  Fresh(n)[k] # Empty /\ ~IsOwn(Fresh(n)[k]) /\ IsGenerated(Fresh(n)[k])
BY KindsDiffer DEF Fresh

LEMMA Filled ==
  ASSUME NEW c, NEW S
  PROVE  /\ DOMAIN Fill(c, S) = DOMAIN c \cup S
         /\ \A k \in DOMAIN c : Fill(c, S)[k] = c[k]
         /\ \A k \in S \ DOMAIN c : Fill(c, S)[k] = DefaultOf(k)
BY DEF Fill, Over, Defaults

LEMMA FilledEmpty ==
  ASSUME NEW c, NEW S, NEW value
  PROVE  /\ DOMAIN FillEmpty(c, S, value) = DOMAIN c \cup S
         /\ \A k \in DOMAIN c : k \notin S \/ c[k] # Empty => FillEmpty(c, S, value)[k] = c[k]
         /\ \A k \in S : k \notin DOMAIN c \/ c[k] = Empty => FillEmpty(c, S, value)[k] = value[k]
BY DEF FillEmpty, Over

LEMMA Replaced ==
  ASSUME NEW c, NEW from, NEW to, from # to, from \in DOMAIN c
  PROVE  to \in DOMAIN Replace(c, from, to) /\ Replace(c, from, to)[to] = c[from]
BY DEF Replace, Without, With

LEMMA Bystander ==
  ASSUME NEW c, NEW from, NEW to, from # to, NEW k, k # from, k # to
  PROVE  /\ k \in DOMAIN Replace(c, from, to) <=> k \in DOMAIN c
         /\ k \in DOMAIN c => Replace(c, from, to)[k] = c[k]
BY DEF Replace, Without, With

\* What a migration does to the keys that are not in gone, and which values it
\* brings; the super client's secret is kept or generated.
KeepsSettings(c, d, gone) ==
  \A k \in DOMAIN c \ gone : c[k] # Empty => k \in DOMAIN d /\ d[k] = c[k]

AddsNoneOfOwn(c, d) ==
  \A k \in DOMAIN d : IsOwn(d[k]) => \E j \in DOMAIN c : d[k] = c[j]

KeepsOrGenerates(c, d) ==
  SuperSecretKey \in DOMAIN d =>
    \/ SuperSecretKey \in DOMAIN c /\ d[SuperSecretKey] = c[SuperSecretKey]
    \/ IsGenerated(d[SuperSecretKey])

PasswordCost    == "security.password_cost"
OldPasswordCost == "yggdrasil.security.password_cost"

KeepsCost(c, d) ==
  /\ PasswordCost \in DOMAIN d <=> PasswordCost \in DOMAIN c
  /\ PasswordCost \in DOMAIN c => d[PasswordCost] = c[PasswordCost]

Upgrades(c, d, gone) ==
  KeepsSettings(c, d, gone) /\ AddsNoneOfOwn(c, d) /\ KeepsOrGenerates(c, d)

LEMMA Nothing ==
  ASSUME NEW c, NEW gone
  PROVE  Upgrades(c, c, gone)
BY DEF Upgrades, KeepsSettings, AddsNoneOfOwn, KeepsOrGenerates

LEMMA InTurn ==
  ASSUME NEW c, NEW d, NEW e, NEW gone,
         Upgrades(c, d, gone), Upgrades(d, e, gone)
  PROVE  Upgrades(c, e, gone)
<1>1. KeepsSettings(c, e, gone)
  BY DEF Upgrades, KeepsSettings
<1>2. AddsNoneOfOwn(c, e)
  <2> SUFFICES ASSUME NEW k \in DOMAIN e, IsOwn(e[k]) PROVE \E j \in DOMAIN c : e[k] = c[j]
    BY DEF AddsNoneOfOwn
  <2>1. PICK i \in DOMAIN d : e[k] = d[i]
    BY DEF Upgrades, AddsNoneOfOwn
  <2> QED BY <2>1 DEF Upgrades, AddsNoneOfOwn
<1>3. KeepsOrGenerates(c, e)
  BY DEF Upgrades, KeepsOrGenerates
<1> QED BY <1>1, <1>2, <1>3 DEF Upgrades

LEMMA FillUpgrades ==
  ASSUME NEW c, NEW S, NEW gone, SuperSecretKey \notin S
  PROVE  Upgrades(c, Fill(c, S), gone)
<1> DEFINE d == Fill(c, S)
<1>1. /\ DOMAIN d = DOMAIN c \cup S
      /\ \A k \in DOMAIN c : d[k] = c[k]
      /\ \A k \in S \ DOMAIN c : d[k] = DefaultOf(k)
  BY Filled
<1> HIDE DEF d
<1>2. AddsNoneOfOwn(c, d)
  BY <1>1, KindsDiffer DEF AddsNoneOfOwn
<1>3. KeepsSettings(c, d, gone) /\ KeepsOrGenerates(c, d)
  BY <1>1 DEF KeepsSettings, KeepsOrGenerates
<1> QED BY <1>2, <1>3 DEF d, Upgrades

LEMMA FillEmptyUpgrades ==
  ASSUME NEW c, NEW S, NEW value, NEW gone,
         \A k \in S : IsOwn(value[k]) => \E j \in DOMAIN c : value[k] = c[j],
         SuperSecretKey \in S => IsGenerated(value[SuperSecretKey])
  PROVE  Upgrades(c, FillEmpty(c, S, value), gone)
<1> DEFINE d == FillEmpty(c, S, value)
<1>1. /\ DOMAIN d = DOMAIN c \cup S
      /\ \A k \in DOMAIN c : k \notin S \/ c[k] # Empty => d[k] = c[k]
      /\ \A k \in S : k \notin DOMAIN c \/ c[k] = Empty => d[k] = value[k]
  BY DEF FillEmpty, Over
<1> HIDE DEF d
<1>2. AddsNoneOfOwn(c, d)
  BY <1>1 DEF AddsNoneOfOwn
<1>3. KeepsSettings(c, d, gone) /\ KeepsOrGenerates(c, d)
  BY <1>1 DEF KeepsSettings, KeepsOrGenerates
<1> QED BY <1>2, <1>3 DEF d, Upgrades

LEMMA ReplaceUpgrades ==
  ASSUME NEW c, NEW from, NEW to, from # to, NEW gone,
         {from, to} \subseteq gone, SuperSecretKey \notin {from, to}
  PROVE  Upgrades(c, Replace(c, from, to), gone)
<1> DEFINE d == Replace(c, from, to)
<1>1. /\ to \in DOMAIN d => from \in DOMAIN c /\ d[to] = c[from]
      /\ \A k \in DOMAIN d \ {to} : k \in DOMAIN c /\ d[k] = c[k]
      /\ \A k \in DOMAIN c \ {from, to} : k \in DOMAIN d /\ d[k] = c[k]
  BY DEF Replace, Without, With
<1> HIDE DEF d
<1>2. AddsNoneOfOwn(c, d)
  BY <1>1 DEF AddsNoneOfOwn
<1>3. KeepsSettings(c, d, gone) /\ KeepsOrGenerates(c, d)
  BY <1>1 DEF KeepsSettings, KeepsOrGenerates
<1> QED BY <1>2, <1>3 DEF d, Upgrades

LEMMA WithoutUpgrades ==
  ASSUME NEW c, NEW S, NEW gone, S \subseteq gone
  PROVE  Upgrades(c, Without(c, S), gone)
BY DEF Upgrades, Without, KeepsSettings, AddsNoneOfOwn, KeepsOrGenerates

LEMMA CostKept ==
  ASSUME NEW c, NEW S, PasswordCost \notin S
  PROVE  /\ KeepsCost(c, Fill(c, S)) /\ KeepsCost(c, Without(c, S))
         /\ \A value : KeepsCost(c, FillEmpty(c, S, value))
<1>1. KeepsCost(c, Fill(c, S))
  BY DEF KeepsCost, Fill, Over, Defaults
<1>2. KeepsCost(c, Without(c, S))
  BY DEF KeepsCost, Without
<1>3. ASSUME NEW value PROVE KeepsCost(c, FillEmpty(c, S, value))
  BY DEF KeepsCost, FillEmpty, Over
<1> QED BY <1>1, <1>2, <1>3

\* The steps, one by one.
Renamed          == {"memcache.code_ttl", "memcache.storage_dir"}
VerificationKeys == {"verification_code.code_ttl", "verification_code.storage_dir"}

LEMMA V1ToV2 ==
  ASSUME NEW c
  PROVE  /\ Upgrades(c, MigrateV1ToV2(c), Memcache \cup VerificationKeys)
         /\ KeepsCost(c, MigrateV1ToV2(c))
         /\ \A k \in Renamed \cap DOMAIN c :
              Home(k) \in DOMAIN MigrateV1ToV2(c) /\ MigrateV1ToV2(c)[Home(k)] = c[k]
<1> DEFINE gone  == Memcache \cup VerificationKeys
           one   == Replace(c, "memcache.code_ttl", "verification_code.code_ttl")
           two   == Replace(one, "memcache.storage_dir", "verification_code.storage_dir")
           moved == IF Memcache \cap DOMAIN c # {} THEN Without(two, Memcache) ELSE c
           three == IF Memcache \cap DOMAIN c # {} THEN moved ELSE FillSection(moved, VerificationKeys)
           new   == FillSection(three, {"redis.host", "redis.prefix"})
<1>1. MigrateV1ToV2(c) = new
  BY DEF MigrateV1ToV2, Memcache, VerificationKeys
<1>2. Upgrades(c, moved, gone) /\ KeepsCost(c, moved)
  <2>1. Upgrades(c, one, gone) /\ Upgrades(one, two, gone)
    BY ReplaceUpgrades DEF Memcache, VerificationKeys, SuperSecretKey
  <2>2. Upgrades(c, two, gone) /\ Upgrades(c, c, gone)
    BY <2>1, InTurn, Nothing
  <2>4. Upgrades(c, Without(two, Memcache), gone)
    <3> HIDE DEF two
    <3>1. Upgrades(two, Without(two, Memcache), gone)
      BY WithoutUpgrades
    <3> QED BY <2>2, <3>1, InTurn
  <2>3. KeepsCost(c, two)
    <3>1. KeepsCost(c, one)
      BY Bystander DEF KeepsCost, PasswordCost
    <3> HIDE DEF one
    <3>2. KeepsCost(one, two)
      BY Bystander DEF KeepsCost, PasswordCost
    <3> QED BY <3>1, <3>2 DEF KeepsCost
  <2>5. KeepsCost(c, Without(two, Memcache))
    <3> HIDE DEF two
    <3>1. KeepsCost(two, Without(two, Memcache))
      BY CostKept DEF Memcache, PasswordCost
    <3> QED BY <2>3, <3>1 DEF KeepsCost
  <2> QED BY <2>2, <2>4, <2>5 DEF KeepsCost
<1>3. \A k \in Renamed \cap DOMAIN c : Home(k) \in DOMAIN moved /\ moved[Home(k)] = c[k]
  <2>1. SUFFICES ASSUME Renamed \cap DOMAIN c # {}
                 PROVE  \A k \in Renamed \cap DOMAIN c : Home(k) \in DOMAIN two /\ two[Home(k)] = c[k]
    <3>1. Renamed \subseteq Memcache /\ \A k \in Renamed : Home(k) \notin Memcache
      BY DEF Renamed, Memcache, Home
    <3> HIDE DEF two
    <3> QED BY <3>1 DEF Without
  <2>2. "memcache.code_ttl" \in DOMAIN c =>
          /\ "verification_code.code_ttl" \in DOMAIN two
          /\ two["verification_code.code_ttl"] = c["memcache.code_ttl"]
    <3>1. "memcache.code_ttl" \in DOMAIN c =>
            /\ "verification_code.code_ttl" \in DOMAIN one
            /\ one["verification_code.code_ttl"] = c["memcache.code_ttl"]
      BY Replaced
    <3> HIDE DEF one
    <3>2. "verification_code.code_ttl" \in DOMAIN one =>
            /\ "verification_code.code_ttl" \in DOMAIN two
            /\ two["verification_code.code_ttl"] = one["verification_code.code_ttl"]
      BY Bystander
    <3> QED BY <3>1, <3>2
  <2>3. "memcache.storage_dir" \in DOMAIN c =>
          /\ "verification_code.storage_dir" \in DOMAIN two
          /\ two["verification_code.storage_dir"] = c["memcache.storage_dir"]
    <3>1. "memcache.storage_dir" \in DOMAIN c =>
            /\ "memcache.storage_dir" \in DOMAIN one
            /\ one["memcache.storage_dir"] = c["memcache.storage_dir"]
      BY Bystander
    <3> HIDE DEF one
    <3>2. "memcache.storage_dir" \in DOMAIN one =>
            /\ "verification_code.storage_dir" \in DOMAIN two
            /\ two["verification_code.storage_dir"] = one["memcache.storage_dir"]
      BY Replaced
    <3> QED BY <3>1, <3>2
  <2> QED BY <2>2, <2>3 DEF Renamed, Home
<1> HIDE DEF moved
<1>4. ASSUME NEW d, NEW S, SuperSecretKey \notin S, PasswordCost \notin S
      PROVE  /\ Upgrades(d, FillSection(d, S), gone) /\ KeepsCost(d, FillSection(d, S))
             /\ \A k \in DOMAIN d : k \in DOMAIN FillSection(d, S) /\ FillSection(d, S)[k] = d[k]
  <2>1. FillSection(d, S) \in {d, Fill(d, S)}
    BY DEF FillSection
  <2>2. Upgrades(d, Fill(d, S), gone) /\ Upgrades(d, d, gone)
    BY <1>4, FillUpgrades, Nothing
  <2>3. KeepsCost(d, Fill(d, S)) /\ KeepsCost(d, d)
    BY <1>4, CostKept DEF KeepsCost
  <2>4. \A k \in DOMAIN d : k \in DOMAIN Fill(d, S) /\ Fill(d, S)[k] = d[k]
    BY Filled
  <2> QED BY <2>1, <2>2, <2>3, <2>4
<1>5. /\ Upgrades(moved, three, gone) /\ KeepsCost(moved, three)
      /\ \A k \in DOMAIN moved : k \in DOMAIN three /\ three[k] = moved[k]
  BY <1>4, Nothing DEF SuperSecretKey, PasswordCost, VerificationKeys, KeepsCost
<1>6. /\ Upgrades(three, new, gone) /\ KeepsCost(three, new)
      /\ \A k \in DOMAIN three : k \in DOMAIN new /\ new[k] = three[k]
  BY <1>4 DEF SuperSecretKey, PasswordCost
<1> HIDE DEF three, new, gone
<1>7. Upgrades(c, new, gone)
  BY <1>2, <1>5, <1>6, InTurn
<1>8. KeepsCost(c, new)
  BY <1>2, <1>5, <1>6 DEF KeepsCost
<1> QED BY <1>1, <1>3, <1>5, <1>6, <1>7, <1>8 DEF gone

Given(c, k) == k \in DOMAIN c /\ c[k] # Empty

LEMMA V2ToV3 ==
  ASSUME NEW c, NEW n
  PROVE  LET new == MigrateV2ToV3(c, Fresh(n)) IN
         /\ Upgrades(c, new, {OldPasswordCost, PasswordCost})
         /\ PasswordCost \in DOMAIN new
         /\ PasswordCost \in DOMAIN c => new[PasswordCost] = c[PasswordCost]
         /\ PasswordCost \notin DOMAIN c /\ OldPasswordCost \in DOMAIN c =>
              new[PasswordCost] = c[OldPasswordCost]
         /\ Given(new, "manage.token")
<1> DEFINE gone   == {OldPasswordCost, PasswordCost}
           move   == Move(c, OldPasswordCost, PasswordCost)
           cost   == Fill(move, {PasswordCost})
           token  == FillEmpty(cost, {"manage.token"}, Fresh(n))
           prefix == IF {"redis.host", "redis.prefix"} \cap DOMAIN c = {} THEN {} ELSE {"redis.prefix"}
           new    == FillEmpty(token, prefix, Defaults({"redis.prefix"}))
<1>1. MigrateV2ToV3(c, Fresh(n)) = new
  BY DEF MigrateV2ToV3, OldPasswordCost, PasswordCost
<1>2. Upgrades(c, move, gone)
  <2>1. move \in {c, Replace(c, OldPasswordCost, PasswordCost)}
    BY DEF Move
  <2>2. Upgrades(c, Replace(c, OldPasswordCost, PasswordCost), gone)
    BY ReplaceUpgrades DEF OldPasswordCost, PasswordCost, SuperSecretKey
  <2> QED BY <2>1, <2>2, Nothing
<1>3. /\ PasswordCost \in DOMAIN c =>
           PasswordCost \in DOMAIN move /\ move[PasswordCost] = c[PasswordCost]
      /\ PasswordCost \notin DOMAIN c /\ OldPasswordCost \in DOMAIN c =>
           PasswordCost \in DOMAIN move /\ move[PasswordCost] = c[OldPasswordCost]
  BY DEF Move, Replace, With, Without, OldPasswordCost, PasswordCost
<1> HIDE DEF move
<1>4. /\ Upgrades(move, cost, gone) /\ PasswordCost \in DOMAIN cost
      /\ PasswordCost \in DOMAIN move => cost[PasswordCost] = move[PasswordCost]
  <2>1. Upgrades(move, cost, gone)
    BY FillUpgrades DEF PasswordCost, SuperSecretKey
  <2>2. DOMAIN cost = DOMAIN move \cup {PasswordCost} /\ \A k \in DOMAIN move : cost[k] = move[k]
    BY Filled
  <2> QED BY <2>1, <2>2
<1> HIDE DEF cost
<1>5. Upgrades(cost, token, gone) /\ KeepsCost(cost, token) /\ Given(token, "manage.token")
  <2>1. ~IsOwn(Fresh(n)["manage.token"]) /\ Fresh(n)["manage.token"] # Empty
    BY FreshTokens DEF Secrets
  <2>2. Upgrades(cost, token, gone)
    BY <2>1, FillEmptyUpgrades DEF SuperSecretKey
  <2>3. KeepsCost(cost, token)
    BY CostKept DEF PasswordCost
  <2>4. Given(token, "manage.token")
    BY <2>1 DEF Given, FillEmpty, Over
  <2> QED BY <2>2, <2>3, <2>4
<1> HIDE DEF token
<1>6. Upgrades(token, new, gone) /\ KeepsCost(token, new)
  <2>1. prefix \subseteq {"redis.prefix"}
    OBVIOUS
  <2>2. ~IsOwn(Defaults({"redis.prefix"})["redis.prefix"])
    BY KindsDiffer DEF Defaults
  <2> HIDE DEF prefix
  <2>3. Upgrades(token, new, gone)
    BY <2>1, <2>2, FillEmptyUpgrades DEF SuperSecretKey
  <2>4. KeepsCost(token, new)
    BY <2>1, CostKept DEF PasswordCost
  <2> QED BY <2>3, <2>4
<1> HIDE DEF new
<1>7. Upgrades(c, new, gone)
  BY <1>2, <1>4, <1>5, <1>6, InTurn
<1>8. Given(new, "manage.token")
  BY <1>5, <1>6 DEF Given, Upgrades, KeepsSettings, OldPasswordCost, PasswordCost
<1>9. PasswordCost \in DOMAIN new /\ new[PasswordCost] = cost[PasswordCost]
  BY <1>4, <1>5, <1>6 DEF KeepsCost
<1> HIDE DEF gone
<1> QED BY <1>1, <1>3, <1>4, <1>7, <1>8, <1>9 DEF gone

\* What the later versions drop.
LaterGone == Obsolete \cup {OldPasswordCost}

LEMMA V3ToV4 ==
  ASSUME NEW c, NEW n
  PROVE  LET new == MigrateV3ToV4(c, Fresh(n)) IN
         /\ Upgrades(c, new, LaterGone) /\ KeepsCost(c, new)
         /\ Given(new, SuperSecretKey)
<1> DEFINE url   == "callback.url"
           super == FillEmpty(c, {SuperSecretKey}, Fresh(n))
           ttl   == FillEmpty(super, {"oauth2.access_token_ttl_sec"},
                              Defaults({"oauth2.access_token_ttl_sec"}))
           from  == IF url \in DOMAIN c /\ c[url] # Empty THEN {"oauth2.issuer"} ELSE {}
           value == [k \in {"oauth2.issuer"} |-> c[url]]
           new   == FillEmpty(ttl, from, value)
<1>1. MigrateV3ToV4(c, Fresh(n)) = new
  BY DEF MigrateV3ToV4, SuperSecretKey
<1>2. Upgrades(c, super, LaterGone) /\ KeepsCost(c, super) /\ Given(super, SuperSecretKey)
  <2>1. /\ ~IsOwn(Fresh(n)[SuperSecretKey]) /\ Fresh(n)[SuperSecretKey] # Empty
        /\ IsGenerated(Fresh(n)[SuperSecretKey])
    BY FreshTokens DEF Secrets, SuperSecretKey
  <2>2. Upgrades(c, super, LaterGone)
    BY <2>1, FillEmptyUpgrades
  <2>3. KeepsCost(c, super)
    BY CostKept DEF PasswordCost, SuperSecretKey
  <2>4. Given(super, SuperSecretKey)
    BY <2>1 DEF Given, FillEmpty, Over
  <2> QED BY <2>2, <2>3, <2>4
<1> HIDE DEF super
<1>3. Upgrades(super, ttl, LaterGone) /\ KeepsCost(super, ttl)
  <2>1. ~IsOwn(Defaults({"oauth2.access_token_ttl_sec"})["oauth2.access_token_ttl_sec"])
    BY KindsDiffer DEF Defaults
  <2>2. Upgrades(super, ttl, LaterGone)
    BY <2>1, FillEmptyUpgrades DEF SuperSecretKey
  <2>3. KeepsCost(super, ttl)
    BY CostKept DEF PasswordCost
  <2> QED BY <2>2, <2>3
<1> HIDE DEF ttl
<1>4. Upgrades(c, ttl, LaterGone)
  BY <1>2, <1>3, InTurn
<1>5. Upgrades(ttl, new, LaterGone) /\ KeepsCost(ttl, new)
  <2>1. from \subseteq {"oauth2.issuer"}
    OBVIOUS
  <2>2. ASSUME NEW k \in from PROVE \E j \in DOMAIN ttl : value[k] = ttl[j]
    <3>1. value[k] = c[url] /\ url \in DOMAIN c /\ c[url] # Empty
      BY <2>2
    <3>2. url \notin LaterGone
      BY DEF LaterGone, Obsolete, OldPasswordCost
    <3>3. url \in DOMAIN ttl /\ ttl[url] = c[url]
      BY <1>4, <3>1, <3>2 DEF Upgrades, KeepsSettings
    <3> QED BY <3>1, <3>3
  <2> HIDE DEF from, value
  <2>3. Upgrades(ttl, new, LaterGone)
    BY <2>1, <2>2, FillEmptyUpgrades DEF SuperSecretKey
  <2>4. KeepsCost(ttl, new)
    BY <2>1, CostKept DEF PasswordCost
  <2> QED BY <2>3, <2>4
<1> HIDE DEF new
<1>6. Upgrades(c, new, LaterGone)
  BY <1>4, <1>5, InTurn
<1>7. KeepsCost(c, new)
  BY <1>2, <1>3, <1>5 DEF KeepsCost
<1>8. Given(new, SuperSecretKey)
  <2>1. SuperSecretKey \notin LaterGone
    BY DEF LaterGone, Obsolete, OldPasswordCost, SuperSecretKey
  <2> QED BY <1>2, <1>3, <1>5, <2>1 DEF Given, Upgrades, KeepsSettings
<1> QED BY <1>1, <1>6, <1>7, <1>8

LEMMA V7ToV8 ==
  ASSUME NEW c, NEW n
  PROVE  LET new == MigrateV7ToV8(c, Fresh(n)) IN
         Upgrades(c, new, LaterGone) /\ KeepsCost(c, new)
<1> DEFINE key   == "core_api.internal_key"
           core  == FillEmpty(c, {key}, Fresh(n))
           api   == FillEmpty(core, {"yggdrasil_api.base_url"}, Defaults({"yggdrasil_api.base_url"}))
           value == [k \in {"yggdrasil_api.internal_key"} |-> core[key]]
           both  == FillEmpty(api, {"yggdrasil_api.internal_key"}, value)
           old   == {"yggdrasil.security.password_cost", "yggdrasil.security.max_texture_file_size",
                     "storage.orphan_file_expiry_days"}
           new   == Without(both, old)
<1>1. MigrateV7ToV8(c, Fresh(n)) = new
  BY DEF MigrateV7ToV8
<1>2. Upgrades(c, core, LaterGone) /\ KeepsCost(c, core) /\ key \in DOMAIN core
  <2>1. ~IsOwn(Fresh(n)[key])
    BY FreshTokens
  <2>2. Upgrades(c, core, LaterGone)
    BY <2>1, FillEmptyUpgrades DEF SuperSecretKey
  <2>3. KeepsCost(c, core)
    BY CostKept DEF PasswordCost
  <2>4. key \in DOMAIN core
    BY DEF FillEmpty, Over
  <2> QED BY <2>2, <2>3, <2>4
<1> HIDE DEF core
<1>3. /\ Upgrades(core, api, LaterGone) /\ KeepsCost(core, api)
      /\ key \in DOMAIN api /\ api[key] = core[key]
  <2>1. ~IsOwn(Defaults({"yggdrasil_api.base_url"})["yggdrasil_api.base_url"])
    BY KindsDiffer DEF Defaults
  <2>2. Upgrades(core, api, LaterGone)
    BY <2>1, FillEmptyUpgrades DEF SuperSecretKey
  <2>3. KeepsCost(core, api)
    BY CostKept DEF PasswordCost
  <2>4. key \in DOMAIN api /\ api[key] = core[key]
    BY <1>2 DEF FillEmpty, Over
  <2> QED BY <2>2, <2>3, <2>4
<1> HIDE DEF api
<1>4. Upgrades(api, both, LaterGone) /\ KeepsCost(api, both)
  <2>1. \A k \in {"yggdrasil_api.internal_key"} : \E j \in DOMAIN api : value[k] = api[j]
    BY <1>3
  <2> HIDE DEF value
  <2>2. Upgrades(api, both, LaterGone)
    BY <2>1, FillEmptyUpgrades DEF SuperSecretKey
  <2>3. KeepsCost(api, both)
    BY CostKept DEF PasswordCost
  <2> QED BY <2>2, <2>3
<1> HIDE DEF both
<1>5. Upgrades(both, new, LaterGone) /\ KeepsCost(both, new)
  <2>1. old \subseteq LaterGone /\ PasswordCost \notin old
    BY DEF LaterGone, Obsolete, OldPasswordCost, PasswordCost
  <2> HIDE DEF old
  <2> QED BY <2>1, WithoutUpgrades, CostKept
<1> HIDE DEF new
<1>6. Upgrades(c, new, LaterGone)
  BY <1>2, <1>3, <1>4, <1>5, InTurn
<1>7. KeepsCost(c, new)
  BY <1>2, <1>3, <1>4, <1>5 DEF KeepsCost
<1> QED BY <1>1, <1>6, <1>7

LEMMA LaterSteps ==
  ASSUME NEW c, NEW n, NEW v \in 4 .. ConfigVersion
  PROVE  Upgrades(c, StepTo(v, c, Fresh(n)), LaterGone) /\ KeepsCost(c, StepTo(v, c, Fresh(n)))
<1>1. CASE v = 4
  <2>1. StepTo(v, c, Fresh(n)) = MigrateV3ToV4(c, Fresh(n))
    BY <1>1 DEF StepTo
  <2> QED BY <2>1, V3ToV4
<1>2. CASE v = 8
  BY <1>2, V7ToV8 DEF StepTo
<1>3. CASE v = 10
  <2> DEFINE keys == {"core_api.internal_key", "yggdrasil_api.internal_key"}
  <2>1. keys \subseteq LaterGone /\ PasswordCost \notin keys
    BY DEF LaterGone, Obsolete, PasswordCost
  <2>2. StepTo(v, c, Fresh(n)) = Without(c, keys)
    BY <1>3 DEF StepTo, MigrateV9ToV10
  <2> HIDE DEF keys
  <2> QED BY <2>1, <2>2, WithoutUpgrades, CostKept
<1>4. CASE v \in {5, 6, 7}
  <2>1. StepTo(v, c, Fresh(n)) = Fill(c, EarlyAdditions(v))
    BY <1>4 DEF StepTo
  <2>2. SuperSecretKey \notin EarlyAdditions(v) /\ PasswordCost \notin EarlyAdditions(v)
    BY <1>4 DEF EarlyAdditions, SuperSecretKey, PasswordCost
  <2> QED BY <2>1, <2>2, FillUpgrades, CostKept
<1>5. CASE v \in {9, 11, 12, 13, 14}
  <2>1. StepTo(v, c, Fresh(n)) = Fill(c, LateAdditions(v))
    BY <1>5 DEF StepTo
  <2>2. SuperSecretKey \notin LateAdditions(v) /\ PasswordCost \notin LateAdditions(v)
    BY <1>5 DEF LateAdditions, SuperSecretKey, PasswordCost
  <2> QED BY <2>1, <2>2, FillUpgrades, CostKept
<1> QED BY <1>1, <1>2, <1>3, <1>4, <1>5 DEF ConfigVersion

\* The chain exists: what MigrateConfig computes, version by version.
IsChain(f, first, keys, fresh) ==
  f = [v \in first .. ConfigVersion |-> IF v = first THEN keys ELSE StepTo(v, f[v - 1], fresh)]

LEMMA ChainExists ==
  ASSUME NEW first \in 1 .. ConfigVersion, NEW keys, NEW fresh
  PROVE  \E f : IsChain(f, first, keys, fresh)
<1>1. PICK x1 : x1 = keys
  OBVIOUS
<1>2. PICK x2 : x2 = IF 2 <= first THEN keys ELSE StepTo(2, x1, fresh)
  OBVIOUS
<1>3. PICK x3 : x3 = IF 3 <= first THEN keys ELSE StepTo(3, x2, fresh)
  OBVIOUS
<1>4. PICK x4 : x4 = IF 4 <= first THEN keys ELSE StepTo(4, x3, fresh)
  OBVIOUS
<1>5. PICK x5 : x5 = IF 5 <= first THEN keys ELSE StepTo(5, x4, fresh)
  OBVIOUS
<1>6. PICK x6 : x6 = IF 6 <= first THEN keys ELSE StepTo(6, x5, fresh)
  OBVIOUS
<1>7. PICK x7 : x7 = IF 7 <= first THEN keys ELSE StepTo(7, x6, fresh)
  OBVIOUS
<1>8. PICK x8 : x8 = IF 8 <= first THEN keys ELSE StepTo(8, x7, fresh)
  OBVIOUS
<1>9. PICK x9 : x9 = IF 9 <= first THEN keys ELSE StepTo(9, x8, fresh)
  OBVIOUS
<1>10. PICK x10 : x10 = IF 10 <= first THEN keys ELSE StepTo(10, x9, fresh)
  OBVIOUS
<1>11. PICK x11 : x11 = IF 11 <= first THEN keys ELSE StepTo(11, x10, fresh)
  OBVIOUS
<1>12. PICK x12 : x12 = IF 12 <= first THEN keys ELSE StepTo(12, x11, fresh)
  OBVIOUS
<1>13. PICK x13 : x13 = IF 13 <= first THEN keys ELSE StepTo(13, x12, fresh)
  OBVIOUS
<1>14. PICK x14 : x14 = IF 14 <= first THEN keys ELSE StepTo(14, x13, fresh)
  OBVIOUS
<1> DEFINE x == <<x1, x2, x3, x4, x5, x6, x7, x8, x9, x10, x11, x12, x13, x14>>
           f == [v \in first .. ConfigVersion |-> x[v]]
<1>15. \A v \in first .. ConfigVersion :
         x[v] = IF v = first THEN keys ELSE StepTo(v, x[v - 1], fresh)
  <2> SUFFICES ASSUME NEW v \in first .. ConfigVersion
               PROVE  x[v] = IF v = first THEN keys ELSE StepTo(v, x[v - 1], fresh)
    OBVIOUS
  <2>1. CASE v = 1
    BY <2>1, <1>1 DEF ConfigVersion
  <2>2. CASE v = 2
    BY <2>2, <1>2, <1>1 DEF ConfigVersion
  <2>3. CASE v = 3
    BY <2>3, <1>3, <1>2 DEF ConfigVersion
  <2>4. CASE v = 4
    BY <2>4, <1>4, <1>3 DEF ConfigVersion
  <2>5. CASE v = 5
    BY <2>5, <1>5, <1>4 DEF ConfigVersion
  <2>6. CASE v = 6
    BY <2>6, <1>6, <1>5 DEF ConfigVersion
  <2>7. CASE v = 7
    BY <2>7, <1>7, <1>6 DEF ConfigVersion
  <2>8. CASE v = 8
    BY <2>8, <1>8, <1>7 DEF ConfigVersion
  <2>9. CASE v = 9
    BY <2>9, <1>9, <1>8 DEF ConfigVersion
  <2>10. CASE v = 10
    BY <2>10, <1>10, <1>9 DEF ConfigVersion
  <2>11. CASE v = 11
    BY <2>11, <1>11, <1>10 DEF ConfigVersion
  <2>12. CASE v = 12
    BY <2>12, <1>12, <1>11 DEF ConfigVersion
  <2>13. CASE v = 13
    BY <2>13, <1>13, <1>12 DEF ConfigVersion
  <2>14. CASE v = 14
    BY <2>14, <1>14, <1>13 DEF ConfigVersion
  <2> QED BY <2>1, <2>2, <2>3, <2>4, <2>5, <2>6, <2>7, <2>8, <2>9, <2>10, <2>11,
            <2>12, <2>13, <2>14
     DEF ConfigVersion
<1> HIDE DEF x
<1>16. f = [v \in first .. ConfigVersion |->
             IF v = first THEN keys ELSE StepTo(v, f[v - 1], fresh)]
  BY <1>15 DEF ConfigVersion
<1> QED BY <1>16 DEF IsChain

LEMMA ChainSteps ==
  ASSUME NEW config, config.version \in 1 .. ConfigVersion, NEW fresh
  PROVE  \E f :
           /\ MigrateConfig(config, fresh) = [version |-> ConfigVersion, keys |-> f[ConfigVersion]]
           /\ f[config.version] = config.keys
           /\ \A v \in 2 .. ConfigVersion : config.version < v => f[v] = StepTo(v, f[v - 1], fresh)
<1> DEFINE f == CHOOSE g : IsChain(g, config.version, config.keys, fresh)
<1>1. IsChain(f, config.version, config.keys, fresh)
  BY ChainExists
<1>2. MigrateConfig(config, fresh) = [version |-> ConfigVersion, keys |-> f[ConfigVersion]]
  BY DEF MigrateConfig, IsChain
<1> HIDE DEF f
<1>3. f[config.version] = config.keys
  BY <1>1 DEF ConfigVersion, IsChain
<1>4. \A v \in 2 .. ConfigVersion : config.version < v => f[v] = StepTo(v, f[v - 1], fresh)
  BY <1>1 DEF ConfigVersion, IsChain
<1> QED BY <1>2, <1>3, <1>4

\* Where a setting of an older file is in a file of version v.
Place(k, v) ==
  IF (k \in Renamed /\ v < 2) \/ (k = OldPasswordCost /\ v < 3) THEN k ELSE Home(k)

AsMade(old, v, c) ==
  \A k \in DOMAIN old.keys \ Obsolete :
    old.keys[k] # Empty =>
      /\ Place(k, v) \in DOMAIN c
      /\ c[Place(k, v)] =
           IF Place(k, v) \in DOMAIN old.keys THEN old.keys[Place(k, v)] ELSE old.keys[k]

CostAsMade(old, v, c) ==
  v < 3 => /\ PasswordCost \in DOMAIN c <=> PasswordCost \in DOMAIN old.keys
           /\ PasswordCost \in DOMAIN c => c[PasswordCost] = old.keys[PasswordCost]

OnlyOwn(old, c) ==
  \A j : \A k \in DOMAIN c : c[k] = Own(j) => j \in DOMAIN old.keys /\ old.keys[j] = Own(j)

SecretsGiven(old, v, c) ==
  old.version < 3 => /\ v >= 3 => Given(c, "manage.token")
                     /\ v >= 4 => Given(c, SuperSecretKey)

SecretCarried(old, c) ==
  SecretIn(old.keys) = Empty => SecretIn(c) = Empty \/ IsGenerated(SecretIn(c))

\* What the file is at version v of its way up.
UpTo(old, v, c) ==
  /\ AsMade(old, v, c) /\ CostAsMade(old, v, c) /\ OnlyOwn(old, c)
  /\ SecretsGiven(old, v, c) /\ SecretCarried(old, c)

LEMMA AtFirst ==
  ASSUME NEW old, OfItsVersion(old)
  PROVE  UpTo(old, old.version, old.keys)
<1>1. ASSUME NEW k \in DOMAIN old.keys PROVE Place(k, old.version) = k
  BY DEF OfItsVersion, Place, Home, Renamed, Memcache, OldPasswordCost
<1>2. AsMade(old, old.version, old.keys) /\ CostAsMade(old, old.version, old.keys)
  BY <1>1 DEF AsMade, CostAsMade
<1>3. OnlyOwn(old, old.keys)
  BY KindsDiffer DEF OnlyOwn, OfItsVersion
<1>4. SecretsGiven(old, old.version, old.keys) /\ SecretCarried(old, old.keys)
  BY DEF SecretsGiven, SecretCarried, OfItsVersion
<1> QED BY <1>2, <1>3, <1>4 DEF UpTo

LEMMA ValuesOn ==
  ASSUME NEW old, NEW v, NEW c, NEW d, NEW gone, UpTo(old, v, c), Upgrades(c, d, gone)
  PROVE  OnlyOwn(old, d) /\ SecretCarried(old, d)
<1>1. OnlyOwn(old, d)
  <2> SUFFICES ASSUME NEW k \in DOMAIN d, NEW j, d[k] = Own(j)
               PROVE  j \in DOMAIN old.keys /\ old.keys[j] = Own(j)
    BY DEF OnlyOwn
  <2>1. PICK i \in DOMAIN c : d[k] = c[i]
    BY DEF IsOwn, Upgrades, AddsNoneOfOwn
  <2> QED BY <2>1 DEF UpTo, OnlyOwn
<1>2. SecretCarried(old, d)
  BY DEF SecretCarried, SecretIn, UpTo, Upgrades, KeepsOrGenerates
<1> QED BY <1>1, <1>2

LEMMA ToV2 ==
  ASSUME NEW old, OfItsVersion(old), old.version = 1, NEW c, UpTo(old, 1, c), NEW n
  PROVE  UpTo(old, 2, StepTo(2, c, Fresh(n)))
<1>1. PICK d : d = MigrateV1ToV2(c)
  OBVIOUS
<1>2. StepTo(2, c, Fresh(n)) = d
  BY <1>1 DEF StepTo
<1>3. /\ Upgrades(c, d, Memcache \cup VerificationKeys) /\ KeepsCost(c, d)
      /\ \A k \in Renamed \cap DOMAIN c : Home(k) \in DOMAIN d /\ d[Home(k)] = c[k]
  BY <1>1, V1ToV2
<1>4. AsMade(old, 2, d)
  <2> SUFFICES ASSUME NEW k \in DOMAIN old.keys \ Obsolete, old.keys[k] # Empty
               PROVE  /\ Place(k, 2) \in DOMAIN d
                      /\ d[Place(k, 2)] = IF Place(k, 2) \in DOMAIN old.keys
                                            THEN old.keys[Place(k, 2)] ELSE old.keys[k]
    BY DEF AsMade
  <2>1. Place(k, 1) = k
    BY DEF Place, Home, Renamed, OldPasswordCost
  <2>2. k \in DOMAIN c /\ c[k] = old.keys[k]
    BY <2>1 DEF UpTo, AsMade
  <2>3. CASE k \in Renamed
    <3>1. Place(k, 2) = Home(k) /\ Home(k) \in VerificationKeys
      BY <2>3 DEF Place, Home, Renamed, VerificationKeys, OldPasswordCost
    <3>2. Home(k) \notin DOMAIN old.keys
      BY <3>1 DEF OfItsVersion, VerificationKeys
    <3> QED BY <1>3, <2>2, <2>3, <3>1, <3>2
  <2>4. CASE k \notin Renamed
    <3>1. Place(k, 2) = k
      BY <2>4 DEF Place, Home, Renamed, OldPasswordCost
    <3>2. k \notin VerificationKeys /\ k \notin Memcache
      BY <2>4 DEF OfItsVersion, VerificationKeys, Memcache, Renamed, Obsolete
    <3> QED BY <1>3, <2>2, <2>4, <3>1, <3>2 DEF Upgrades, KeepsSettings
  <2> QED BY <2>3, <2>4
<1>5. CostAsMade(old, 2, d)
  BY <1>3 DEF UpTo, CostAsMade, KeepsCost
<1>6. SecretsGiven(old, 2, d)
  BY DEF SecretsGiven
<1>7. OnlyOwn(old, d) /\ SecretCarried(old, d)
  BY <1>3, ValuesOn
<1> QED BY <1>2, <1>4, <1>5, <1>6, <1>7 DEF UpTo

LEMMA ToV3 ==
  ASSUME NEW old, OfItsVersion(old), old.version \in 1 .. 2, NEW c, UpTo(old, 2, c), NEW n
  PROVE  UpTo(old, 3, StepTo(3, c, Fresh(n)))
<1>1. PICK d : d = MigrateV2ToV3(c, Fresh(n))
  OBVIOUS
<1>2. StepTo(3, c, Fresh(n)) = d
  BY <1>1 DEF StepTo
<1>3. /\ Upgrades(c, d, {OldPasswordCost, PasswordCost})
      /\ PasswordCost \in DOMAIN d
      /\ PasswordCost \in DOMAIN c => d[PasswordCost] = c[PasswordCost]
      /\ PasswordCost \notin DOMAIN c /\ OldPasswordCost \in DOMAIN c =>
           d[PasswordCost] = c[OldPasswordCost]
      /\ Given(d, "manage.token")
  BY <1>1, V2ToV3
<1>4. AsMade(old, 3, d)
  <2> SUFFICES ASSUME NEW k \in DOMAIN old.keys \ Obsolete, old.keys[k] # Empty
               PROVE  /\ Place(k, 3) \in DOMAIN d
                      /\ d[Place(k, 3)] = IF Place(k, 3) \in DOMAIN old.keys
                                            THEN old.keys[Place(k, 3)] ELSE old.keys[k]
    BY DEF AsMade
  <2>1. /\ Place(k, 2) \in DOMAIN c
        /\ c[Place(k, 2)] = IF Place(k, 2) \in DOMAIN old.keys
                              THEN old.keys[Place(k, 2)] ELSE old.keys[k]
    BY DEF UpTo, AsMade
  <2>2. /\ PasswordCost \in DOMAIN c <=> PasswordCost \in DOMAIN old.keys
        /\ PasswordCost \in DOMAIN c => c[PasswordCost] = old.keys[PasswordCost]
    BY DEF UpTo, CostAsMade
  <2>3. CASE k = OldPasswordCost
    <3>1. Place(k, 2) = OldPasswordCost /\ Place(k, 3) = PasswordCost
      BY <2>3 DEF Place, Home, Memcache, OldPasswordCost, PasswordCost
    <3> QED BY <1>3, <2>1, <2>2, <2>3, <3>1
  <2>4. CASE k = PasswordCost
    <3>1. Place(k, 3) = PasswordCost
      BY <2>4 DEF Place, Home, Memcache, OldPasswordCost, PasswordCost
    <3> QED BY <1>3, <2>2, <2>4, <3>1
  <2>5. CASE k \notin {OldPasswordCost, PasswordCost}
    <3>1. Place(k, 3) = Place(k, 2) /\ Place(k, 2) \notin {OldPasswordCost, PasswordCost}
      BY <2>5 DEF Place, Home, Memcache, OldPasswordCost, PasswordCost
    <3>2. Place(k, 2) = k \/ Place(k, 2) \notin DOMAIN old.keys
      BY <2>5 DEF OfItsVersion, Place, Home, Renamed, Memcache, OldPasswordCost
    <3>3. c[Place(k, 2)] # Empty
      BY <2>1, <3>2
    <3> QED BY <1>3, <2>1, <3>1, <3>3 DEF Upgrades, KeepsSettings
  <2> QED BY <2>3, <2>4, <2>5
<1>5. CostAsMade(old, 3, d)
  BY DEF CostAsMade
<1>6. SecretsGiven(old, 3, d)
  BY <1>3 DEF SecretsGiven
<1>7. OnlyOwn(old, d) /\ SecretCarried(old, d)
  BY <1>3, ValuesOn
<1> QED BY <1>2, <1>4, <1>5, <1>6, <1>7 DEF UpTo

LEMMA ToLater ==
  ASSUME NEW old, OfItsVersion(old), old.version >= 1, NEW v \in 4 .. ConfigVersion,
         NEW c, UpTo(old, v - 1, c), NEW n
  PROVE  UpTo(old, v, StepTo(v, c, Fresh(n)))
<1>1. PICK d : d = StepTo(v, c, Fresh(n))
  OBVIOUS
<1>2. Upgrades(c, d, LaterGone) /\ KeepsCost(c, d)
  BY <1>1, LaterSteps
<1>3. v \in Nat /\ v >= 4
  BY DEF ConfigVersion
<1>4. AsMade(old, v, d)
  <2> SUFFICES ASSUME NEW k \in DOMAIN old.keys \ Obsolete, old.keys[k] # Empty
               PROVE  /\ Place(k, v) \in DOMAIN d
                      /\ d[Place(k, v)] = IF Place(k, v) \in DOMAIN old.keys
                                            THEN old.keys[Place(k, v)] ELSE old.keys[k]
    BY DEF AsMade
  <2>1. Place(k, v - 1) = Home(k) /\ Place(k, v) = Home(k)
    BY <1>3 DEF Place
  <2>2. /\ Home(k) \in DOMAIN c
        /\ c[Home(k)] = IF Home(k) \in DOMAIN old.keys THEN old.keys[Home(k)] ELSE old.keys[k]
    BY <2>1 DEF UpTo, AsMade
  <2>3. CASE Home(k) = PasswordCost
    BY <1>2, <2>1, <2>2, <2>3 DEF KeepsCost
  <2>4. CASE Home(k) # PasswordCost
    <3>1. Home(k) \notin LaterGone
      BY DEF Home, LaterGone, Obsolete, OldPasswordCost
    <3>2. Home(k) = k \/ Home(k) \notin DOMAIN old.keys
      BY <2>4 DEF OfItsVersion, Home, PasswordCost, Memcache
    <3>3. c[Home(k)] # Empty
      BY <2>2, <3>2
    <3> QED BY <1>2, <2>1, <2>2, <3>1, <3>3 DEF Upgrades, KeepsSettings
  <2> QED BY <2>3, <2>4
<1>5. CostAsMade(old, v, d)
  BY <1>3 DEF CostAsMade
<1>6. SecretsGiven(old, v, d)
  <2> SUFFICES ASSUME old.version < 3
               PROVE  Given(d, "manage.token") /\ Given(d, SuperSecretKey)
    BY DEF SecretsGiven
  <2>1. "manage.token" \notin LaterGone /\ SuperSecretKey \notin LaterGone
    BY DEF LaterGone, Obsolete, OldPasswordCost, SuperSecretKey
  <2>2. Given(d, "manage.token")
    BY <1>2, <1>3, <2>1 DEF UpTo, SecretsGiven, Given, Upgrades, KeepsSettings
  <2>3. CASE v = 4
    <3>1. d = MigrateV3ToV4(c, Fresh(n))
      BY <1>1, <2>3 DEF StepTo
    <3>2. Given(d, SuperSecretKey)
      BY <3>1, V3ToV4
    <3> QED BY <2>2, <3>2
  <2>4. CASE v # 4
    BY <1>2, <1>3, <2>1, <2>2, <2>4 DEF UpTo, SecretsGiven, Given, Upgrades, KeepsSettings
  <2> QED BY <2>3, <2>4
<1>7. OnlyOwn(old, d) /\ SecretCarried(old, d)
  BY <1>2, ValuesOn
<1> QED BY <1>1, <1>4, <1>5, <1>6, <1>7 DEF UpTo

\* A migrated file, whatever version the operator left.
LEMMA Migration ==
  ASSUME NEW old, OfItsVersion(old), old.version \in 1 .. ConfigVersion, NEW n
  PROVE  UpTo(old, ConfigVersion, MigrateConfig(old, Fresh(n)).keys)
<1>1. PICK f : /\ MigrateConfig(old, Fresh(n)) = [version |-> ConfigVersion, keys |-> f[ConfigVersion]]
               /\ f[old.version] = old.keys
               /\ \A v \in 2 .. ConfigVersion :
                    old.version < v => f[v] = StepTo(v, f[v - 1], Fresh(n))
  BY ChainSteps
<1> DEFINE Done(v) == old.version <= v => UpTo(old, v, f[v])
<1>2. UpTo(old, old.version, f[old.version])
  BY <1>1, AtFirst
<1>3. Done(1)
  BY <1>2
<1>4. ASSUME NEW v \in 2 .. ConfigVersion, Done(v - 1) PROVE Done(v)
  <2>1. CASE old.version >= v
    BY <1>2, <2>1 DEF ConfigVersion
  <2>2. CASE old.version < v
    <3>1. UpTo(old, v - 1, f[v - 1]) /\ f[v] = StepTo(v, f[v - 1], Fresh(n))
      BY <1>1, <1>4, <2>2 DEF ConfigVersion
    <3>2. CASE v = 2
      <4>1. old.version = 1 /\ UpTo(old, 1, f[1])
        BY <2>2, <3>1, <3>2
      <4> QED BY <3>1, <3>2, <4>1, ToV2
    <3>3. CASE v = 3
      <4>1. old.version \in 1 .. 2 /\ UpTo(old, 2, f[2])
        BY <2>2, <3>1, <3>3
      <4> QED BY <3>1, <3>3, <4>1, ToV3
    <3>4. CASE v \in 4 .. ConfigVersion
      BY <3>1, <3>4, ToLater DEF ConfigVersion
    <3> QED BY <3>2, <3>3, <3>4 DEF ConfigVersion
  <2> QED BY <2>1, <2>2 DEF ConfigVersion
<1> HIDE DEF Done
<1>5. Done(2) /\ Done(3) /\ Done(4) /\ Done(5)
  BY <1>3, <1>4 DEF ConfigVersion
<1>6. Done(6) /\ Done(7) /\ Done(8) /\ Done(9) /\ Done(10)
  BY <1>4, <1>5 DEF ConfigVersion
<1>7. Done(11) /\ Done(12) /\ Done(13) /\ Done(14)
  BY <1>4, <1>6 DEF ConfigVersion
<1> QED BY <1>1, <1>7 DEF Done, ConfigVersion

LEMMA MigrationFaithful ==
  ASSUME NEW old, OfItsVersion(old), NEW new, UpTo(old, ConfigVersion, new.keys)
  PROVE  Faithful(old, new)
<1>1. \A k : Place(k, ConfigVersion) = Home(k)
  BY DEF Place, ConfigVersion
<1>2. \A k \in DOMAIN old.keys \ Obsolete :
        old.keys[k] # Empty =>
          /\ Home(k) \in DOMAIN new.keys
          /\ new.keys[Home(k)] = IF Home(k) \in DOMAIN old.keys THEN old.keys[Home(k)] ELSE old.keys[k]
  BY <1>1 DEF UpTo, AsMade
<1>3. \A k \in DOMAIN new.keys :
        new.keys[k] = Own(k) => k \in DOMAIN old.keys /\ old.keys[k] = Own(k)
  BY DEF UpTo, OnlyOwn
<1>4. \A k \in Secrets : old.version < 3 => k \in DOMAIN new.keys /\ new.keys[k] # Empty
  BY DEF UpTo, SecretsGiven, Given, ConfigVersion, Secrets, SuperSecretKey
<1> QED BY <1>2, <1>3, <1>4 DEF Faithful

----------------------------------------------------------------------------

\* What a file may be made of the original, and what a process has of it at each
\* point of its start.
Upgraded(p, f) ==
  /\ original[p] \notin {None, Torn} /\ f \notin {None, Torn} /\ f.version = ConfigVersion
  /\ UpTo(original[p], ConfigVersion, f.keys)

Created(p, f) == original[p] = None /\ (f = Torn \/ \E n : f = DefaultConfig(n))

Descends(p, f) == f = original[p] \/ Upgraded(p, f) \/ Created(p, f)

FileOk(p) ==
  /\ original[p] \in {None, Torn} \/ OfItsVersion(original[p])
  /\ Descends(p, file[p])
  /\ start[p].pc \in {"backup", "backup open", "migrate"} =>
       /\ start[p].read = file[p] /\ file[p] # None /\ Version(file[p]) < ConfigVersion
  /\ At(p, "tmp open") => Upgraded(p, start[p].read)
  /\ At(p, "rename") => Upgraded(p, tmp[p])
  /\ At(p, "up") => file[p] \notin {None, Torn} /\ loaded[p] = file[p].keys
  /\ ~At(p, "up") => loaded[p] = None

FileInv == \A p \in Procs : FileOk(p)

LEMMA SameFileOk ==
  ASSUME FileInv, NEW q \in Procs, SameFor(q), UNCHANGED original
  PROVE  FileOk(q)'
<1>1. /\ original'[q] = original[q] /\ file'[q] = file[q] /\ tmp'[q] = tmp[q]
      /\ start'[q] = start[q] /\ loaded'[q] = loaded[q]
  BY DEF SameFor
<1>2. FileOk(q)
  BY DEF FileInv
<1> QED BY <1>1, <1>2 DEF FileOk, Descends, Upgraded, Created, At

LEMMA OneFile ==
  ASSUME DiskInv, FileInv, NEW p \in Procs,
         ConfigStep(p) \/ ConfigStop(p) \/ ConfigRestart(p), FileOk(p)'
  PROVE  FileInv'
<1>1. UNCHANGED original /\ \A q \in Procs : q # p => SameFor(q)
  BY ConfigFrame DEF DiskInv
<1>2. ASSUME NEW q \in Procs, q # p PROVE FileOk(q)'
  BY <1>1, <1>2, SameFileOk
<1> QED BY <1>2 DEF FileInv

\* A step that changes nothing of p's files but may go on in its start.
LEMMA SameFiles ==
  ASSUME NEW p \in Procs, FileOk(p), original'[p] = original[p], file'[p] = file[p],
         loaded'[p] = loaded[p], ~At(p, "up"), ~At(p, "up")',
         start'[p].pc \in {"backup", "backup open", "migrate"} =>
           start'[p].read = file[p] /\ file[p] # None /\ Version(file[p]) < ConfigVersion,
         start'[p].pc \notin {"tmp open", "rename"}
  PROVE  FileOk(p)'
BY DEF FileOk, Descends, Upgraded, Created, At, Version

LEMMA StatFile ==
  ASSUME DiskInv, FileInv, NEW p \in Procs, Stat(p)
  PROVE  FileInv'
<1>1. FileOk(p) /\ start[p].pc = "stat"
  BY DEF Stat, At, FileInv
<1>2. UNCHANGED <<file, tmp, loaded, original>>
  BY DEF Stat, disk
<1>3. start'[p].pc \in {"create", "read"}
  BY StartMoves DEF Stat
<1>4. FileOk(p)'
  BY <1>1, <1>2, <1>3, SameFiles DEF At
<1> QED BY <1>4, OneFile DEF ConfigStep

LEMMA CreateDefaultFile ==
  ASSUME DiskInv, FileInv, NEW p \in Procs, CreateDefault(p)
  PROVE  FileInv'
<1>1. FileOk(p) /\ Kept(p) /\ start[p].pc \in {"create", "fill"}
  BY DEF CreateDefault, At, FileInv, DiskInv
<1>2. UNCHANGED <<tmp, loaded, original>> /\ original[p] = None
  BY <1>1 DEF CreateDefault, Kept
<1>3. start'[p].pc \in {"fill", "load"}
  BY StartMoves DEF CreateDefault
<1>4. file'[p] = Torn \/ file'[p] = DefaultConfig(start[p].n)
  BY DEF CreateDefault, DiskInv, Maps
<1>5. Created(p, file[p])'
  BY <1>2, <1>4 DEF Created
<1>6. FileOk(p)'
  BY <1>1, <1>2, <1>3, <1>5 DEF FileOk, Descends, At
<1> QED BY <1>6, OneFile DEF ConfigStep

LEMMA ReadConfigFile ==
  ASSUME DiskInv, FileInv, NEW p \in Procs, ReadConfig(p)
  PROVE  FileInv'
<1>1. FileOk(p) /\ Staged(p) /\ start[p].pc = "read"
  BY DEF ReadConfig, At, FileInv, DiskInv
<1>2. UNCHANGED <<file, tmp, loaded, original>> /\ file[p] # None
  BY <1>1 DEF ReadConfig, disk, Staged, At
<1>3. PICK pc : /\ pc = (IF Version(file[p]) < ConfigVersion THEN "backup" ELSE "load")
                /\ Continue(p, [start[p] EXCEPT !.pc = pc, !.read = file[p]])
  BY DEF ReadConfig, AfterRead
<1>4. start'[p].pc = pc /\ start'[p].read = file[p]
  BY <1>3, StartReads, ZenonT(60)
<1>5. FileOk(p)'
  BY <1>1, <1>2, <1>3, <1>4, SameFiles DEF At
<1> QED BY <1>5, OneFile DEF ConfigStep

LEMMA BackupFile ==
  ASSUME DiskInv, FileInv, NEW p \in Procs, BackupConfigFile(p)
  PROVE  FileInv'
<1>1. FileOk(p) /\ start[p].pc \in {"backup", "backup open"}
  BY DEF BackupConfigFile, At, FileInv
<1>2. UNCHANGED <<file, tmp, loaded, original>>
  BY DEF BackupConfigFile
<1>3. start'[p].pc \in {"migrate", "backup open"} /\ start'[p].read = start[p].read
  BY StartMoves DEF BackupConfigFile
<1>4. /\ start[p].read = file[p] /\ file[p] # None /\ Version(file[p]) < ConfigVersion
  BY <1>1 DEF FileOk
<1>5. FileOk(p)'
  BY <1>1, <1>2, <1>3, <1>4, SameFiles DEF At
<1> QED BY <1>5, OneFile DEF ConfigStep

\* What is migrated is the file the operator left.
LEMMA WriteMigratedFile ==
  ASSUME NotFiles, DiskInv, FileInv, NEW p \in Procs, WriteMigrated(p)
  PROVE  FileInv'
<1>1. FileOk(p)
  BY DEF FileInv
<1>2. UNCHANGED <<file, loaded, original>>
  BY DEF WriteMigrated
<1>3. CASE At(p, "migrate")
  <2>1. PICK read : /\ read = MigrateConfig(start[p].read, Fresh(start[p].n))
                    /\ Continue(p, [start[p] EXCEPT !.pc = "tmp open", !.read = read])
    BY <1>3 DEF WriteMigrated, At
  <2>2. start'[p].pc = "tmp open" /\ start'[p].read = read
    BY <2>1, StartReads, ZenonT(60)
  <2>3. /\ start[p].read = file[p] /\ file[p] \notin {None, Torn}
        /\ file[p].version # 0 /\ file[p].version < ConfigVersion
    BY <1>1, <1>3 DEF WriteMigrated, FileOk, At, Version
  <2>4. file[p] = original[p]
    <3>1. ~Upgraded(p, file[p])
      BY <2>3 DEF Upgraded, ConfigVersion
    <3>2. \A n : file[p] # DefaultConfig(n)
      BY <2>3 DEF DefaultConfig, ConfigVersion
    <3> QED BY <1>1, <2>3, <3>1, <3>2 DEF FileOk, Descends, Created
  <2>5. OfItsVersion(file[p]) /\ file[p].version \in 1 .. ConfigVersion
    <3>1. OfItsVersion(file[p])
      BY <1>1, <2>3, <2>4 DEF FileOk
    <3>2. file[p].version \in Nat
      BY <3>1 DEF OfItsVersion
    <3> QED BY <2>3, <3>1, <3>2 DEF ConfigVersion
  <2>6. UpTo(file[p], ConfigVersion, read.keys)
    BY <2>1, <2>3, <2>5, Migration
  <2>7. read \notin {None, Torn} /\ read.version = ConfigVersion
    BY <2>1 DEF NotFiles, MigrateConfig
  <2>8. Upgraded(p, start[p].read)'
    BY <1>2, <2>2, <2>3, <2>4, <2>6, <2>7 DEF Upgraded
  <2>9. Descends(p, file[p])'
    BY <1>2, <2>4 DEF Descends
  <2>10. loaded'[p] = None
    BY <1>1, <1>2, <1>3 DEF FileOk, At
  <2>11. (original[p] \in {None, Torn} \/ OfItsVersion(original[p]))'
    BY <1>1, <1>2 DEF FileOk
  <2> QED BY <2>2, <2>8, <2>9, <2>10, <2>11, OneFile DEF FileOk, At, ConfigStep
<1>4. CASE At(p, "tmp open")
  <2>1. start'[p].pc = "rename" /\ tmp'[p] = start[p].read
    BY <1>4, StartMoves DEF WriteMigrated, At, DiskInv, Maps
  <2>2. Upgraded(p, tmp[p])'
    BY <1>1, <1>2, <1>4, <2>1 DEF FileOk, Upgraded
  <2>3. FileOk(p)'
    BY <1>1, <1>2, <1>4, <2>1, <2>2 DEF FileOk, Descends, Upgraded, Created, At
  <2> QED BY <2>3, OneFile DEF ConfigStep
<1> QED BY <1>3, <1>4 DEF WriteMigrated

LEMMA ReplaceConfigFile ==
  ASSUME DiskInv, FileInv, NEW p \in Procs, ReplaceConfig(p)
  PROVE  FileInv'
<1>1. FileOk(p) /\ At(p, "rename")
  BY DEF ReplaceConfig, FileInv
<1>2. UNCHANGED <<loaded, original>> /\ file'[p] = tmp[p]
  BY DEF ReplaceConfig, DiskInv, Maps
<1>3. start'[p].pc = "load"
  BY StartMoves DEF ReplaceConfig
<1>4. Upgraded(p, file[p])'
  BY <1>1, <1>2 DEF FileOk, Upgraded
<1>5. FileOk(p)'
  BY <1>1, <1>2, <1>3, <1>4 DEF FileOk, Descends, At
<1> QED BY <1>5, OneFile DEF ConfigStep

LEMMA LoadFile ==
  ASSUME DiskInv, FileInv, NEW p \in Procs, Load(p)
  PROVE  FileInv'
<1>1. FileOk(p) /\ Staged(p) /\ At(p, "load")
  BY DEF Load, FileInv, DiskInv
<1>2. UNCHANGED <<file, tmp, original>> /\ loaded'[p] = file[p].keys
  BY DEF Load, Parse, disk, DiskInv, Maps
<1>3. start'[p].pc = "up"
  BY StartReads DEF Load
<1>4. file[p] \notin {None, Torn}
  BY <1>1 DEF Staged, UpToDate
<1>5. FileOk(p)'
  BY <1>1, <1>2, <1>3, <1>4 DEF FileOk, Descends, Upgraded, Created, At
<1> QED BY <1>5, OneFile DEF ConfigStep

LEMMA StopFile ==
  ASSUME DiskInv, FileInv, NEW p \in Procs, ConfigStop(p) \/ ConfigRestart(p)
  PROVE  FileInv'
<1>1. FileOk(p) /\ Staged(p)
  BY DEF FileInv, DiskInv
<1>2. UNCHANGED <<file, tmp, original>>
  BY DEF ConfigStop, ConfigRestart, disk
<1>3. start'[p].pc \in {"down", "stat"} /\ loaded'[p] = None
  <2>1. /\ {"pc", "read", "n"} \subseteq DOMAIN start[p]
        /\ DOMAIN start = Procs /\ DOMAIN loaded = Procs
    BY <1>1 DEF Staged, DiskInv, Maps
  <2>2. CASE ConfigStop(p)
    BY <2>1, <2>2 DEF ConfigStop
  <2>3. CASE ConfigRestart(p)
    BY <1>1, <2>1, <2>3 DEF ConfigRestart, FileOk, At
  <2> QED BY <2>2, <2>3
<1>4. FileOk(p)'
  BY <1>1, <1>2, <1>3 DEF FileOk, Descends, Upgraded, Created, At
<1> QED BY <1>4, OneFile

LEMMA FileInit == Init => FileInv
<1> SUFFICES ASSUME Init, NEW p \in Procs PROVE FileOk(p)
  BY DEF FileInv
<1>1. PICK w \in Worlds : ConfigInit(w.files, w.backups, w.used, w.running)
  BY DEF Init
<1>2. /\ file[p] = original[p] /\ original[p] = w.files[p]
      /\ start[p].pc = IF p \in w.running THEN "up" ELSE "down"
      /\ loaded[p] = IF p \in w.running THEN w.files[p].keys ELSE None
  BY <1>1 DEF ConfigInit
<1>3. p \in w.running => w.files[p] \notin {None, Torn}
  BY WorldsAssumption
<1>4. w.files[p] \in {None, Torn} \/ OfItsVersion(w.files[p])
  BY FilesAssumption
<1> QED BY <1>2, <1>3, <1>4 DEF FileOk, Descends, At

LEMMA FileStep == NotFiles /\ DiskInv /\ FileInv /\ [Next]_vars => FileInv'
<1> SUFFICES ASSUME NotFiles, DiskInv, FileInv, [Next]_vars PROVE FileInv'
  OBVIOUS
<1>1. ASSUME UNCHANGED cvars PROVE FileInv'
  <2>1. UNCHANGED original /\ \A q \in Procs : SameFor(q)
    BY <1>1 DEF cvars, disk, SameFor
  <2> QED BY <2>1, SameFileOk DEF FileInv
<1>2. CASE UNCHANGED vars
  BY <1>1, <1>2 DEF vars
<1>3. ASSUME NEW p \in Procs, Stop(p) \/ Restart(p) PROVE FileInv'
  BY <1>3, StopFile DEF Stop, Restart
<1>4. ASSUME NEW p \in Procs, Configure(p) PROVE FileInv'
  BY <1>4, StatFile, CreateDefaultFile, ReadConfigFile, BackupFile, WriteMigratedFile,
     ReplaceConfigFile, LoadFile DEF Configure, ConfigStep
<1>5. ASSUME NEW p \in Procs, CallbackStep(p) PROVE FileInv'
  BY <1>1, <1>5 DEF CallbackStep, Dial, ReadColumn, ReadKey, DropKey, DropService, AddKey, Up,
                    EnsureMigrationsFails, Seed
<1>6. ASSUME NEW p \in Procs,
             \/ RegisterOnConnect(p) \/ OpenFails(p) \/ OpenSucceeds(p) \/ WalkOnConnect(p) \/ Serve(p)
      PROVE  FileInv'
  BY <1>1, <1>6 DEF RegisterOnConnect, OpenFails, OpenSucceeds, WalkOnConnect, Serve
<1> QED BY <1>2, <1>3, <1>4, <1>5, <1>6 DEF Next

\* A file of any version, whatever it sets, is upgraded without losing a setting,
\* and at no moment is there a part of a file in its place, wherever a start is
\* interrupted.
THEOREM SettingsKept == NotFiles => (Spec => []SettingsSurvive)
<1> SUFFICES ASSUME NotFiles PROVE Spec => []SettingsSurvive
  OBVIOUS
<1>1. DiskInv /\ FileInv /\ [Next]_vars => DiskInv' /\ FileInv'
  BY DiskStep, FileStep
<1>2. FileInv => SettingsSurvive
  <2> SUFFICES ASSUME FileInv, NEW p \in Procs, original[p] # None, file[p] # original[p]
               PROVE  /\ file[p] # Torn /\ file[p].version = ConfigVersion
                      /\ Faithful(original[p], file[p])
    BY DEF SettingsSurvive
  <2>1. Upgraded(p, file[p]) /\ OfItsVersion(original[p])
    BY DEF FileInv, FileOk, Descends, Created, Upgraded
  <2> QED BY <2>1, MigrationFaithful DEF Upgraded
<1> QED BY <1>1, <1>2, DiskInit, FileInit, PTL DEF Spec

----------------------------------------------------------------------------
\* The processes that may still serve requests were left one secret, and it was
\* handed out neither to a service nor generated.
MayServe(p) == start[p].pc # "down" \/ start[p].n < MaxStarts

Handable(secret, S) == ~IsGenerated(secret) /\ (S = Empty \/ secret # S)

NoneGenerated(rows) == \A id \in DOMAIN rows : ~IsGenerated(rows[id])

SharedSecret(S) ==
  /\ S \in {Own(SuperSecretKey), Empty}
  /\ \A p \in Procs : MayServe(p) => SecretOf(original[p]) = S
  /\ \A h \in handed : Handable(h.secret, S)

UpWhenServing ==
  /\ DOMAIN main = Procs
  /\ \A p \in Procs : main[p] \in {"register", "append", "serve"} => At(p, "up")

SuperInv ==
  /\ \E S : SharedSecret(S)
  /\ NoneGenerated(clients) /\ \A p \in Procs : NoneGenerated(seed[p].rows)
  /\ UpWhenServing

\* What a process that is up takes for the super client's secret.
LEMMA SecretLoaded ==
  ASSUME FileInv, NEW p \in Procs, At(p, "up")
  PROVE  IF SecretOf(original[p]) = Empty
           THEN SuperSecret(p) = Empty \/ IsGenerated(SuperSecret(p))
           ELSE SuperSecret(p) = SecretOf(original[p])
<1>1. /\ Descends(p, file[p]) /\ file[p] \notin {None, Torn}
      /\ SuperSecret(p) = SecretIn(file[p].keys)
  BY DEF FileInv, FileOk, SuperSecret
<1>2. CASE file[p] = original[p]
  BY <1>1, <1>2 DEF SecretOf
<1>3. CASE Upgraded(p, file[p])
  <2>1. SecretOf(original[p]) = SecretIn(original[p].keys)
    BY <1>3 DEF Upgraded, SecretOf
  <2>2. AsMade(original[p], ConfigVersion, file[p].keys) /\ SecretCarried(original[p], file[p].keys)
    BY <1>3 DEF Upgraded, UpTo
  <2>3. Place(SuperSecretKey, ConfigVersion) = SuperSecretKey /\ SuperSecretKey \notin Obsolete
    BY DEF Place, Home, Renamed, OldPasswordCost, SuperSecretKey, Obsolete
  <2>4. SecretIn(original[p].keys) # Empty => SecretIn(file[p].keys) = SecretIn(original[p].keys)
    BY <2>2, <2>3 DEF AsMade, SecretIn
  <2> QED BY <1>1, <2>1, <2>2, <2>4 DEF SecretCarried
<1>4. CASE Created(p, file[p])
  <2>1. SecretOf(original[p]) = Empty
    BY <1>4 DEF Created, SecretOf
  <2>2. PICK n : file[p] = DefaultConfig(n)
    BY <1>1, <1>4 DEF Created
  <2>3. SecretIn(file[p].keys) = Generated(SuperSecretKey, n)
    BY <2>2 DEF SecretIn, DefaultConfig, Over, Secrets, SuperSecretKey
  <2> QED BY <1>1, <2>1, <2>3, KindsDiffer
<1> QED BY <1>1, <1>2, <1>3, <1>4 DEF Descends

LEMMA SuperInit == Init => SuperInv
<1> SUFFICES ASSUME Init PROVE SuperInv
  OBVIOUS
<1>1. PICK w \in Worlds :
        /\ ConfigInit(w.files, w.backups, w.used, w.running) /\ ClientsInit(w.clients, w.inactive)
        /\ main = [p \in Procs |-> IF p \in w.running THEN "serve" ELSE "config"]
  BY DEF Init
<1>2. \A p \in Procs : /\ original[p] = w.files[p] /\ start[p].n = w.used[p]
                        /\ start[p].pc = IF p \in w.running THEN "up" ELSE "down"
  BY <1>1, WorldsAssumption DEF ConfigInit
<1> DEFINE Serving == w.running \cup {r \in Procs : w.used[r] < MaxStarts}
<1>3. /\ \A p, q \in Serving : SecretOf(w.files[p]) = SecretOf(w.files[q])
      /\ \A id \in DOMAIN w.clients : ~IsGenerated(w.clients[id])
  BY SecretsAssumption
<1>4. ASSUME NEW p \in Procs PROVE SecretOf(w.files[p]) \in {Own(SuperSecretKey), Empty}
  <2>1. w.files[p] \in {None, Torn} \/ OfItsVersion(w.files[p])
    BY FilesAssumption
  <2> QED BY <2>1 DEF SecretOf, SecretIn, OfItsVersion
<1>5. ASSUME NEW p \in Procs, MayServe(p)
      PROVE  p \in Serving /\ SecretOf(original[p]) = SecretOf(w.files[p])
  BY <1>2, <1>5 DEF MayServe
<1>6. \E S : SharedSecret(S)
  <2>1. CASE \E p \in Procs : MayServe(p)
    <3>1. PICK p \in Procs : MayServe(p)
      BY <2>1
    <3>2. SharedSecret(SecretOf(w.files[p]))
      <4> HIDE DEF Serving
      <4>1. \A q \in Procs : MayServe(q) => SecretOf(original[q]) = SecretOf(w.files[p])
        BY <1>3, <1>5, <3>1
      <4>2. handed = {}
        BY <1>1 DEF ClientsInit
      <4> QED BY <1>4, <4>1, <4>2 DEF SharedSecret
    <3> QED BY <3>2
  <2>2. CASE ~\E p \in Procs : MayServe(p)
    <3>1. SharedSecret(Empty)
      BY <1>1, <2>2 DEF SharedSecret, ClientsInit
    <3> QED BY <3>1
  <2> QED BY <2>1, <2>2
<1>7. NoneGenerated(clients) /\ \A p \in Procs : NoneGenerated(seed[p].rows)
  BY <1>1, <1>3, NoRows DEF ClientsInit, NoneGenerated, NoSeed
<1>8. UpWhenServing
  BY <1>1, <1>2 DEF At, UpWhenServing
<1> QED BY <1>6, <1>7, <1>8 DEF SuperInv

LEMMA SecretShared ==
  ASSUME NEW S, SharedSecret(S), UNCHANGED original,
         \A p \in Procs : MayServe(p)' => MayServe(p),
         \A h \in handed' \ handed : Handable(h.secret, S)
  PROVE  SharedSecret(S)'
BY DEF SharedSecret

\* Steps that neither hand out nor register anything.
LEMMA NothingHanded ==
  ASSUME SuperInv, UNCHANGED <<original, clients, handed>>,
         \A p \in Procs : MayServe(p)' => MayServe(p),
         \A p \in Procs : NoneGenerated(seed'[p].rows), UpWhenServing'
  PROVE  SuperInv'
<1>1. PICK S : SharedSecret(S)
  BY DEF SuperInv
<1>2. SharedSecret(S)'
  BY <1>1, SecretShared
<1> QED BY <1>2 DEF SuperInv, NoneGenerated

\* Steps outside the start of a process and the seeding.
LEMMA SuperRests ==
  ASSUME SuperInv, UNCHANGED <<start, original, main, ovars>>
  PROVE  SuperInv'
<1>1. UNCHANGED <<original, clients, handed, seed>>
  BY DEF ovars
<1>2. \A p \in Procs : MayServe(p)' => MayServe(p)
  BY DEF MayServe
<1>3. UpWhenServing'
  BY DEF SuperInv, UpWhenServing, At
<1>4. \A p \in Procs : NoneGenerated(seed'[p].rows)
  BY <1>1 DEF SuperInv
<1> QED BY <1>1, <1>2, <1>3, <1>4, NothingHanded

LEMMA ConfigureSuper ==
  ASSUME DiskInv, SuperInv, NEW p \in Procs, Configure(p)
  PROVE  SuperInv'
<1>1. UNCHANGED <<original, clients, handed, seed>>
  BY ConfigFrame DEF Configure, ovars, DiskInv
<1>2. \A q \in Procs : q # p => start'[q] = start[q]
  BY ConfigFrame DEF Configure, SameFor, DiskInv
<1>3. start[p].pc \notin {"up", "down"}
  BY DEF Configure, ConfigStep, Stat, CreateDefault, ReadConfig, BackupConfigFile, WriteMigrated,
         ReplaceConfig, Load, At
<1>4. \A q \in Procs : MayServe(q)' => MayServe(q)
  BY <1>2, <1>3 DEF MayServe
<1>5. main[p] \notin {"register", "append", "serve"}
  BY <1>3 DEF SuperInv, UpWhenServing, At
<1>6. UpWhenServing'
  BY <1>2, <1>5 DEF Configure, SuperInv, UpWhenServing, At
<1>7. \A q \in Procs : NoneGenerated(seed'[q].rows)
  BY <1>1 DEF SuperInv
<1> QED BY <1>1, <1>4, <1>6, <1>7, NothingHanded

LEMMA RegisterSuper ==
  ASSUME SuperInv, NEW p \in Procs, RegisterOnConnect(p)
  PROVE  SuperInv'
<1>1. UNCHANGED <<start, original, clients, handed, seed>>
  BY DEF RegisterOnConnect, cvars, ovars
<1>2. \A q \in Procs : MayServe(q)' => MayServe(q)
  BY <1>1 DEF MayServe
<1>3. UpWhenServing'
  BY <1>1 DEF RegisterOnConnect, SuperInv, UpWhenServing, At
<1>4. \A q \in Procs : NoneGenerated(seed'[q].rows)
  BY <1>1 DEF SuperInv
<1> QED BY <1>1, <1>2, <1>3, <1>4, NothingHanded

LEMMA StopSuper ==
  ASSUME DiskInv, ClientsInv, SuperInv, NEW p \in Procs, Stop(p)
  PROVE  SuperInv'
<1>1. UNCHANGED <<original, clients, handed>>
  BY DEF Stop, ConfigStop, ClientsStop
<1>2. /\ \A q \in Procs : q # p => start'[q] = start[q]
      /\ start'[p].pc = "down" /\ start[p].pc # "down"
  BY DEF Stop, ConfigStop, DiskInv, Maps, Staged
<1>3. \A q \in Procs : MayServe(q)' => MayServe(q)
  BY <1>2 DEF MayServe
<1>4. UpWhenServing'
  BY <1>2 DEF Stop, SuperInv, UpWhenServing, At
<1>5. seed'[p] = NoSeed /\ \A q \in Procs : q # p => seed'[q] = seed[q]
  BY SeedOf DEF Stop, ClientsStop, Rollback, ClientsInv
<1>6. \A q \in Procs : NoneGenerated(seed'[q].rows)
  BY <1>5, NoSeedState DEF SuperInv, NoneGenerated
<1> QED BY <1>1, <1>3, <1>4, <1>6, NothingHanded

LEMMA RestartSuper ==
  ASSUME DiskInv, SuperInv, NEW p \in Procs, Restart(p)
  PROVE  SuperInv'
<1>1. UNCHANGED <<original, clients, handed, seed, main>>
  BY DEF Restart, ConfigRestart, ovars, dvars
<1>2. \A q \in Procs : q # p => start'[q] = start[q]
  BY DEF Restart, ConfigRestart, DiskInv, Maps
<1>3. start[p].pc = "down" /\ MayServe(p)
  BY DEF Restart, ConfigRestart, At, MayServe
<1>4. \A q \in Procs : MayServe(q)' => MayServe(q)
  BY <1>2, <1>3 DEF MayServe
<1>5. UpWhenServing'
  BY <1>1, <1>2, <1>3 DEF SuperInv, UpWhenServing, At
<1>6. \A q \in Procs : NoneGenerated(seed'[q].rows)
  BY <1>1 DEF SuperInv
<1> QED BY <1>1, <1>4, <1>5, <1>6, NothingHanded

LEMMA EntriesNotGenerated ==
  /\ \A id : ~IsGenerated(EntrySecret(id)) /\ NoneGenerated(BuiltIns)
  /\ \A p, id : NewSecret(p, id) \notin {Own(SuperSecretKey), Empty} /\ ~IsGenerated(NewSecret(p, id))
<1>1. \A id : ~IsGenerated(EntrySecret(id))
  BY KindsDiffer DEF EntrySecret
<1>2. NoneGenerated(BuiltIns)
  BY DEF NoneGenerated, BuiltIns, Placeholder, Empty, IsGenerated
<1>3. \A p, id : NewSecret(p, id) \notin {Own(SuperSecretKey), Empty} /\ ~IsGenerated(NewSecret(p, id))
  BY DEF NewSecret, Own, Empty, IsGenerated
<1> QED BY <1>1, <1>2, <1>3

\* The transaction of a process goes on, and the rows it has are the operator's.
LEMMA SeedGoesOn ==
  ASSUME ClientsInv, SuperInv, NEW p \in Procs, NEW tx, seed' = [seed EXCEPT ![p] = tx],
         NoneGenerated(tx.rows), UNCHANGED <<start, original, main, clients, handed>>
  PROVE  SuperInv'
<1>1. seed'[p] = tx /\ \A q \in Procs : q # p => seed'[q] = seed[q]
  BY SeedOf DEF ClientsInv
<1>2. \A q \in Procs : NoneGenerated(seed'[q].rows)
  BY <1>1 DEF SuperInv
<1>3. \A q \in Procs : MayServe(q)' => MayServe(q)
  BY DEF MayServe
<1>4. UpWhenServing'
  BY DEF SuperInv, UpWhenServing, At
<1> QED BY <1>2, <1>3, <1>4, NothingHanded

LEMMA SeedSuper ==
  ASSUME ClientsInv, SuperInv, NEW p \in Procs, SeedBegin(p) \/ SeedStep(p),
         UNCHANGED <<start, original, main>>
  PROVE  SuperInv'
<1>1. NoneGenerated(NoSeed.rows) /\ IsSeed(seed[p]) /\ NoneGenerated(seed[p].rows)
  BY NoSeedState DEF NoneGenerated, ClientsInv, ClientTypes, SuperInv
<1>2. ASSUME Rollback(p), UNCHANGED <<clients, handed>> PROVE SuperInv'
  BY <1>1, <1>2, SeedGoesOn DEF Rollback
<1>3. CASE SeedBegin(p)
  <2>1. PICK tx : /\ tx = [pc |-> "built-in", snapshot |-> clients, rows |-> <<>>, next |-> 1]
                  /\ seed' = [seed EXCEPT ![p] = tx]
    BY <1>3 DEF SeedBegin
  <2>2. NoneGenerated(tx.rows)
    BY <2>1, NoRows DEF NoneGenerated
  <2> QED BY <1>3, <2>1, <2>2, SeedGoesOn DEF SeedBegin
<1>4. CASE SeedBuiltIns(p)
  <2>1. CASE seed' = [seed EXCEPT ![p].pc = "service", ![p].rows = BuiltIns]
    <3>1. PICK tx : /\ tx = [seed[p] EXCEPT !.pc = "service", !.rows = BuiltIns]
                    /\ seed' = [seed EXCEPT ![p] = tx]
      BY <2>1 DEF ClientsInv, ClientTypes
    <3>2. tx.rows = BuiltIns
      BY <1>1, <3>1 DEF IsSeed
    <3> QED BY <1>4, <3>1, <3>2, EntriesNotGenerated, SeedGoesOn DEF SeedBuiltIns
  <2> QED BY <1>2, <1>4, <2>1 DEF SeedBuiltIns
<1>5. CASE SeedService(p)
  <2> DEFINE id == Configured(p)[seed[p].next]
             next == [seed EXCEPT ![p].next = @ + 1]
             one == [seed[p] EXCEPT !.next = seed[p].next + 1]
             two == [one EXCEPT !.rows = With(seed[p].rows, id, EntrySecret(id))]
  <2>1. next = [seed EXCEPT ![p] = one] /\ one.rows = seed[p].rows
    BY <1>1 DEF ClientsInv, ClientTypes, IsSeed
  <2>2. CASE seed' = next
    BY <1>1, <1>5, <2>1, <2>2, SeedGoesOn DEF SeedService
  <2>3. CASE seed' = [next EXCEPT ![p].rows = With(@, id, EntrySecret(id))]
    <3>1. seed = [q \in Procs |-> seed[q]] /\ {"pc", "rows", "next"} \subseteq DOMAIN one
      BY <1>1 DEF ClientsInv, ClientTypes, IsSeed
    <3> HIDE DEF id, one
    <3>2. seed' = [seed EXCEPT ![p] = two]
      <4>1. [seed EXCEPT ![p] = one][p] = one
        BY <3>1
      <4>2. seed' = [[seed EXCEPT ![p] = one]
                       EXCEPT ![p] = [one EXCEPT !.rows = With(one.rows, id, EntrySecret(id))]]
        BY <2>1, <2>3, <4>1
      <4> QED BY <2>1, <3>1, <4>2
    <3>3. two.rows = With(seed[p].rows, id, EntrySecret(id))
      BY <3>1
    <3>4. NoneGenerated(two.rows)
      BY <1>1, <3>3, EntriesNotGenerated DEF NoneGenerated, With
    <3> HIDE DEF two
    <3> QED BY <1>5, <3>2, <3>4, SeedGoesOn DEF SeedService
  <2>4. CASE Rollback(p)
    BY <1>2, <1>5, <2>4 DEF SeedService
  <2> QED BY <1>5, <2>2, <2>3, <2>4 DEF SeedService
<1>6. CASE SeedCommit(p)
  <2>1. clients' = Over(seed[p].rows, clients) /\ Rollback(p) /\ UNCHANGED handed
    BY <1>6 DEF SeedCommit
  <2>2. NoneGenerated(clients')
    BY <1>1, <2>1 DEF SuperInv, NoneGenerated, Over
  <2>3. PICK S : SharedSecret(S)
    BY DEF SuperInv
  <2>4. SharedSecret(S)'
    BY <2>1, <2>3, SecretShared DEF MayServe
  <2>5. seed'[p] = NoSeed /\ \A q \in Procs : q # p => seed'[q] = seed[q]
    BY <2>1, SeedOf DEF Rollback, ClientsInv
  <2>6. \A q \in Procs : NoneGenerated(seed'[q].rows)
    BY <1>1, <2>5 DEF SuperInv
  <2>7. UpWhenServing'
    BY DEF SuperInv, UpWhenServing, At
  <2> QED BY <2>2, <2>4, <2>6, <2>7 DEF SuperInv
<1>7. CASE SeedFails(p)
  BY <1>2, <1>7 DEF SeedFails
<1> QED BY <1>3, <1>4, <1>5, <1>6, <1>7 DEF SeedStep

\* A row is handed out only by a process that has the secret it must not be.
LEMMA ServeSuper ==
  ASSUME FileInv, SuperInv, NEW p \in Procs, Serve(p)
  PROVE  SuperInv'
<1>1. At(p, "up") /\ MayServe(p)
  BY DEF Serve, SuperInv, UpWhenServing, At, MayServe
<1>2. UNCHANGED <<start, original, main, seed>>
  BY DEF Serve, cvars, dvars, RegisterServiceClient, RequestStep, CreateClient, RequestFails
<1>3. PICK S : SharedSecret(S)
  BY DEF SuperInv
<1>4. SecretOf(original[p]) = S
  BY <1>1, <1>3 DEF SharedSecret
<1>5. ASSUME NEW id \in DOMAIN clients, AnswerExisting(p, id)
      PROVE  \A h \in handed' \ handed : Handable(h.secret, S)
  <2>1. CASE IsSuperClientSecret(p, clients[id])
    BY <1>5, <2>1 DEF AnswerExisting
  <2>2. CASE ~IsSuperClientSecret(p, clients[id])
    <3>1. \A h \in handed' \ handed : h.secret = clients[id]
      BY <1>5, <2>2 DEF AnswerExisting, Answer
    <3>2. S = Empty \/ clients[id] # S
      BY <1>1, <1>4, <2>2, SecretLoaded DEF IsSuperClientSecret
    <3>3. ~IsGenerated(clients[id])
      BY DEF SuperInv, NoneGenerated
    <3> QED BY <3>1, <3>2, <3>3 DEF Handable
  <2> QED BY <2>1, <2>2
<1>6. /\ \A h \in handed' \ handed : Handable(h.secret, S)
      /\ NoneGenerated(clients')
  <2>1. CASE RegisterServiceClient(p)
    BY <1>5, <2>1 DEF RegisterServiceClient, SuperInv
  <2>2. CASE CreateClient(p)
    <3> DEFINE id == request[p].id
    <3>1. CASE id \in DOMAIN clients
      BY <1>5, <2>2, <3>1 DEF CreateClient, AnswerRaced, SuperInv
    <3>2. CASE id \notin DOMAIN clients
      <4>1. /\ clients' = With(clients, id, NewSecret(p, id))
            /\ \A h \in handed' \ handed : h.secret = NewSecret(p, id)
        BY <2>2, <3>2 DEF CreateClient, Answer
      <4>2. NoneGenerated(clients')
        BY <4>1, EntriesNotGenerated DEF SuperInv, NoneGenerated, With
      <4>3. Handable(NewSecret(p, id), S)
        BY <1>3, EntriesNotGenerated DEF Handable, SharedSecret
      <4> QED BY <4>1, <4>2, <4>3
    <3> QED BY <3>1, <3>2
  <2>3. CASE RequestFails(p)
    BY <2>3 DEF RequestFails, SuperInv
  <2> QED BY <2>1, <2>2, <2>3 DEF Serve, RequestStep
<1>7. SharedSecret(S)'
  BY <1>2, <1>3, <1>6, SecretShared DEF MayServe
<1>8. UpWhenServing' /\ \A q \in Procs : NoneGenerated(seed'[q].rows)
  BY <1>2 DEF SuperInv, UpWhenServing, At
<1> QED BY <1>6, <1>7, <1>8 DEF SuperInv

LEMMA SuperStep == DiskInv /\ FileInv /\ ClientsInv /\ SuperInv /\ [Next]_vars => SuperInv'
<1> SUFFICES ASSUME DiskInv, FileInv, ClientsInv, SuperInv, [Next]_vars PROVE SuperInv'
  OBVIOUS
<1>1. CASE UNCHANGED vars
  BY <1>1, SuperRests DEF vars, cvars, dvars
<1>2. ASSUME NEW p \in Procs, Stop(p) \/ Restart(p) \/ Configure(p) \/ RegisterOnConnect(p) \/ Serve(p)
      PROVE  SuperInv'
  BY <1>2, StopSuper, RestartSuper, ConfigureSuper, RegisterSuper, ServeSuper
<1>3. ASSUME NEW p \in Procs, OpenFails(p) \/ OpenSucceeds(p) \/ WalkOnConnect(p) PROVE SuperInv'
  BY <1>3, SuperRests DEF OpenFails, OpenSucceeds, WalkOnConnect, cvars
<1>4. ASSUME NEW p \in Procs, CallbackStep(p), ~Seed(p) PROVE SuperInv'
  BY <1>4, SuperRests
     DEF CallbackStep, Dial, ReadColumn, ReadKey, DropKey, DropService, AddKey, Up,
         EnsureMigrationsFails, cvars, dvars
<1>5. ASSUME NEW p \in Procs, Seed(p) PROVE SuperInv'
  <2>1. UNCHANGED <<start, original, main>>
    BY <1>5 DEF Seed, cvars, dvars
  <2> QED BY <1>5, <2>1, SeedSuper, SuperRests DEF Seed
<1> QED BY <1>1, <1>2, <1>3, <1>4, <1>5 DEF Next

\* The super client's secret is in no answer to a registration, although each
\* process compares with its own and a service's row may have any, provided that
\* the processes of one database are left one secret.
THEOREM SuperSecretKept == NotFiles => (Spec => []SuperSecretStays)
<1> SUFFICES ASSUME NotFiles PROVE Spec => []SuperSecretStays
  OBVIOUS
<1> DEFINE Inv == DiskInv /\ FileInv /\ ClientsInv /\ SuperInv
<1>1. Init => Inv
  BY DiskInit, FileInit, ClientsInvInit, SuperInit
<1>2. Inv /\ [Next]_vars => Inv'
  BY DiskStep, FileStep, ClientsInvStep, SuperStep
<1>3. Inv => SuperSecretStays
  <2> SUFFICES ASSUME Inv, NEW p \in Procs, loaded[p] # None, NEW h \in handed
               PROVE  ~IsSuperClientSecret(p, h.secret)
    BY DEF SuperSecretStays
  <2>1. At(p, "up") /\ MayServe(p)
    BY DEF FileInv, FileOk, At, MayServe
  <2>2. PICK S : SharedSecret(S)
    BY DEF SuperInv
  <2>3. SecretOf(original[p]) = S /\ Handable(h.secret, S)
    BY <2>1, <2>2 DEF SharedSecret
  <2> QED BY <2>1, <2>3, SecretLoaded, KindsDiffer DEF IsSuperClientSecret, Handable
<1> QED BY <1>1, <1>2, <1>3, PTL DEF Spec
=============================================================================
