------------------------ MODULE NatAllocator_proofs ------------------------
(* Theorems about NatAllocator, for any workers, flows and ports: under its  *)
(* lock, allocate_nat_port implements the atomic table of NatTable.          *)
EXTENDS NatAllocator, TLAPS

-----------------------------------------------------------------------------
(* The inductive invariant.                                                 *)

\* Between the acquisition of the lock and the return.
Inner == {"lookup", "increment", "wrap", "table", "reverse"}

\* Whoever is inside holds the lock.
Locked == \A w \in Worker : call[w].pc \in Inner => nat_table_lock = w

KeyHeld == \A w \in Worker : call[w].pc # "outside" => call[w].key \in Key

\* A port is being allocated to a flow that has none.
Allocating ==
    \A w \in Worker : call[w].pc \in {"increment", "wrap", "table"} =>
        /\ call[w].port \in Port
        /\ nat_table[call[w].key] = None

\* How far next_port has come, by the statement the worker has reached.
NextPortAt ==
    /\ (\A w \in Worker : call[w].pc # "wrap") => next_port \in Port
    /\ \A w \in Worker :
         /\ call[w].pc = "increment" => next_port = call[w].port
         /\ call[w].pc = "wrap" => next_port = call[w].port + 1
         /\ call[w].pc = "table" => next_port = Abstract!Successor(call[w].port)

\* The flow has its port, the reverse entry is about to be written.
Allocated ==
    \A w \in Worker : call[w].pc = "reverse" =>
        /\ call[w].port \in Port
        /\ nat_table[call[w].key] = call[w].port

IInv == TypeOK /\ Locked /\ KeyHeld /\ Allocating /\ NextPortAt /\ Allocated

CallType ==
    [pc : {"outside", "acquire", "lookup", "increment", "wrap", "table", "reverse"},
     key : Key \cup {None}, port : Port \cup {None}]

\* One worker at a time is inside.
LEMMA Alone ==
    ASSUME IInv, NEW w \in Worker, call[w].pc \in Inner, NEW v \in Worker, v # w
    PROVE  call[v].pc \notin Inner
  BY DEF IInv, Locked

\* With the lock free nobody is inside.
LEMMA NobodyInside ==
    ASSUME IInv, nat_table_lock = None, NEW w \in Worker
    PROVE  call[w].pc \notin Inner
  BY AllocatorAssumption DEF IInv, Locked

\* None is no port, and the pool's arithmetic stays in the pool.
LEMMA PortFacts ==
    /\ None \notin Port
    /\ PORT_POOL_START \in Port
    /\ \A port \in Port : port \in Int /\ port + 1 \in PORT_POOL_START..(PORT_POOL_END + 1)
    /\ \A port \in Port : Abstract!Successor(port) \in Port
  BY AllocatorAssumption DEF Port, Abstract!Successor

\* The parts of the type invariant.
LEMMA Types ==
    ASSUME IInv
    PROVE  /\ nat_table \in [Key -> Port \cup {None}]
           /\ nat_table_rev \in [Port \X Proto -> Endpoint \cup {None}]
           /\ next_port \in PORT_POOL_START..(PORT_POOL_END + 1)
           /\ nat_table_lock \in Worker \cup {None}
           /\ call \in [Worker -> CallType]
           /\ allocations \in Nat
  BY DEF IInv, TypeOK, CallType

LEMMA InvInit == Init => IInv
  <1> SUFFICES ASSUME Init
               PROVE  IInv
    OBVIOUS
  <1>1. call = [w \in Worker |-> Returned(None)] /\ next_port = PORT_POOL_START
        /\ nat_table_lock = None /\ allocations = 0
        /\ nat_table = [key \in Key |-> None]
        /\ nat_table_rev = [slot \in Port \X Proto |-> None]
    BY DEF Init
  <1>2. \A w \in Worker : call[w].pc = "outside"
    BY <1>1 DEF Returned
  <1>3. call \in [Worker -> CallType]
    BY <1>1 DEF Returned, CallType
  <1>4. TypeOK
    BY <1>1, <1>3, PortFacts, AllocatorAssumption DEF TypeOK, CallType
  <1>5. NextPortAt
    BY <1>1, <1>2, PortFacts DEF NextPortAt
  <1> QED BY <1>2, <1>4, <1>5 DEF IInv, Locked, KeyHeld, Allocating, Allocated, Inner

-----------------------------------------------------------------------------
(* Each statement keeps the invariant.                                      *)

LEMMA CallKeeps ==
    ASSUME IInv, NEW w \in Worker, NEW key \in Key, Call(w, key)
    PROVE  IInv'
  <1>1. call' = [call EXCEPT ![w] = [pc |-> "acquire", key |-> key, port |-> None]]
        /\ UNCHANGED <<nat_table, nat_table_rev, next_port, nat_table_lock, allocations>>
        /\ call[w].pc = "outside"
    BY DEF Call, At
  <1>2. call' \in [Worker -> CallType]
    BY <1>1, Types DEF CallType
  <1>3. /\ call'[w] = [pc |-> "acquire", key |-> key, port |-> None]
        /\ \A v \in Worker : v # w => call'[v] = call[v]
    BY <1>1, Types
  <1>4. TypeOK'
    BY <1>1, <1>2 DEF IInv, TypeOK, CallType
  <1>5. Locked' /\ KeyHeld' /\ Allocating' /\ Allocated'
    BY <1>1, <1>3 DEF IInv, Locked, KeyHeld, Allocating, Allocated, Inner
  <1>6. NextPortAt'
    BY <1>1, <1>3 DEF IInv, NextPortAt
  <1> QED BY <1>4, <1>5, <1>6 DEF IInv

LEMMA AcquireKeeps ==
    ASSUME IInv, NEW w \in Worker, Acquire(w)
    PROVE  IInv'
  <1>1. call' = [call EXCEPT ![w].pc = "lookup"] /\ nat_table_lock' = w
        /\ UNCHANGED <<nat_table, nat_table_rev, next_port, allocations>>
        /\ call[w].pc = "acquire" /\ nat_table_lock = None
    BY DEF Acquire, At, Goto
  <1>2. call' \in [Worker -> CallType]
    BY <1>1, Types DEF CallType
  <1>3. /\ call'[w].pc = "lookup" /\ call'[w].key = call[w].key
        /\ \A v \in Worker : v # w => call'[v] = call[v]
    BY <1>1, Types DEF CallType
  <1>4. TypeOK'
    BY <1>1, <1>2 DEF IInv, TypeOK, CallType
  <1>5. Locked'
    BY <1>1, <1>3, NobodyInside DEF Locked
  <1>6. KeyHeld' /\ Allocating' /\ Allocated'
    BY <1>1, <1>3 DEF IInv, KeyHeld, Allocating, Allocated
  <1>7. NextPortAt'
    BY <1>1, <1>3 DEF IInv, NextPortAt
  <1> QED BY <1>4, <1>5, <1>6, <1>7 DEF IInv

LEMMA FoundKeeps ==
    ASSUME IInv, NEW w \in Worker, Found(w)
    PROVE  IInv'
  <1>1. call' = [call EXCEPT ![w] = Returned(nat_table[call[w].key])] /\ nat_table_lock' = None
        /\ UNCHANGED <<nat_table, nat_table_rev, next_port, allocations>>
        /\ call[w].pc = "lookup"
    BY DEF Found, At
  <1>2. nat_table[call[w].key] \in Port \cup {None}
    BY <1>1, Types DEF IInv, KeyHeld
  <1>3. call' \in [Worker -> CallType]
    BY <1>1, <1>2, Types DEF CallType, Returned
  <1>4. call'[w].pc = "outside" /\ \A v \in Worker : v # w => call'[v] = call[v]
    BY <1>1, Types DEF Returned
  <1>5. TypeOK'
    BY <1>1, <1>3 DEF IInv, TypeOK, CallType
  <1>6. \A v \in Worker : call'[v].pc \notin Inner
    BY <1>1, <1>4, Alone DEF Inner
  <1>7. Locked' /\ Allocating' /\ Allocated'
    BY <1>6 DEF Locked, Allocating, Allocated, Inner
  <1>8. KeyHeld'
    BY <1>4 DEF IInv, KeyHeld
  <1>9. NextPortAt'
    BY <1>1, <1>4 DEF IInv, NextPortAt
  <1> QED BY <1>5, <1>7, <1>8, <1>9 DEF IInv

LEMMA ReadKeeps ==
    ASSUME IInv, NEW w \in Worker, ReadNextPort(w)
    PROVE  IInv'
  <1>1. call' = [call EXCEPT ![w] = [@ EXCEPT !.pc = "increment", !.port = next_port]]
        /\ UNCHANGED <<nat_table, nat_table_rev, next_port, nat_table_lock, allocations>>
        /\ call[w].pc = "lookup" /\ nat_table[call[w].key] = None
    BY DEF ReadNextPort, At
  <1>2. \A v \in Worker : v # w => call[v].pc \notin Inner
    BY <1>1, Alone DEF Inner
  <1>3. next_port \in Port
    BY <1>1, <1>2 DEF IInv, NextPortAt, Inner
  <1>4. call' \in [Worker -> CallType]
    BY <1>1, <1>3, Types DEF CallType
  <1>5. /\ call'[w].pc = "increment" /\ call'[w].key = call[w].key
        /\ call'[w].port = next_port
        /\ \A v \in Worker : v # w => call'[v] = call[v]
    BY <1>1, Types DEF CallType
  <1>6. TypeOK'
    BY <1>1, <1>4 DEF IInv, TypeOK, CallType
  <1>7. Locked' /\ KeyHeld'
    BY <1>1, <1>5 DEF IInv, Locked, KeyHeld, Inner
  <1>8. Allocating' /\ Allocated'
    BY <1>1, <1>2, <1>3, <1>5 DEF Allocating, Allocated, Inner
  <1>9. NextPortAt'
    BY <1>1, <1>2, <1>3, <1>5 DEF NextPortAt, Inner
  <1> QED BY <1>6, <1>7, <1>8, <1>9 DEF IInv

LEMMA IncrementKeeps ==
    ASSUME IInv, NEW w \in Worker, IncrementNextPort(w)
    PROVE  IInv'
  <1>1. call' = [call EXCEPT ![w].pc = "wrap"] /\ next_port' = next_port + 1
        /\ UNCHANGED <<nat_table, nat_table_rev, nat_table_lock, allocations>>
        /\ call[w].pc = "increment"
    BY DEF IncrementNextPort, At, Goto
  <1>2. \A v \in Worker : v # w => call[v].pc \notin Inner
    BY <1>1, Alone DEF Inner
  <1>3. next_port = call[w].port /\ call[w].port \in Port /\ nat_table[call[w].key] = None
    BY <1>1 DEF IInv, NextPortAt, Allocating
  <1>4. call' \in [Worker -> CallType]
    BY <1>1, Types DEF CallType
  <1>5. /\ call'[w].pc = "wrap" /\ call'[w].key = call[w].key
        /\ call'[w].port = call[w].port
        /\ \A v \in Worker : v # w => call'[v] = call[v]
    BY <1>1, Types DEF CallType
  <1>6. TypeOK'
    BY <1>1, <1>3, <1>4, PortFacts DEF IInv, TypeOK, CallType
  <1>7. Locked' /\ KeyHeld'
    BY <1>1, <1>5 DEF IInv, Locked, KeyHeld, Inner
  <1>8. Allocating' /\ Allocated'
    BY <1>1, <1>2, <1>3, <1>5 DEF Allocating, Allocated, Inner
  <1>9. NextPortAt'
    BY <1>1, <1>2, <1>3, <1>5 DEF NextPortAt, Inner
  <1> QED BY <1>6, <1>7, <1>8, <1>9 DEF IInv

LEMMA WrapKeeps ==
    ASSUME IInv, NEW w \in Worker, WrapNextPort(w)
    PROVE  IInv'
  <1>1. call' = [call EXCEPT ![w].pc = "table"]
        /\ next_port' = (IF next_port > PORT_POOL_END THEN PORT_POOL_START ELSE next_port)
        /\ UNCHANGED <<nat_table, nat_table_rev, nat_table_lock, allocations>>
        /\ call[w].pc = "wrap"
    BY DEF WrapNextPort, At, Goto
  <1>2. \A v \in Worker : v # w => call[v].pc \notin Inner
    BY <1>1, Alone DEF Inner
  <1>3. next_port = call[w].port + 1 /\ call[w].port \in Port
        /\ nat_table[call[w].key] = None
    BY <1>1 DEF IInv, NextPortAt, Allocating
  <1>4. next_port' = Abstract!Successor(call[w].port) /\ next_port' \in Port
    BY <1>1, <1>3, PortFacts DEF Abstract!Successor
  <1>5. call' \in [Worker -> CallType]
    BY <1>1, Types DEF CallType
  <1>6. /\ call'[w].pc = "table" /\ call'[w].key = call[w].key
        /\ call'[w].port = call[w].port
        /\ \A v \in Worker : v # w => call'[v] = call[v]
    BY <1>1, Types DEF CallType
  <1>7. TypeOK'
    <2>1. next_port' \in PORT_POOL_START..(PORT_POOL_END + 1)
      BY <1>4, AllocatorAssumption DEF Port
    <2> QED BY <1>1, <1>5, <2>1 DEF IInv, TypeOK, CallType
  <1>8. Locked' /\ KeyHeld'
    BY <1>1, <1>6 DEF IInv, Locked, KeyHeld, Inner
  <1>9. Allocating' /\ Allocated'
    BY <1>1, <1>2, <1>3, <1>6 DEF Allocating, Allocated, Inner
  <1>10. NextPortAt'
    BY <1>1, <1>2, <1>4, <1>6 DEF NextPortAt, Inner
  <1> QED BY <1>7, <1>8, <1>9, <1>10 DEF IInv

LEMMA TableKeeps ==
    ASSUME IInv, NEW w \in Worker, WriteTable(w)
    PROVE  IInv'
  <1>1. call' = [call EXCEPT ![w].pc = "reverse"] /\ allocations' = allocations + 1
        /\ nat_table' = [nat_table EXCEPT ![call[w].key] = call[w].port]
        /\ UNCHANGED <<nat_table_rev, next_port, nat_table_lock>>
        /\ call[w].pc = "table"
    BY DEF WriteTable, At, Goto
  <1>2. \A v \in Worker : v # w => call[v].pc \notin Inner
    BY <1>1, Alone DEF Inner
  <1>3. call[w].port \in Port /\ call[w].key \in Key
    BY <1>1 DEF IInv, KeyHeld, Allocating
  <1>4. call' \in [Worker -> CallType]
    BY <1>1, Types DEF CallType
  <1>5. /\ call'[w].pc = "reverse" /\ call'[w].key = call[w].key
        /\ call'[w].port = call[w].port
        /\ \A v \in Worker : v # w => call'[v] = call[v]
    BY <1>1, Types DEF CallType
  <1>6. nat_table' \in [Key -> Port \cup {None}] /\ nat_table'[call[w].key] = call[w].port
    BY <1>1, <1>3, Types
  <1>7. TypeOK'
    BY <1>1, <1>4, <1>6 DEF IInv, TypeOK, CallType
  <1>8. Locked' /\ KeyHeld'
    BY <1>1, <1>5 DEF IInv, Locked, KeyHeld, Inner
  <1>9. Allocating' /\ Allocated'
    BY <1>1, <1>2, <1>3, <1>5, <1>6 DEF Allocating, Allocated, Inner
  <1>10. NextPortAt'
    BY <1>1, <1>2, <1>5 DEF IInv, NextPortAt, Inner
  <1> QED BY <1>7, <1>8, <1>9, <1>10 DEF IInv

LEMMA ReverseKeeps ==
    ASSUME IInv, NEW w \in Worker, WriteReverse(w)
    PROVE  IInv'
  <1>1. call' = [call EXCEPT ![w] = Returned(call[w].port)] /\ nat_table_lock' = None
        /\ nat_table_rev' =
             [nat_table_rev EXCEPT ![<<call[w].port, call[w].key[2]>>] = call[w].key[1]]
        /\ UNCHANGED <<nat_table, next_port, allocations>>
        /\ call[w].pc = "reverse"
    BY DEF WriteReverse, At
  <1>2. \A v \in Worker : v # w => call[v].pc \notin Inner
    BY <1>1, Alone DEF Inner
  <1>3. call[w].port \in Port /\ call[w].key \in Key
    BY <1>1 DEF IInv, KeyHeld, Allocated
  <1>4. call' \in [Worker -> CallType]
    BY <1>1, <1>3, Types DEF CallType, Returned
  <1>5. call'[w].pc = "outside" /\ \A v \in Worker : v # w => call'[v] = call[v]
    BY <1>1, Types DEF Returned
  <1>6. nat_table_rev' \in [Port \X Proto -> Endpoint \cup {None}]
    BY <1>1, <1>3, Types DEF Key
  <1>7. TypeOK'
    BY <1>1, <1>4, <1>6 DEF IInv, TypeOK, CallType
  <1>8. Locked' /\ Allocating' /\ Allocated'
    BY <1>2, <1>5 DEF Locked, Allocating, Allocated, Inner
  <1>9. KeyHeld'
    BY <1>5 DEF IInv, KeyHeld
  <1>10. NextPortAt'
    BY <1>1, <1>2, <1>5 DEF IInv, NextPortAt, Inner
  <1> QED BY <1>7, <1>8, <1>9, <1>10 DEF IInv

LEMMA InvStep == IInv /\ [Next]_vars => IInv'
  <1> SUFFICES ASSUME IInv, [Next]_vars
               PROVE  IInv'
    OBVIOUS
  <1>1. CASE UNCHANGED vars
    BY <1>1 DEF vars, IInv, TypeOK, Locked, KeyHeld, Allocating, NextPortAt, Allocated
  <1>2. ASSUME NEW w \in Worker, NEW key \in Key, Call(w, key)
        PROVE  IInv'
    BY <1>2, CallKeeps
  <1>3. ASSUME NEW w \in Worker, InCall(w)
        PROVE  IInv'
    BY <1>3, AcquireKeeps, FoundKeeps, ReadKeeps, IncrementKeeps, WrapKeeps, TableKeeps,
       ReverseKeeps DEF InCall
  <1> QED BY <1>1, <1>2, <1>3 DEF Next

\* The types of the allocator's state hold in every behaviour; next_port is at most
\* one beyond the pool.
THEOREM TypeCorrect == Spec => []TypeOK
  <1>1. IInv => TypeOK
    BY DEF IInv
  <1> QED BY InvInit, InvStep, <1>1, PTL DEF Spec

-----------------------------------------------------------------------------
(* The refinement: WriteTable is the atomic step, every other statement is a *)
(* stutter of the abstract table.                                           *)

\* What the mapping sees of next_port: the port being allocated, while next_port is
\* ahead of the table.
NextPortMapping ==
    /\ \A w \in Worker : call[w].pc \in {"wrap", "table"} => NextPortSeen = call[w].port
    /\ (\A w \in Worker : call[w].pc \notin {"wrap", "table"}) => NextPortSeen = next_port

\* What it sees of the reverse table: with the entry that is about to be written.
ReverseMapping ==
    /\ \A w \in Worker : call[w].pc = "reverse" =>
         ReverseSeen = [nat_table_rev EXCEPT
                          ![<<call[w].port, call[w].key[2]>>] = call[w].key[1]]
    /\ (\A w \in Worker : call[w].pc # "reverse") => ReverseSeen = nat_table_rev

LEMMA Mapped == IInv => NextPortMapping /\ ReverseMapping
  <1> SUFFICES ASSUME IInv
               PROVE  NextPortMapping /\ ReverseMapping
    OBVIOUS
  <1>1. ASSUME NEW w \in Worker, call[w].pc \in {"wrap", "table"}
        PROVE  NextPortSeen = call[w].port
    <2>1. Within({"wrap", "table"}) = {w}
      BY <1>1, Alone DEF Within, Inner
    <2>2. (CHOOSE v \in {w} : TRUE) = w
      OBVIOUS
    <2> QED BY <2>1, <2>2 DEF NextPortSeen
  <1>2. ASSUME \A w \in Worker : call[w].pc \notin {"wrap", "table"}
        PROVE  NextPortSeen = next_port
    BY <1>2 DEF NextPortSeen, Within
  <1>3. ASSUME NEW w \in Worker, call[w].pc = "reverse"
        PROVE  ReverseSeen = [nat_table_rev EXCEPT
                                ![<<call[w].port, call[w].key[2]>>] = call[w].key[1]]
    <2>1. Within({"reverse"}) = {w}
      BY <1>3, Alone DEF Within, Inner
    <2>2. (CHOOSE v \in {w} : TRUE) = w
      OBVIOUS
    <2> QED BY <2>1, <2>2 DEF ReverseSeen
  <1>4. ASSUME \A w \in Worker : call[w].pc # "reverse"
        PROVE  ReverseSeen = nat_table_rev
    BY <1>4 DEF ReverseSeen, Within
  <1> QED BY <1>1, <1>2, <1>3, <1>4 DEF NextPortMapping, ReverseMapping

LEMMA MappedNext == IInv' => (NextPortMapping /\ ReverseMapping)'
  BY Mapped, PTL

\* A statement that leaves the table alone is a stutter of the abstract table: what
\* the mapping sees does not change.
Stutter == UNCHANGED <<nat_table, ReverseSeen, NextPortSeen, allocations>>

\* Outside of the allocation proper, the mapping sees the variables themselves.
LEMMA NotAllocating ==
    ASSUME IInv, \A v \in Worker : call[v].pc \notin {"wrap", "table", "reverse"}
    PROVE  NextPortSeen = next_port /\ ReverseSeen = nat_table_rev
  BY Mapped DEF NextPortMapping, ReverseMapping

LEMMA OutsideStep ==
    ASSUME IInv, IInv', NEW w \in Worker, UNCHANGED <<nat_table, nat_table_rev, next_port, allocations>>,
           \A v \in Worker : v # w => call'[v] = call[v],
           call[w].pc \notin {"wrap", "table", "reverse"},
           call'[w].pc \notin {"wrap", "table", "reverse"}
    PROVE  Stutter
  <1>1. CASE \E v \in Worker : call[v].pc \in {"wrap", "table"}
    <2>1. PICK v \in Worker : call[v].pc \in {"wrap", "table"}
      BY <1>1
    <2>2. call'[v] = call[v] /\ v # w
      BY <2>1
    <2>3. NextPortSeen = call[v].port /\ NextPortSeen' = call'[v].port
      BY <2>1, <2>2, Mapped, MappedNext DEF NextPortMapping
    <2>4. \A u \in Worker : call[u].pc # "reverse" /\ call'[u].pc # "reverse"
      BY <2>1, Alone DEF Inner
    <2>5. ReverseSeen = nat_table_rev /\ ReverseSeen' = nat_table_rev'
      BY <2>4, Mapped, MappedNext DEF ReverseMapping
    <2> QED BY <2>2, <2>3, <2>5 DEF Stutter
  <1>2. CASE \E v \in Worker : call[v].pc = "reverse"
    <2>1. PICK v \in Worker : call[v].pc = "reverse"
      BY <1>2
    <2>2. call'[v] = call[v] /\ v # w
      BY <2>1
    <2>3. ReverseSeen' = ReverseSeen
      <3>1. ReverseSeen = [nat_table_rev EXCEPT
                             ![<<call[v].port, call[v].key[2]>>] = call[v].key[1]]
        BY <2>1, Mapped DEF ReverseMapping
      <3>2. ReverseSeen' = [nat_table_rev' EXCEPT
                              ![<<call'[v].port, call'[v].key[2]>>] = call'[v].key[1]]
        BY <2>1, <2>2, MappedNext DEF ReverseMapping
      <3> QED BY <3>1, <3>2, <2>2
    <2>4. \A u \in Worker : call[u].pc \notin {"wrap", "table"}
                           /\ call'[u].pc \notin {"wrap", "table"}
      BY <2>1, Alone DEF Inner
    <2>5. NextPortSeen = next_port /\ NextPortSeen' = next_port'
      BY <2>4, Mapped, MappedNext DEF NextPortMapping
    <2> QED BY <2>3, <2>5 DEF Stutter
  <1>3. CASE \A v \in Worker : call[v].pc \notin {"wrap", "table", "reverse"}
    <2>1. \A v \in Worker : call'[v].pc \notin {"wrap", "table", "reverse"}
      BY <1>3
    <2>2. NextPortSeen' = next_port' /\ ReverseSeen' = nat_table_rev'
      BY <2>1, MappedNext DEF NextPortMapping, ReverseMapping
    <2>3. NextPortSeen = next_port /\ ReverseSeen = nat_table_rev
      BY <1>3, NotAllocating
    <2> QED BY <2>2, <2>3 DEF Stutter
  <1> QED BY <1>1, <1>2, <1>3

\* The worker that holds the lock decides what the mapping sees.
LEMMA HolderSees ==
    ASSUME IInv, NEW w \in Worker, call[w].pc \in Inner
    PROVE  /\ NextPortSeen = IF call[w].pc \in {"wrap", "table"} THEN call[w].port ELSE next_port
           /\ ReverseSeen = IF call[w].pc = "reverse"
                            THEN [nat_table_rev EXCEPT
                                    ![<<call[w].port, call[w].key[2]>>] = call[w].key[1]]
                            ELSE nat_table_rev
  <1>1. \A v \in Worker : v # w => call[v].pc \notin {"wrap", "table", "reverse"}
    BY Alone DEF Inner
  <1> QED BY <1>1, Mapped DEF NextPortMapping, ReverseMapping

LEMMA HolderSeesNext ==
    (IInv => \A w \in Worker : call[w].pc \in Inner =>
        /\ NextPortSeen = IF call[w].pc \in {"wrap", "table"} THEN call[w].port ELSE next_port
        /\ ReverseSeen = IF call[w].pc = "reverse"
                         THEN [nat_table_rev EXCEPT
                                 ![<<call[w].port, call[w].key[2]>>] = call[w].key[1]]
                         ELSE nat_table_rev)'
  <1>1. IInv => \A w \in Worker : call[w].pc \in Inner =>
        /\ NextPortSeen = IF call[w].pc \in {"wrap", "table"} THEN call[w].port ELSE next_port
        /\ ReverseSeen = IF call[w].pc = "reverse"
                         THEN [nat_table_rev EXCEPT
                                 ![<<call[w].port, call[w].key[2]>>] = call[w].key[1]]
                         ELSE nat_table_rev
    BY HolderSees
  <1> QED BY <1>1, PTL

LEMMA IncrementStutters ==
    ASSUME IInv, IInv', NEW w \in Worker, IncrementNextPort(w)
    PROVE  Stutter
  <1>1. call' = [call EXCEPT ![w].pc = "wrap"] /\ call[w].pc = "increment"
        /\ UNCHANGED <<nat_table, nat_table_rev, allocations>>
    BY DEF IncrementNextPort, At, Goto
  <1>2. call'[w].pc = "wrap" /\ call'[w].port = call[w].port
    BY <1>1, Types DEF CallType
  <1>3. NextPortSeen = next_port /\ ReverseSeen = nat_table_rev
    BY <1>1, HolderSees DEF Inner
  <1>4. NextPortSeen' = call'[w].port /\ ReverseSeen' = nat_table_rev'
    BY <1>2, HolderSeesNext DEF Inner
  <1>5. next_port = call[w].port
    BY <1>1 DEF IInv, NextPortAt
  <1> QED BY <1>1, <1>2, <1>3, <1>4, <1>5 DEF Stutter

LEMMA WrapStutters ==
    ASSUME IInv, IInv', NEW w \in Worker, WrapNextPort(w)
    PROVE  Stutter
  <1>1. call' = [call EXCEPT ![w].pc = "table"] /\ call[w].pc = "wrap"
        /\ UNCHANGED <<nat_table, nat_table_rev, allocations>>
    BY DEF WrapNextPort, At, Goto
  <1>2. call'[w].pc = "table" /\ call'[w].port = call[w].port
    BY <1>1, Types DEF CallType
  <1>3. NextPortSeen = call[w].port /\ ReverseSeen = nat_table_rev
    BY <1>1, HolderSees DEF Inner
  <1>4. NextPortSeen' = call'[w].port /\ ReverseSeen' = nat_table_rev'
    BY <1>2, HolderSeesNext DEF Inner
  <1> QED BY <1>1, <1>2, <1>3, <1>4 DEF Stutter

LEMMA ReverseStutters ==
    ASSUME IInv, IInv', NEW w \in Worker, WriteReverse(w)
    PROVE  Stutter
  <1>1. call' = [call EXCEPT ![w] = Returned(call[w].port)] /\ call[w].pc = "reverse"
        /\ nat_table_rev' =
             [nat_table_rev EXCEPT ![<<call[w].port, call[w].key[2]>>] = call[w].key[1]]
        /\ UNCHANGED <<nat_table, next_port, allocations>>
    BY DEF WriteReverse, At
  <1>2. call'[w].pc = "outside" /\ \A v \in Worker : v # w => call'[v] = call[v]
    BY <1>1, Types DEF Returned
  <1>3. NextPortSeen = next_port /\ ReverseSeen = nat_table_rev'
    BY <1>1, HolderSees DEF Inner
  <1>4. \A v \in Worker : call'[v].pc \notin {"wrap", "table", "reverse"}
    BY <1>1, <1>2, Alone DEF Inner
  <1>5. NextPortSeen' = next_port' /\ ReverseSeen' = nat_table_rev'
    BY <1>4, MappedNext DEF NextPortMapping, ReverseMapping
  <1> QED BY <1>1, <1>3, <1>5 DEF Stutter

\* Entering the flow in the table is the whole abstract step.
LEMMA TableAllocates ==
    ASSUME IInv, IInv', NEW w \in Worker, WriteTable(w)
    PROVE  Abstract!AllocateNew(call[w].key)
  <1>1. call' = [call EXCEPT ![w].pc = "reverse"] /\ call[w].pc = "table"
        /\ nat_table' = [nat_table EXCEPT ![call[w].key] = call[w].port]
        /\ allocations' = allocations + 1
        /\ UNCHANGED <<nat_table_rev, next_port>>
    BY DEF WriteTable, At, Goto
  <1>2. call'[w].pc = "reverse" /\ call'[w].port = call[w].port /\ call'[w].key = call[w].key
    BY <1>1, Types DEF CallType
  <1>3. NextPortSeen = call[w].port /\ ReverseSeen = nat_table_rev
    BY <1>1, HolderSees DEF Inner
  <1>4. /\ NextPortSeen' = next_port'
        /\ ReverseSeen' = [nat_table_rev' EXCEPT
                             ![<<call'[w].port, call'[w].key[2]>>] = call'[w].key[1]]
    BY <1>2, HolderSeesNext DEF Inner
  <1>5. nat_table[call[w].key] = None /\ next_port = Abstract!Successor(call[w].port)
    BY <1>1 DEF IInv, Allocating, NextPortAt
  <1>6. ~Abstract!Known(call[w].key)
    BY <1>5 DEF Abstract!Known
  <1>7. nat_table' = [nat_table EXCEPT ![call[w].key] = NextPortSeen]
    BY <1>1, <1>3
  <1>8. ReverseSeen' = [ReverseSeen EXCEPT
                          ![<<NextPortSeen, call[w].key[2]>>] = call[w].key[1]]
    BY <1>1, <1>2, <1>3, <1>4
  <1>9. NextPortSeen' = Abstract!Successor(NextPortSeen)
    BY <1>1, <1>3, <1>4, <1>5
  <1> QED BY <1>1, <1>6, <1>7, <1>8, <1>9 DEF Abstract!AllocateNew

LEMMA InitMaps == Init => Abstract!NatInit
  <1> SUFFICES ASSUME Init
               PROVE  Abstract!NatInit
    OBVIOUS
  <1>1. \A w \in Worker : call[w].pc \notin {"wrap", "table", "reverse"}
    BY DEF Init, Returned
  <1>2. NextPortSeen = next_port /\ ReverseSeen = nat_table_rev
    BY <1>1, InvInit, NotAllocating
  <1> QED BY <1>2 DEF Init, Abstract!NatInit, Key, Port, Abstract!Key, Abstract!Port

LEMMA StepMaps ==
    IInv /\ IInv' /\ [Next]_vars => [Abstract!NatNext]_(Abstract!natVars)
  <1> SUFFICES ASSUME IInv, IInv', [Next]_vars
               PROVE  Stutter \/ Abstract!NatNext
    BY DEF Stutter, Abstract!natVars
  <1>1. CASE UNCHANGED vars
    BY <1>1 DEF vars, Stutter, NextPortSeen, ReverseSeen, Within
  <1>2. ASSUME NEW w \in Worker, NEW key \in Key, Call(w, key)
        PROVE  Stutter
    <2>1. call' = [call EXCEPT ![w] = [pc |-> "acquire", key |-> key, port |-> None]]
          /\ UNCHANGED <<nat_table, nat_table_rev, next_port, allocations>>
          /\ call[w].pc = "outside"
      BY <1>2 DEF Call, At
    <2>2. call'[w].pc = "acquire" /\ \A v \in Worker : v # w => call'[v] = call[v]
      BY <2>1, Types
    <2> QED BY <2>1, <2>2, OutsideStep
  <1>3. ASSUME NEW w \in Worker, Acquire(w)
        PROVE  Stutter
    <2>1. call' = [call EXCEPT ![w].pc = "lookup"] /\ call[w].pc = "acquire"
          /\ UNCHANGED <<nat_table, nat_table_rev, next_port, allocations>>
      BY <1>3 DEF Acquire, At, Goto
    <2>2. call'[w].pc = "lookup" /\ \A v \in Worker : v # w => call'[v] = call[v]
      BY <2>1, Types DEF CallType
    <2> QED BY <2>1, <2>2, OutsideStep
  <1>4. ASSUME NEW w \in Worker, Found(w)
        PROVE  Stutter
    <2>1. call' = [call EXCEPT ![w] = Returned(nat_table[call[w].key])] /\ call[w].pc = "lookup"
          /\ UNCHANGED <<nat_table, nat_table_rev, next_port, allocations>>
      BY <1>4 DEF Found, At
    <2>2. call'[w].pc = "outside" /\ \A v \in Worker : v # w => call'[v] = call[v]
      BY <2>1, Types DEF Returned
    <2> QED BY <2>1, <2>2, OutsideStep
  <1>5. ASSUME NEW w \in Worker, ReadNextPort(w)
        PROVE  Stutter
    <2>1. call' = [call EXCEPT ![w] = [@ EXCEPT !.pc = "increment", !.port = next_port]]
          /\ call[w].pc = "lookup"
          /\ UNCHANGED <<nat_table, nat_table_rev, next_port, allocations>>
      BY <1>5 DEF ReadNextPort, At
    <2>2. call'[w].pc = "increment" /\ \A v \in Worker : v # w => call'[v] = call[v]
      BY <2>1, Types DEF CallType
    <2> QED BY <2>1, <2>2, OutsideStep
  <1>6. ASSUME NEW w \in Worker, WriteTable(w)
        PROVE  Abstract!NatNext
    <2>1. call[w].key \in Abstract!Key
      BY <1>6 DEF WriteTable, At, IInv, KeyHeld, Key, Abstract!Key
    <2>2. Abstract!AllocateNew(call[w].key)
      BY <1>6, TableAllocates
    <2> QED BY <2>1, <2>2 DEF Abstract!NatNext, Abstract!allocate_nat_port
  <1>7. ASSUME NEW w \in Worker, InCall(w)
        PROVE  Stutter \/ Abstract!NatNext
    BY <1>3, <1>4, <1>5, <1>6, <1>7, IncrementStutters, WrapStutters, ReverseStutters DEF InCall
  <1> QED BY <1>1, <1>2, <1>7 DEF Next

\* Seen from outside, every call of allocate_nat_port is one atomic step of NatTable,
\* for any number of workers, flows and ports.
THEOREM Implements == Spec => CallsAreAtomic
  <1> QED BY InvInit, InvStep, InitMaps, StepMaps, PTL DEF Spec, CallsAreAtomic, Abstract!NatSpec

-----------------------------------------------------------------------------
\* A call returns the port its flow has in the table, and never without one.
THEOREM ReturnsPort == Spec => ReturnsTheFlowsPort
  <1>1. IInv /\ [Next]_vars =>
          [\A w \in Worker : (~At(w, "outside") /\ At(w, "outside")') =>
             /\ call'[w].port # None
             /\ call'[w].port = nat_table'[call[w].key]]_vars
    <2> SUFFICES ASSUME IInv, Next, NEW w \in Worker,
                        ~At(w, "outside"), At(w, "outside")'
                 PROVE  call'[w].port # None /\ call'[w].port = nat_table'[call[w].key]
      OBVIOUS
    <2>0. call[w].pc # "outside" /\ call'[w].pc = "outside"
      BY DEF At
    <2>1. ASSUME NEW v \in Worker, NEW key \in Key, Call(v, key)
          PROVE  FALSE
      BY <2>0, <2>1, Types DEF Call, At, CallType
    <2>2. ASSUME NEW v \in Worker, Acquire(v) \/ ReadNextPort(v) \/ IncrementNextPort(v)
                                     \/ WrapNextPort(v) \/ WriteTable(v)
          PROVE  FALSE
      <3>1. CASE ReadNextPort(v)
        BY <2>0, <3>1, Types DEF ReadNextPort, CallType
      <3>2. CASE ~ReadNextPort(v)
        <4>1. \E pc \in Inner : call' = [call EXCEPT ![v].pc = pc]
          BY <2>2, <3>2
             DEF Acquire, IncrementNextPort, WrapNextPort, WriteTable, Goto, Inner
        <4> QED BY <2>0, <4>1, Types DEF Inner, CallType
      <3> QED BY <3>1, <3>2
    <2>3. ASSUME NEW v \in Worker, Found(v)
          PROVE  call'[w].port # None /\ call'[w].port = nat_table'[call[w].key]
      <3>1. v = w
        BY <2>0, <2>3, Types DEF Found, At, CallType
      <3> QED BY <2>3, <3>1, Types DEF Found, Returned
    <2>4. ASSUME NEW v \in Worker, WriteReverse(v)
          PROVE  call'[w].port # None /\ call'[w].port = nat_table'[call[w].key]
      <3>1. v = w
        BY <2>0, <2>4, Types DEF WriteReverse, At, CallType
      <3>2. call[w].port \in Port /\ nat_table[call[w].key] = call[w].port
        BY <2>4, <3>1 DEF WriteReverse, At, IInv, Allocated
      <3> QED BY <2>4, <3>1, <3>2, PortFacts, Types DEF WriteReverse, Returned
    <2> QED BY <2>1, <2>2, <2>3, <2>4 DEF Next, InCall
  <1> QED BY <1>1, InvInit, InvStep, PTL DEF Spec, ReturnsTheFlowsPort
=============================================================================
