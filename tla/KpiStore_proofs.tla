-------------------------- MODULE KpiStore_proofs --------------------------
(* Theorems about KpiStore, for any number of VNFs, probes, request        *)
(* threads, clients of a key, retries, posts and restarts, and for any     *)
(* timeout.                                                                *)
EXTENDS KpiStore, TLAPS

-----------------------------------------------------------------------------
(* The inductive invariants.                                               *)

\* While the reader fetches, its index is one of ReadOrder's.
ReaderInRange == reader.pc = "fetch" => reader.i \in 1..Len(ReadOrder)

\* The clock has passed the timeout: default timestamps are not negative.
ClockRuns == now > Timeout

TypeInv == TypeOK /\ ReaderInRange /\ ClockRuns

\* A stamp is never in the future.
StampsPast == \A s \in Source : lastStamp[s] <= now

\* The stamp a request carries is at most the latest one of its source.
PendingStamped ==
    \A h \in Handler : handler[h].pc = "write" =>
        handler[h].stamp <= lastStamp[Src(handler[h])]

\* A row with a reported value is not younger than the latest stamp.
RowsStamped ==
    \A k \in Key : (data[k] # NoRow /\ data[k].value # 0) =>
        data[k].ts <= lastStamp[k[2]]

\* What the reader holds so far was fresh.
FreshReads ==
    \A k \in Key : reader.got[k] # 0 => reader.at - lastStamp[k[2]] <= Timeout

FreshInv ==
    StampsPast /\ PendingStamped /\ RowsStamped /\ FreshReads

\* Requests carry, and rows hold, values that were posted.
ValuesPosted ==
    /\ \A h \in Handler : Busy(h) => handler[h].n <= Len(posted)
    /\ \A k \in Key : data[k] # NoRow => data[k].value <= Len(posted)

\* While a client waits for a request, it posts nothing else.
OvertakenAreAbandoned ==
    \A h \in Handler : (Busy(h) /\ handler[h].awaited) =>
        \A m \in 1..Len(posted) : m > handler[h].n => posted[m] # handler[h].client

OrderInv == ValuesPosted /\ OvertakenAreAbandoned

-----------------------------------------------------------------------------
(* Facts about the operators.                                              *)

\* The keys of a request are keys of its source.
LEMMA KeyOfSource ==
    ASSUME NEW s \in Source, NEW i \in 1..2
    PROVE  KeyOf(s, i) \in Key /\ KeyOf(s, i)[2] = s
  <1>1. CASE s \in Probe
    BY <1>1 DEF KeyOf, Key, Source
  <1>2. CASE s \notin Probe
    BY <1>2 DEF KeyOf, Key, Source
  <1> QED BY <1>1, <1>2

\* A key names one source.
LEMMA KeySource == \A k \in Key : k[2] \in Source
  BY DEF Key, Source

\* The reader always has something to fetch, and fetches only keys.
LEMMA ReadOrderKeys ==
    /\ Len(ReadOrder) \in Nat \ {0}
    /\ \A i \in 1..Len(ReadOrder) : ReadOrder[i] \in Key
  <1>1. Key # {}
    <2>1. PICK s \in Source : TRUE
      <3>1. PICK c \in Client : TRUE
        BY StoreAssumption
      <3> QED BY <3>1, StoreAssumption
    <2> QED BY <2>1, KeyOfSource
  <1>2. PICK k \in Key : TRUE
    BY <1>1
  <1>3. PICK i \in 1..Len(ReadOrder) : ReadOrder[i] = k
    BY <1>2, StoreAssumption
  <1>4. ReadOrder \in Seq(Key)
    BY StoreAssumption
  <1> QED BY <1>3, <1>4

\* A request reports for one source.
LEMMA SrcType ==
    ASSUME NEW r \in HandlerState
    PROVE  Src(r) \in Source
  BY StoreAssumption DEF Src, HandlerState

LEMMA IdleHandlerType == IdleHandler \in HandlerState
  BY StoreAssumption DEF IdleHandler, HandlerState

LEMMA ContinuedType ==
    ASSUME NEW r \in HandlerState
    PROVE  Continued(r) \in HandlerState
  <1>1. CASE r.i < KeyCount(Src(r))
    <2>1. r.i \in 1..2 /\ r.i + 1 \in 1..2
      BY <1>1 DEF KeyCount, HandlerState
    <2>2. [r EXCEPT !.pc = "stamp", !.i = @ + 1, !.stamp = 0] \in HandlerState
      BY <2>1 DEF HandlerState
    <2> QED BY <1>1, <2>2 DEF Continued
  <1>2. CASE ~(r.i < KeyCount(Src(r)))
    BY <1>2, IdleHandlerType DEF Continued
  <1> QED BY <1>1, <1>2

\* After a key, a handler holds no stamp, and keeps its request or drops it.
LEMMA ContinuedRequest ==
    ASSUME NEW r \in HandlerState
    PROVE  /\ Continued(r).pc # "write"
           /\ Continued(r).pc # "idle" =>
                /\ Continued(r).client = r.client
                /\ Continued(r).n = r.n
                /\ Continued(r).awaited = r.awaited
  BY DEF Continued, HandlerState, IdleHandler

LEMMA IdleReaderType == IdleReader \in ReaderState
  BY DEF IdleReader, ReaderState, Zeros

\* The default row is a row.
LEMMA DefaultRowType == (now \in Nat /\ now > Timeout) => DefaultRow \in Row
  BY StoreAssumption DEF DefaultRow, Row

-----------------------------------------------------------------------------
(* Type correctness.                                                       *)

LEMMA TypeInit == Init => TypeInv
  <1>1. IdleReader.pc # "fetch"
    BY DEF IdleReader
  <1>2. Timeout \in Nat
    BY StoreAssumption
  <1>3. ASSUME Init
        PROVE  TypeOK
    <2>1. up \in BOOLEAN
      BY <1>3 DEF Init
    <2>2. now \in Nat /\ restarts \in Nat
      BY <1>2, <1>3 DEF Init
    <2>3. data \in [Key -> Row \cup {NoRow}] /\ posted \in Seq(Client)
            /\ lastStamp \in [Source -> Nat]
      BY <1>3 DEF Init
    <2>4. handler \in [Handler -> HandlerState] /\ reader \in ReaderState
      BY <1>3, IdleHandlerType, IdleReaderType DEF Init
    <2> QED BY <2>1, <2>2, <2>3, <2>4 DEF TypeOK
  <1>4. ASSUME Init
        PROVE  ReaderInRange /\ ClockRuns
    BY <1>1, <1>2, <1>4 DEF Init, ReaderInRange, ClockRuns
  <1> QED BY <1>3, <1>4 DEF TypeInv

LEMMA TypeStep == TypeInv /\ [Next]_vars => TypeInv'
  <1> SUFFICES ASSUME TypeInv, [Next]_vars
               PROVE  TypeInv'
    OBVIOUS
  <1> USE DEF TypeInv, TypeOK, ReaderInRange, ClockRuns
  <1>1. ASSUME NEW h \in Handler, NEW c \in Client, Post(h, c)
        PROVE  TypeInv'
    <2>1. [pc |-> "stamp", client |-> c, n |-> Len(posted) + 1, i |-> 1,
           stamp |-> 0, awaited |-> TRUE] \in HandlerState
      BY DEF HandlerState
    <2>2. handler' \in [Handler -> HandlerState]
      BY <1>1, <2>1 DEF Post
    <2>3. posted' \in Seq(Client)
      BY <1>1 DEF Post
    <2> QED BY <1>1, <2>2, <2>3 DEF Post
  <1>17. ASSUME NEW h \in Handler, GiveUp(h)
         PROVE  TypeInv'
    <2>1. handler' \in [Handler -> HandlerState]
      BY <1>17 DEF GiveUp, HandlerState
    <2> QED BY <1>17, <2>1 DEF GiveUp
  <1>2. ASSUME NEW h \in Handler, TakeTimestamp(h)
        PROVE  TypeInv'
    <2>1. handler' \in [Handler -> HandlerState]
      BY <1>2 DEF TakeTimestamp, HandlerState
    <2> QED BY <1>2, <2>1 DEF TakeTimestamp
  <1>3. ASSUME NEW h \in Handler, NextKey(h)
        PROVE  handler' \in [Handler -> HandlerState]
    BY <1>3, ContinuedType DEF NextKey
  <1>4. ASSUME NEW h \in Handler, CommitRow(h)
        PROVE  TypeInv'
    <2>1. handler' \in [Handler -> HandlerState]
      BY <1>3, <1>4 DEF CommitRow
    <2>2. [value |-> handler[h].n, ts |-> handler[h].stamp] \in Row
      BY DEF HandlerState, Row
    <2> QED BY <1>4, <2>1, <2>2 DEF CommitRow
  <1>5. ASSUME NEW h \in Handler, DropRow(h)
        PROVE  TypeInv'
    BY <1>3, <1>5 DEF DropRow
  <1>6. ASSUME NEW h \in Handler, ConnectFails(h)
        PROVE  TypeInv'
    BY <1>6, IdleHandlerType DEF ConnectFails
  <1>7. ASSUME NEW a \in Nat, Attempt(a)
        PROVE  reader' \in ReaderState /\ reader'.i \in 1..Len(ReadOrder)
    BY <1>7, ReadOrderKeys DEF Attempt, ReaderState, Zeros
  <1>8. CASE ReadStart
    BY <1>7, <1>8 DEF ReadStart
  <1>9. CASE Fetch
    <2>1. ReadOrder[reader.i] \in Key
      BY <1>9, ReadOrderKeys DEF Fetch
    <2>2. Fetched(ReadOrder[reader.i]) \in Nat
      BY <2>1 DEF Fetched, Row
    <2> DEFINE got == [reader.got EXCEPT ![ReadOrder[reader.i]] =
                                          Fetched(ReadOrder[reader.i])]
               pc == IF reader.i = Len(ReadOrder) THEN "returned" ELSE "fetch"
    <2>3. reader' \in ReaderState
      <3>1. got \in [Key -> Nat]
        BY <2>1, <2>2 DEF ReaderState
      <3>2. reader' = [reader EXCEPT !.got = got, !.i = @ + 1, !.pc = pc]
        BY <1>9 DEF Fetch, ReaderState
      <3>3. pc \in {"returned", "fetch"} /\ reader.i + 1 \in Nat
        BY DEF ReaderState
      <3> HIDE DEF got, pc
      <3> QED BY <3>1, <3>2, <3>3 DEF ReaderState
    <2>4. reader'.pc = "fetch" => reader'.i \in 1..Len(ReadOrder)
      BY <1>9, ReadOrderKeys DEF Fetch, ReaderState
    <2> QED BY <1>9, <2>3, <2>4 DEF Fetch
  <1>10. CASE LockedRetry
    BY <1>10 DEF LockedRetry, ReaderState, Zeros
  <1>11. CASE RetryAfterSleep
    <2>1. reader.attempt + 1 \in Nat
      BY DEF ReaderState
    <2> QED BY <1>7, <1>11, <2>1 DEF RetryAfterSleep
  <1>12. CASE LockedExhausted \/ ReadError
    <2>1. reader' = [IdleReader EXCEPT !.pc = "raised"]
      BY <1>12 DEF LockedExhausted, ReadError
    <2>2. reader' \in ReaderState /\ reader'.pc # "fetch"
      BY <2>1, IdleReaderType DEF ReaderState
    <2> QED BY <1>12, <2>2 DEF LockedExhausted, ReadError
  <1>13. CASE initialize_kpi_database
    <2>1. \A k \in Key : InitialRow(k) \in Row \cup {NoRow}
      BY DefaultRowType DEF InitialRow
    <2> QED BY <1>13, <2>1 DEF initialize_kpi_database
  <1>14. CASE Crash
    <2>1. IdleReader.pc # "fetch"
      BY DEF IdleReader
    <2>2. up' \in BOOLEAN
      BY <1>14 DEF Crash
    <2>3. handler' \in [Handler -> HandlerState] /\ reader' = IdleReader
      BY <1>14, IdleHandlerType DEF Crash
    <2>4. restarts' \in Nat /\ UNCHANGED <<now, data, posted, lastStamp>>
      BY <1>14 DEF Crash
    <2> QED BY <2>1, <2>2, <2>3, <2>4, IdleReaderType
  <1>15. CASE Tick
    BY <1>15, StoreAssumption DEF Tick
  <1>16. CASE UNCHANGED vars
    BY <1>16 DEF vars
  <1> QED
    BY <1>1, <1>2, <1>4, <1>5, <1>6, <1>8, <1>9, <1>10, <1>11, <1>12, <1>13,
       <1>14, <1>15, <1>16, <1>17
    DEF Next, Request, Read

\* The variables keep their types, whatever the constants.
THEOREM TypeCorrect == Spec => []TypeOK
  <1>1. TypeInv => TypeOK
    BY DEF TypeInv
  <1> QED BY TypeInit, TypeStep, <1>1, PTL DEF Spec

-----------------------------------------------------------------------------
(* NonzeroMeansRecentlyAlive.                                              *)

LEMMA FreshInit == Init => FreshInv
  <1> SUFFICES ASSUME Init
               PROVE  FreshInv
    OBVIOUS
  <1>1. now \in Nat /\ now > 0
    BY StoreAssumption DEF Init
  <1>2. StampsPast
    BY <1>1 DEF Init, StampsPast
  <1>3. PendingStamped
    BY DEF Init, PendingStamped, IdleHandler
  <1>4. RowsStamped
    BY DEF Init, RowsStamped
  <1>5. FreshReads
    BY DEF Init, FreshReads, IdleReader, Zeros
  <1> QED BY <1>2, <1>3, <1>4, <1>5 DEF FreshInv

LEMMA FreshStep == TypeInv /\ TypeInv' /\ FreshInv /\ [Next]_vars => FreshInv'
  <1> SUFFICES ASSUME TypeInv, TypeInv', FreshInv, [Next]_vars
               PROVE  FreshInv'
    OBVIOUS
  <1> USE DEF FreshInv, StampsPast, PendingStamped, RowsStamped, FreshReads
  <1>a. /\ now \in Nat /\ now' \in Nat /\ Timeout \in Nat
        /\ data \in [Key -> Row \cup {NoRow}]
        /\ lastStamp \in [Source -> Nat]
        /\ handler \in [Handler -> HandlerState]
        /\ reader \in ReaderState
    BY StoreAssumption DEF TypeInv, TypeOK
  <1>b. ASSUME NEW h \in Handler
        PROVE  Src(handler[h]) \in Source /\ handler[h].stamp \in Nat
    BY <1>a, SrcType DEF HandlerState
  <1>1. ASSUME NEW h \in Handler, NEW c \in Client, Post(h, c)
        PROVE  FreshInv'
    BY <1>1, <1>a DEF Post
  <1>17. ASSUME NEW h \in Handler, GiveUp(h)
         PROVE  FreshInv'
    <2>1. \A g \in Handler : /\ handler'[g].pc = handler[g].pc
                             /\ handler'[g].stamp = handler[g].stamp
                             /\ Src(handler'[g]) = Src(handler[g])
      BY <1>17, <1>a DEF GiveUp, HandlerState, Src
    <2> QED BY <1>17, <2>1 DEF GiveUp
  <1>2. ASSUME NEW h \in Handler, TakeTimestamp(h)
        PROVE  FreshInv'
    <2> DEFINE src == Src(handler[h])
    <2>1. /\ \A s \in Source : lastStamp'[s] \in Nat /\ lastStamp'[s] >= lastStamp[s]
          /\ \A s \in Source : lastStamp'[s] <= now'
          /\ lastStamp'[src] = now
      BY <1>2, <1>a, <1>b DEF TakeTimestamp
    <2>2. PendingStamped'
      <3> SUFFICES ASSUME NEW g \in Handler, handler'[g].pc = "write"
                   PROVE  handler'[g].stamp <= lastStamp'[Src(handler'[g])]
        OBVIOUS
      <3>1. CASE g = h
        <4>1. handler'[h].stamp = now /\ Src(handler'[h]) = src
          BY <1>2, <1>a DEF TakeTimestamp, HandlerState, Src
        <4> QED BY <1>a, <2>1, <3>1, <4>1
      <3>2. CASE g # h
        <4>1. handler'[g] = handler[g]
          BY <1>2, <1>a, <3>2 DEF TakeTimestamp
        <4>2. Src(handler[g]) \in Source /\ handler[g].stamp \in Nat
          BY <1>b
        <4> QED BY <1>a, <2>1, <4>1, <4>2
      <3> QED BY <3>1, <3>2
    <2>3. RowsStamped'
      <3> SUFFICES ASSUME NEW k \in Key, data[k] # NoRow, data[k].value # 0
                   PROVE  data[k].ts <= lastStamp'[k[2]]
        BY <1>2 DEF TakeTimestamp
      <3>1. data[k].ts \in Nat /\ k[2] \in Source
        BY <1>a, KeySource DEF Row
      <3> QED BY <1>a, <2>1, <3>1
    <2>4. FreshReads'
      <3> SUFFICES ASSUME NEW k \in Key, reader.got[k] # 0
                   PROVE  reader.at - lastStamp'[k[2]] <= Timeout
        BY <1>2 DEF TakeTimestamp
      <3>1. reader.at \in Nat /\ k[2] \in Source
        BY <1>a, KeySource DEF ReaderState
      <3> QED BY <1>a, <2>1, <3>1
    <2> QED BY <2>1, <2>2, <2>3, <2>4
  <1>3. ASSUME NEW h \in Handler, NextKey(h), UNCHANGED lastStamp
        PROVE  PendingStamped'
    BY <1>3, <1>a, ContinuedRequest DEF NextKey
  <1>4. ASSUME NEW h \in Handler, CommitRow(h)
        PROVE  FreshInv'
    <2> DEFINE src == Src(handler[h])
               key == KeyOf(src, handler[h].i)
    <2>1. key \in Key /\ key[2] = src
      <3>1. src \in Source /\ handler[h].i \in 1..2
        BY <1>a, SrcType DEF HandlerState
      <3> QED BY <3>1, KeyOfSource
    <2>2. RowsStamped'
      <3> SUFFICES ASSUME NEW k \in Key, data'[k] # NoRow, data'[k].value # 0
                   PROVE  data'[k].ts <= lastStamp[k[2]]
        BY <1>4 DEF CommitRow
      <3>1. CASE k = key
        <4>1. data'[key].ts = handler[h].stamp
          BY <1>4, <1>a, <2>1 DEF CommitRow
        <4> QED BY <1>4, <2>1, <3>1, <4>1 DEF CommitRow
      <3>2. CASE k # key
        BY <1>4, <1>a, <3>2 DEF CommitRow
      <3> QED BY <3>1, <3>2
    <2> QED BY <1>3, <1>4, <2>2 DEF CommitRow
  <1>5. ASSUME NEW h \in Handler, DropRow(h)
        PROVE  FreshInv'
    BY <1>3, <1>5 DEF DropRow
  <1>6. ASSUME NEW h \in Handler, ConnectFails(h)
        PROVE  FreshInv'
    BY <1>6, <1>a DEF ConnectFails, IdleHandler
  <1>7. ASSUME NEW a, Attempt(a), UNCHANGED <<now, data, handler, lastStamp>>
        PROVE  FreshInv'
    BY <1>7 DEF Attempt, Zeros
  <1>8. CASE ReadStart
    BY <1>7, <1>8 DEF ReadStart
  <1>9. CASE Fetch
    <2> DEFINE key == ReadOrder[reader.i]
    <2>1. key \in Key /\ key[2] \in Source
      BY <1>9, ReadOrderKeys, KeySource DEF Fetch, TypeInv, ReaderInRange
    <2>2. /\ reader'.at = reader.at
          /\ \A k \in Key : reader'.got[k] = IF k = key THEN Fetched(key) ELSE reader.got[k]
      <3>1. reader.got \in [Key -> Nat]
        BY <1>a DEF ReaderState
      <3> QED BY <1>9, <1>a, <3>1 DEF Fetch, ReaderState
    <2>3. Fetched(key) # 0 => reader.at - lastStamp[key[2]] <= Timeout
      <3> SUFFICES ASSUME Fetched(key) # 0
                   PROVE  reader.at - lastStamp[key[2]] <= Timeout
        OBVIOUS
      <3>1. data[key] # NoRow /\ ~Stale(data[key]) /\ data[key].value # 0
        BY DEF Fetched
      <3>2. data[key].ts \in Nat /\ reader.at \in Nat /\ lastStamp[key[2]] \in Nat
        BY <1>a, <2>1, <3>1 DEF Row, ReaderState
      <3>3. data[key].ts <= lastStamp[key[2]]
        BY <2>1, <3>1
      <3> HIDE DEF key
      <3> QED BY <1>a, <3>1, <3>2, <3>3 DEF Stale
    <2>4. FreshReads'
      <3> HIDE DEF key
      <3> QED BY <1>9, <2>1, <2>2, <2>3 DEF Fetch
    <2> QED BY <1>9, <2>4 DEF Fetch
  <1>10. CASE LockedRetry
    BY <1>10, <1>a DEF LockedRetry, Zeros, ReaderState
  <1>11. CASE RetryAfterSleep
    BY <1>7, <1>11 DEF RetryAfterSleep
  <1>12. CASE LockedExhausted \/ ReadError
    BY <1>12 DEF LockedExhausted, ReadError, IdleReader, Zeros
  <1>13. CASE initialize_kpi_database
    <2>1. \A k \in Key : data'[k] = data[k] \/ data'[k].value = 0
      BY <1>13 DEF initialize_kpi_database, InitialRow, DefaultRow
    <2> QED BY <1>13, <2>1 DEF initialize_kpi_database
  <1>14. CASE Crash
    BY <1>14 DEF Crash, IdleHandler, IdleReader, Zeros
  <1>15. CASE Tick
    BY <1>15, <1>a DEF Tick
  <1>16. CASE UNCHANGED vars
    BY <1>16 DEF vars
  <1> QED
    BY <1>1, <1>2, <1>4, <1>5, <1>6, <1>8, <1>9, <1>10, <1>11, <1>12, <1>13,
       <1>14, <1>15, <1>16, <1>17
    DEF Next, Request, Read

\* Whatever the interleaving of requests, fetches, retries and restarts, a
\* value other than '0' comes from a source that reported within Timeout.
THEOREM RecentlyAlive == Spec => []NonzeroMeansRecentlyAlive
  <1>1. FreshInv => NonzeroMeansRecentlyAlive
    BY DEF FreshInv, FreshReads, NonzeroMeansRecentlyAlive
  <1> QED BY TypeInit, TypeStep, FreshInit, FreshStep, <1>1, PTL DEF Spec

-----------------------------------------------------------------------------
(* OnlyAbandonedRequestsRegress.                                           *)

LEMMA OrderInit == Init => OrderInv
  BY DEF Init, OrderInv, ValuesPosted, OvertakenAreAbandoned, Busy, IdleHandler

\* A step that ends requests or moves them on, and posts nothing, keeps OrderInv
\* as long as the table's new values were posted.
LEMMA OrderKept ==
    ASSUME OrderInv, UNCHANGED posted,
           \A h \in Handler :
              Busy(h)' => /\ Busy(h)
                          /\ handler'[h].client = handler[h].client
                          /\ handler'[h].n = handler[h].n
                          /\ handler'[h].awaited => handler[h].awaited,
           \A k \in Key : data'[k] # NoRow => data'[k].value <= Len(posted)
    PROVE  OrderInv'
  <1>1. ValuesPosted'
    BY DEF OrderInv, ValuesPosted
  <1>2. OvertakenAreAbandoned'
    BY DEF OrderInv, OvertakenAreAbandoned
  <1> QED BY <1>1, <1>2 DEF OrderInv

\* A POST is numbered after all those before it.
LEMMA PostNumbers ==
    ASSUME posted \in Seq(Client), NEW c \in Client, posted' = Append(posted, c)
    PROVE  /\ Len(posted) \in Nat
           /\ Len(posted') = Len(posted) + 1
           /\ posted'[Len(posted) + 1] = c
           /\ \A m \in 1..Len(posted) : posted'[m] = posted[m]
  OBVIOUS

LEMMA OrderStep == TypeInv /\ OrderInv /\ [Next]_vars => OrderInv'
  <1> SUFFICES ASSUME TypeInv, OrderInv, [Next]_vars
               PROVE  OrderInv'
    OBVIOUS
  <1>a. /\ data \in [Key -> Row \cup {NoRow}]
        /\ posted \in Seq(Client)
        /\ handler \in [Handler -> HandlerState]
    BY DEF TypeInv, TypeOK
  <1>b. \A k \in Key : data[k] # NoRow => data[k].value <= Len(posted)
    BY DEF OrderInv, ValuesPosted
  <1>1. ASSUME NEW h \in Handler, NEW c \in Client, Post(h, c)
        PROVE  OrderInv'
    <2>1. /\ Len(posted) \in Nat
          /\ Len(posted') = Len(posted) + 1
          /\ posted'[Len(posted) + 1] = c
          /\ \A m \in 1..Len(posted) : posted'[m] = posted[m]
      <3>1. posted' = Append(posted, c)
        BY <1>1 DEF Post
      <3> QED BY ONLY <1>a, <3>1, PostNumbers
    <2>2. handler'[h].client = c /\ handler'[h].n = Len(posted) + 1
      BY <1>1, <1>a DEF Post
    <2>3. \A g \in Handler : g # h => handler'[g] = handler[g]
      BY <1>1, <1>a DEF Post
    <2>4. \A g \in Handler : handler[g].n \in Nat
      BY <1>a DEF HandlerState
    <2>5. ValuesPosted'
      <3>1. ASSUME NEW k \in Key, data[k] # NoRow
            PROVE  data[k].value <= Len(posted')
        <4>1. data[k].value \in Nat
          BY <1>a, <3>1 DEF Row
        <4> QED BY <1>b, <2>1, <3>1, <4>1
      <3>2. ASSUME NEW g \in Handler, Busy(g)'
            PROVE  handler'[g].n <= Len(posted')
        <4>1. CASE g = h
          BY <2>1, <2>2, <4>1
        <4>2. CASE g # h
          <5>1. handler[g].n <= Len(posted)
            BY <2>3, <3>2, <4>2 DEF OrderInv, ValuesPosted, Busy
          <5> QED BY <2>1, <2>3, <2>4, <4>2, <5>1
        <4> QED BY <4>1, <4>2
      <3> QED BY <1>1, <3>1, <3>2 DEF ValuesPosted, Post
    <2>6. OvertakenAreAbandoned'
      <3> SUFFICES ASSUME NEW g \in Handler, Busy(g)', handler'[g].awaited,
                          NEW m \in 1..Len(posted'), m > handler'[g].n
                   PROVE  posted'[m] # handler'[g].client
        BY DEF OvertakenAreAbandoned
      <3>1. g # h
        BY <2>1, <2>2
      <3>2. handler'[g] = handler[g] /\ Busy(g)
        BY <2>3, <3>1 DEF Busy
      <3>3. CASE m = Len(posted) + 1
        BY <1>1, <2>1, <3>2, <3>3 DEF Post, MayPost, InFlight
      <3>4. CASE m # Len(posted) + 1
        <4>1. m \in 1..Len(posted)
          BY <2>1, <3>4
        <4>2. posted'[m] = posted[m]
          BY <2>1, <4>1
        <4> QED BY <3>2, <4>1, <4>2 DEF OrderInv, OvertakenAreAbandoned
      <3> QED BY <3>3, <3>4
    <2> QED BY <2>5, <2>6 DEF OrderInv
  <1>2. ASSUME NEW h \in Handler, TakeTimestamp(h)
        PROVE  OrderInv'
    <2>1. \A g \in Handler : /\ handler'[g].client = handler[g].client
                             /\ handler'[g].n = handler[g].n
                             /\ handler'[g].awaited = handler[g].awaited
                             /\ Busy(g)' <=> Busy(g)
      BY <1>2, <1>a DEF TakeTimestamp, HandlerState, Busy
    <2> QED BY <1>2, <1>b, <2>1, OrderKept DEF TakeTimestamp
  <1>13. ASSUME NEW h \in Handler, GiveUp(h)
         PROVE  OrderInv'
    <2>1. \A g \in Handler : /\ handler'[g].client = handler[g].client
                             /\ handler'[g].n = handler[g].n
                             /\ handler'[g].awaited => handler[g].awaited
                             /\ Busy(g)' <=> Busy(g)
      BY <1>13, <1>a DEF GiveUp, HandlerState, Busy
    <2> QED BY <1>13, <1>b, <2>1, OrderKept DEF GiveUp
  <1>3. ASSUME NEW h \in Handler, handler[h].pc = "write", NextKey(h), NEW g \in Handler, Busy(g)'
        PROVE  /\ Busy(g)
               /\ handler'[g].client = handler[g].client
               /\ handler'[g].n = handler[g].n
               /\ handler'[g].awaited => handler[g].awaited
    <2>1. CASE g = h
      BY <1>3, <1>a, <2>1, ContinuedRequest DEF NextKey, Busy
    <2>2. CASE g # h
      BY <1>3, <1>a, <2>2 DEF NextKey, Busy
    <2> QED BY <2>1, <2>2
  <1>4. ASSUME NEW h \in Handler, CommitRow(h)
        PROVE  OrderInv'
    <2> DEFINE key == KeyOf(Src(handler[h]), handler[h].i)
    <2>1. key \in Key
      <3>1. Src(handler[h]) \in Source /\ handler[h].i \in 1..2
        BY <1>a, SrcType DEF HandlerState
      <3> QED BY <3>1, KeyOfSource
    <2>2. handler[h].n <= Len(posted)
      BY <1>4 DEF OrderInv, ValuesPosted, Busy, CommitRow
    <2>3. \A k \in Key : data'[k] # NoRow => data'[k].value <= Len(posted)
      <3> SUFFICES ASSUME NEW k \in Key, data'[k] # NoRow
                   PROVE  data'[k].value <= Len(posted)
        OBVIOUS
      <3>1. CASE k = key
        BY <1>4, <1>a, <2>1, <2>2, <3>1 DEF CommitRow
      <3>2. CASE k # key
        BY <1>4, <1>a, <1>b, <3>2 DEF CommitRow
      <3> QED BY <3>1, <3>2
    <2> QED BY <1>3, <1>4, <2>3, OrderKept DEF CommitRow
  <1>5. ASSUME NEW h \in Handler, DropRow(h)
        PROVE  OrderInv'
    BY <1>3, <1>5, <1>b, OrderKept DEF DropRow
  <1>6. ASSUME NEW h \in Handler, ConnectFails(h)
        PROVE  OrderInv'
    <2>1. \A g \in Handler : Busy(g)' => Busy(g) /\ handler'[g] = handler[g]
      BY <1>6, <1>a DEF ConnectFails, Busy, IdleHandler
    <2> QED BY <1>6, <1>b, <2>1, OrderKept DEF ConnectFails
  <1>7. ASSUME UNCHANGED <<data, handler, posted>>
        PROVE  OrderInv'
    BY <1>7, <1>b, OrderKept DEF Busy
  <1>8. CASE Read
    BY <1>7, <1>8
    DEF Read, ReadStart, Fetch, LockedRetry, RetryAfterSleep, LockedExhausted, ReadError
  <1>9. CASE initialize_kpi_database
    <2>1. \A k \in Key : data'[k] # NoRow => data'[k].value <= Len(posted)
      <3> SUFFICES ASSUME NEW k \in Key
                   PROVE  InitialRow(k) # NoRow => InitialRow(k).value <= Len(posted)
        BY <1>9 DEF initialize_kpi_database
      <3>1. Len(posted) \in Nat
        BY <1>a
      <3> QED BY <1>b, <3>1 DEF InitialRow, DefaultRow
    <2> QED BY <1>9, <2>1, OrderKept DEF initialize_kpi_database, Busy
  <1>10. CASE Crash
    BY <1>10, <1>b, OrderKept DEF Crash, Busy, IdleHandler
  <1>11. CASE Tick
    BY <1>11, <1>b, OrderKept DEF Tick, Busy
  <1>12. CASE UNCHANGED vars
    BY <1>7, <1>12 DEF vars
  <1> QED
    BY <1>1, <1>2, <1>4, <1>5, <1>6, <1>8, <1>9, <1>10, <1>11, <1>12, <1>13
    DEF Next, Request

\* No step of any interleaving replaces a KPI by the value of an earlier
\* report, except that of a request whose client no longer waits for it, or one
\* that overwrites the report of another client of the same key.
THEOREM NoOtherRegress == Spec => OnlyAbandonedRequestsRegress
  <1> DEFINE Regress(k) == data[k] # NoRow /\ data'[k].value < data[k].value
             Late(k) == \E h \in Handler :
                          /\ handler[h].n = data'[k].value
                          /\ \/ ~handler[h].awaited
                             \/ handler[h].client # posted[data[k].value]
  <1>1. ASSUME TypeInv, OrderInv, [Next]_vars, NEW k \in Key, Regress(k)
        PROVE  Late(k)
    <2>a. /\ data \in [Key -> Row \cup {NoRow}]
          /\ posted \in Seq(Client)
          /\ handler \in [Handler -> HandlerState]
      BY <1>1 DEF TypeInv, TypeOK
    <2>b. /\ data[k].value \in Nat
          /\ data[k].value <= Len(posted)
          /\ Len(posted) \in Nat
      BY <1>1, <2>a DEF Row, OrderInv, ValuesPosted
    <2>1. ASSUME NEW h \in Handler, CommitRow(h)
          PROVE  Late(k)
      <3> DEFINE key == KeyOf(Src(handler[h]), handler[h].i)
      <3>1. key \in Key
        <4>1. Src(handler[h]) \in Source /\ handler[h].i \in 1..2
          BY <2>a, SrcType DEF HandlerState
        <4> QED BY <4>1, KeyOfSource
      <3>2. k = key
        BY <1>1, <2>1, <2>a, <2>b DEF CommitRow
      <3>3. data'[k].value = handler[h].n
        BY <2>1, <2>a, <3>1, <3>2 DEF CommitRow
      <3>4. handler[h].n \in Nat
        BY <2>a DEF HandlerState
      <3>5. data[k].value \in 1..Len(posted) /\ data[k].value > handler[h].n
        BY <1>1, <2>b, <3>3, <3>4
      <3>6. handler[h].awaited => posted[data[k].value] # handler[h].client
        BY <1>1, <2>1, <3>5 DEF OrderInv, OvertakenAreAbandoned, Busy, CommitRow
      <3> HIDE DEF key
      <3> QED BY <3>3, <3>6
    <2>2. CASE initialize_kpi_database
      BY <1>1, <2>2, <2>b DEF initialize_kpi_database, InitialRow
    <2>3. CASE UNCHANGED data
      BY <1>1, <2>3, <2>b
    <2> QED
      BY <1>1, <2>1, <2>2, <2>3
      DEF Next, vars, Request, Post, GiveUp, TakeTimestamp, DropRow, ConnectFails,
          Read, ReadStart, Fetch, LockedRetry, RetryAfterSleep, LockedExhausted,
          ReadError, Crash, Tick
  <1>2. TypeInv /\ OrderInv /\ [Next]_vars
          => [\A k \in Key : Regress(k) => Late(k)]_vars
    BY <1>1
  <1> QED
    BY TypeInit, TypeStep, OrderInit, OrderStep, <1>2, PTL
    DEF Spec, OnlyAbandonedRequestsRegress

=============================================================================
