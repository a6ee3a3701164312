------------------------------ MODULE KpiStore ------------------------------
(***************************************************************************)
(* The shared KPI table of the performance monitor                         *)
(* (vnf-performance-monitor/Monitor_performance_VNF.py).                    *)
(*                                                                         *)
(* VNFs and the two traffic orchestrators POST their measurements to a     *)
(* multi-threaded Flask server; the orchestrators share one URL and key,   *)
(* transmission_rate, and know nothing of each other.  Each request thread *)
(* stores the values of its request, one INSERT OR REPLACE per key, in the *)
(* SQLite file shared_data_temp_top2.db.  Once per logging cycle           *)
(* read_from_database fetches every key, one SELECT per key, and turns a   *)
(* row older than TIMEOUT_SECONDS into '0': "VNF is considered crashed".   *)
(* The file outlives the monitor's process.                                *)
(*                                                                         *)
(* Time is a discrete clock.  A value is the number of the POST that       *)
(* carried it, all clients counted together; 0 is the '0' of the code.     *)
(* SQLite's file lock makes every commit and every SELECT atomic; a        *)
(* statement that meets a locked file waits (any number of other steps may *)
(* come first) or fails.                                                   *)
(***************************************************************************)
EXTENDS Integers, Sequences

CONSTANTS
    Vnf,            \* sources that post processing_delay and traffic_rate_mbps
    Probe,          \* sources that post one value: average_rtt, transmission_rate
    Client,         \* processes that post: the VNFs, the two orchestrators
    Reports,        \* the source each client reports for
    Handler,        \* Flask request threads
    ReadOrder,      \* the keys in the order read_from_database fetches them
    NoRow,          \* "the table has no row for this key"
    Timeout,        \* TIMEOUT_SECONDS
    MaxRetries,     \* max_retries of read_from_database
    MaxTime,        \* bound: last value of the clock
    Horizon,        \* bound: no POST arrives after this time
    MaxPosts,       \* bound: POSTs of all clients together
    MaxRestarts     \* bound: crashes of the monitor's process

Source == Vnf \cup Probe

Key == ({"processing_delay", "traffic_rate"} \X Vnf) \cup ({"value"} \X Probe)

ASSUME StoreAssumption ==
    /\ Vnf \cap Probe = {}
    /\ Client # {}
    /\ Reports \in [Client -> Source]
    /\ Timeout \in Nat
    /\ MaxRetries \in Nat \ {0}
    /\ MaxTime \in Nat /\ Horizon \in Nat
    /\ MaxPosts \in Nat /\ MaxRestarts \in Nat
    /\ ReadOrder \in Seq(Key)
    /\ \A k \in Key : \E i \in 1..Len(ReadOrder) : ReadOrder[i] = k
    /\ NoRow \notin [value : Nat, ts : Nat]

VARIABLES
    now,        \* the clock, time.time()
    up,         \* is the monitor's process running?
    restarts,   \* crashes so far
    data,       \* the table: key |-> row or NoRow
    handler,    \* request threads
    posted,     \* the clients of the POSTs sent so far, in order
    reader,     \* the thread inside read_from_database
    lastStamp   \* history: last time.time() taken for a report of each source

vars == <<now, up, restarts, data, handler, posted, reader, lastStamp>>

-----------------------------------------------------------------------------
(* Data                                                                    *)

Row == [value : Nat, ts : Nat]

\* The i-th key a request of source s stores.
KeyOf(s, i) ==
    IF s \in Probe THEN <<"value", s>>
    ELSE IF i = 1 THEN <<"processing_delay", s>>
    ELSE <<"traffic_rate", s>>

KeyCount(s) == IF s \in Vnf THEN 2 ELSE 1

HandlerState ==
    [pc : {"idle", "stamp", "write"}, client : Client, n : Nat, i : 1..2,
     stamp : Nat, awaited : BOOLEAN]

IdleHandler ==
    [pc |-> "idle", client |-> CHOOSE c \in Client : TRUE, n |-> 0, i |-> 1,
     stamp |-> 0, awaited |-> FALSE]

ReaderState ==
    [pc : {"idle", "fetch", "sleep", "returned", "raised"},
     attempt : Nat, at : Nat, i : Nat, got : [Key -> Nat]]

Zeros == [k \in Key |-> 0]

IdleReader == [pc |-> "idle", attempt |-> 0, at |-> 0, i |-> 1, got |-> Zeros]

Busy(h) == handler[h].pc # "idle"

\* The source a request reports for.
Src(r) == Reports[r.client]

InFlight(c) == {h \in Handler : Busy(h) /\ handler[h].client = c}

-----------------------------------------------------------------------------
(* Requests: the kpi_* handlers and update_database                        *)

\* Mutant: the client does not wait for its outstanding request.
MayPostAnyTime(c) == TRUE

\* A client posts from one thread, which waits for each request's answer; it
\* does not wait for other clients of the same key.
MayPost(c) == \A h \in InFlight(c) : ~handler[h].awaited

\* A client sends a request, which waits for a Flask thread to take it up.
Post(h, c) ==
    /\ up
    /\ ~Busy(h)
    /\ MayPost(c)
    /\ Len(posted) < MaxPosts
    /\ now <= Horizon
    /\ posted' = Append(posted, c)
    /\ handler' = [handler EXCEPT ![h] =
                     [pc |-> "stamp", client |-> c, n |-> Len(posted) + 1,
                      i |-> 1, stamp |-> 0, awaited |-> TRUE]]
    /\ UNCHANGED <<now, up, restarts, data, reader, lastStamp>>

\* The client gives its request up: requests.post reached its timeout, which
\* runs from the sending on, or the client's process ended (a new one posts
\* as soon as it starts).  The monitor's thread serves the request all the same.
GiveUp(h) ==
    /\ Busy(h)
    /\ handler[h].awaited
    /\ handler' = [handler EXCEPT ![h].awaited = FALSE]
    /\ UNCHANGED <<now, up, restarts, data, posted, reader, lastStamp>>

\* time.time() is evaluated for the INSERT before SQLite's lock is acquired.
TakeTimestamp(h) ==
    /\ handler[h].pc = "stamp"
    /\ handler' = [handler EXCEPT ![h].pc = "write", ![h].stamp = now]
    /\ lastStamp' = [lastStamp EXCEPT ![Src(handler[h])] = now]
    /\ UNCHANGED <<now, up, restarts, data, posted, reader>>

\* Mutant: nothing ends the handler after its last key.
NeverAnswered(r) == [r EXCEPT !.pc = "stamp", !.i = @ + 1, !.stamp = 0]

\* The handler goes on to its next key, or answers "success".
Continued(r) ==
    IF r.i < KeyCount(Src(r))
    THEN [r EXCEPT !.pc = "stamp", !.i = @ + 1, !.stamp = 0]
    ELSE IdleHandler

NextKey(h) == handler' = [handler EXCEPT ![h] = Continued(@)]

CommitRow(h) ==
    /\ handler[h].pc = "write"
    /\ data' = [data EXCEPT ![KeyOf(Src(handler[h]), handler[h].i)] =
                  [value |-> handler[h].n, ts |-> handler[h].stamp]]
    /\ NextKey(h)
    /\ UNCHANGED <<now, up, restarts, posted, reader, lastStamp>>

\* sqlite3.OperationalError is printed and swallowed: the row is not written.
DropRow(h) ==
    /\ handler[h].pc = "write"
    /\ NextKey(h)
    /\ UNCHANGED <<now, up, restarts, data, posted, reader, lastStamp>>

\* sqlite3.connect is outside the try: it aborts the request with an error.
ConnectFails(h) ==
    /\ handler[h].pc = "stamp"
    /\ handler' = [handler EXCEPT ![h] = IdleHandler]
    /\ UNCHANGED <<now, up, restarts, data, posted, reader, lastStamp>>

-----------------------------------------------------------------------------
(* read_from_database, called once per logging cycle                       *)

\* Start of an attempt: current_time is read once, before the SELECTs.
Attempt(a) ==
    reader' = [pc |-> "fetch", attempt |-> a, at |-> now, i |-> 1, got |-> Zeros]

ReadStart ==
    /\ up
    /\ reader.pc \in {"idle", "returned", "raised"}
    /\ Attempt(0)
    /\ UNCHANGED <<now, up, restarts, data, handler, posted, lastStamp>>

\* Mutant: the age is never compared with the timeout.
NeverStale(row) == FALSE

Stale(row) == reader.at - row.ts > Timeout

\* safe_fetch_with_timeout for one key: '0' when there is no row or it is stale.
Fetched(k) ==
    IF data[k] = NoRow THEN 0
    ELSE IF Stale(data[k]) THEN 0
    ELSE data[k].value

Fetch ==
    /\ reader.pc = "fetch"
    /\ reader' = [reader EXCEPT
                    !.got[ReadOrder[reader.i]] = Fetched(ReadOrder[reader.i]),
                    !.i = @ + 1,
                    !.pc = IF reader.i = Len(ReadOrder) THEN "returned" ELSE "fetch"]
    /\ UNCHANGED <<now, up, restarts, data, handler, posted, lastStamp>>

\* "database is locked" and an attempt is left: sleep, then start over.
LockedRetry ==
    /\ reader.pc = "fetch"
    /\ reader.attempt < MaxRetries - 1
    /\ reader' = [reader EXCEPT !.pc = "sleep", !.got = Zeros]
    /\ UNCHANGED <<now, up, restarts, data, handler, posted, lastStamp>>

\* Mutant: the retry does not count.
RetryWithoutCounting ==
    /\ reader.pc = "sleep"
    /\ Attempt(reader.attempt)
    /\ UNCHANGED <<now, up, restarts, data, handler, posted, lastStamp>>

RetryAfterSleep ==
    /\ reader.pc = "sleep"
    /\ Attempt(reader.attempt + 1)
    /\ UNCHANGED <<now, up, restarts, data, handler, posted, lastStamp>>

\* "database is locked" on the last attempt: raise.
LockedExhausted ==
    /\ reader.pc = "fetch"
    /\ reader.attempt = MaxRetries - 1
    /\ reader' = [IdleReader EXCEPT !.pc = "raised"]
    /\ UNCHANGED <<now, up, restarts, data, handler, posted, lastStamp>>

\* Any other exception is raised at once; the logging loop writes no record.
ReadError ==
    /\ reader.pc = "fetch"
    /\ reader' = [IdleReader EXCEPT !.pc = "raised"]
    /\ UNCHANGED <<now, up, restarts, data, handler, posted, lastStamp>>

-----------------------------------------------------------------------------
(* Process: start, crash, time                                             *)

\* INSERT OR IGNORE: a key that already has a row keeps it.
DefaultRow == [value |-> 0, ts |-> now - (Timeout + 1)]

InitialRow(k) == IF data[k] = NoRow THEN DefaultRow ELSE data[k]

initialize_kpi_database ==
    /\ ~up
    /\ up' = TRUE
    /\ data' = [k \in Key |-> InitialRow(k)]
    /\ UNCHANGED <<now, restarts, handler, posted, reader, lastStamp>>

\* The monitor's process dies: its threads go, the file stays.
Crash ==
    /\ up
    /\ restarts < MaxRestarts
    /\ up' = FALSE
    /\ restarts' = restarts + 1
    /\ handler' = [h \in Handler |-> IdleHandler]
    /\ reader' = IdleReader
    /\ UNCHANGED <<now, data, posted, lastStamp>>

\* After Horizon the clock waits for the requests still in progress, so that
\* the remaining ticks let every row outlive the timeout.
Tick ==
    /\ now < MaxTime
    /\ now >= Horizon => \A h \in Handler : ~Busy(h)
    /\ now' = now + 1
    /\ UNCHANGED <<up, restarts, data, handler, posted, reader, lastStamp>>

-----------------------------------------------------------------------------
Init ==
    /\ now = Timeout + 1
    /\ up = FALSE
    /\ restarts = 0
    /\ data = [k \in Key |-> NoRow]
    /\ handler = [h \in Handler |-> IdleHandler]
    /\ posted = <<>>
    /\ reader = IdleReader
    /\ lastStamp = [s \in Source |-> 0]

Request(h) == TakeTimestamp(h) \/ CommitRow(h) \/ DropRow(h) \/ ConnectFails(h)

Read ==
    ReadStart \/ Fetch \/ LockedRetry \/ RetryAfterSleep \/ LockedExhausted \/ ReadError

Next ==
    \/ \E h \in Handler, c \in Client : Post(h, c)
    \/ \E h \in Handler : GiveUp(h)
    \/ \E h \in Handler : Request(h)
    \/ Read
    \/ initialize_kpi_database
    \/ Crash
    \/ Tick

Spec == Init /\ [][Next]_vars

\* Threads run, a crashed monitor is started again, and time passes.  Nothing
\* is assumed of the clients: one may fall silent, or give up, at any time.
Fairness ==
    /\ \A h \in Handler : WF_vars(Request(h))
    /\ WF_vars(Read)
    /\ WF_vars(initialize_kpi_database)
    /\ WF_vars(Tick)

FairSpec == Spec /\ Fairness

-----------------------------------------------------------------------------
(* Properties                                                              *)

TypeOK ==
    /\ now \in Nat
    /\ up \in BOOLEAN
    /\ restarts \in Nat
    /\ data \in [Key -> Row \cup {NoRow}]
    /\ handler \in [Handler -> HandlerState]
    /\ posted \in Seq(Client)
    /\ reader \in ReaderState
    /\ lastStamp \in [Source -> Nat]

\* A value other than '0' in what read_from_database returns means that the
\* source was alive: the monitor was handling a report of it at most Timeout
\* before the attempt's current_time, whatever requests, retries and restarts
\* of the monitor came in between.
NonzeroMeansRecentlyAlive ==
    reader.pc = "returned" =>
        \A k \in Key : reader.got[k] # 0 => reader.at - lastStamp[k[2]] <= Timeout

\* A stored KPI is replaced by the value of an earlier report in two cases
\* only: the client of the earlier report no longer waits for it, because it
\* timed out or was restarted, or the report it overwrites is another client's,
\* as that of the other orchestrator.
OnlyAbandonedRequestsRegress ==
    [][\A k \in Key :
         (data[k] # NoRow /\ data'[k].value < data[k].value) =>
            \E h \in Handler :
              /\ handler[h].n = data'[k].value
              /\ \/ ~handler[h].awaited
                 \/ handler[h].client # posted[data[k].value]]_vars

\* Every call of read_from_database ends, with values or with an exception.
ReadTerminates ==
    (reader.pc \in {"fetch", "sleep"}) ~> (reader.pc \notin {"fetch", "sleep"})

\* Once the reports stop for good, what the monitor reads settles at '0' for
\* every key.
SilenceReadsZero ==
    <>[](reader.pc = "returned" => reader.got = Zeros)

\* README: "All incoming metrics are written to a local SQLite database".  A
\* request that has taken its timestamp leaves its value in the table.
IncomingMetricIsWritten ==
    [][\A h \in Handler :
         (handler[h].pc = "write" /\ handler'[h].pc # "write" /\ up') =>
            LET k == KeyOf(Src(handler[h]), handler[h].i)
            IN  data'[k] # NoRow /\ data'[k].value = handler[h].n]_vars

\* Comment of initialize_kpi_database: "old timestamp so they'll be considered
\* stale until first update".  After the initialization every row is stale.
StaleUntilFirstUpdate ==
    [][(~up /\ up') => \A k \in Key : now - data'[k].ts > Timeout]_vars
=============================================================================
