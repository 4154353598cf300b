---------------------------- MODULE AuthLimiter ----------------------------
(***************************************************************************)
(* AuthLimiter of internal/middleware/auth_limits.go: a table of fixed     *)
(* windows, one for each route and peer, of bounded size, behind a mutex.  *)
(* A request reads the clock before it has the mutex, so that it may enter *)
(* with a time that is past when others have entered with later ones.      *)
(***************************************************************************)
EXTENDS Integers, FiniteSets

CONSTANTS
  Requests,  \* requests in progress at the same time
  Keys,      \* route and peer address
  Capacity,  \* 4096
  Limit,     \* 10 logins or 3 registrations
  Window,    \* a minute
  MaxTime    \* bound on the clock

VARIABLES
  entries,  \* entries[k]: count and until, count 0 when there is none
  time,     \* time.Now()
  waiting,  \* waiting[r]: the key and time of a request that waits for the mutex
  passed    \* passed[k][u]: the requests of k let through and counted to a window that ends at u

vars == <<entries, time, waiting, passed>>

NoEntry == [count |-> 0, until |-> 0]
NoRequest == [phase |-> "idle"]

Live(table) == {k \in Keys : table[k] # NoEntry}
Ends == 0 .. MaxTime + Window

Init ==
  /\ entries = [k \in Keys |-> NoEntry]
  /\ time = 0
  /\ waiting = [r \in Requests |-> NoRequest]
  /\ passed = [k \in Keys |-> [u \in Ends |-> 0]]

\* now is read, then the mutex asked for.
Arrive(r) ==
  /\ waiting[r] = NoRequest
  /\ \E k \in Keys : waiting' = [waiting EXCEPT ![r] = [phase |-> "waiting", key |-> k, now |-> time]]
  /\ UNCHANGED <<entries, time, passed>>
----------------------------------------------------------------------------
(***************************************************************************)
(* Under the mutex                                                         *)
(***************************************************************************)
\* The own window, when it is over, ...
WithoutOwn(k, now) == IF now >= entries[k].until THEN [entries EXCEPT ![k] = NoEntry] ELSE entries

\* A slip: a full table stays full.
WithoutExpiredOwnOnly(k, now) == WithoutOwn(k, now)

\* ... and, for a new key when the table is full, the others that are over.
WithoutExpired(k, now) ==
  LET table == WithoutOwn(k, now)
  IN  IF table[k] = NoEntry /\ Cardinality(Live(table)) >= Capacity
      THEN [j \in Keys |-> IF now >= table[j].until THEN NoEntry ELSE table[j]]
      ELSE table

Full(k, table) == table[k] = NoEntry /\ Cardinality(Live(table)) >= Capacity

\* A slip: the request that is counted last passes although it is one too many.
BlockedLate(count) == count > Limit + 1

Blocked(count) == count > Limit

\* The count stops just above the limit.
Counted(k, now, table) ==
  LET entry == IF table[k] = NoEntry THEN [count |-> 0, until |-> now + Window] ELSE table[k]
  IN  IF entry.count <= Limit THEN [entry EXCEPT !.count = @ + 1] ELSE entry

Admitted(k, now, table) == ~ Full(k, table) /\ ~ Blocked(Counted(k, now, table).count)
Refused(k, now) == ~ Admitted(k, now, WithoutExpired(k, now))

\* A request that is refused is counted all the same, unless there is no room to count it.
TooMany(r) ==
  /\ waiting[r] # NoRequest
  /\ LET k == waiting[r].key
         now == waiting[r].now
         table == WithoutExpired(k, now)
     IN  /\ Refused(k, now)
         /\ entries' = IF Full(k, table) THEN table ELSE [table EXCEPT ![k] = Counted(k, now, table)]
  /\ waiting' = [waiting EXCEPT ![r] = NoRequest]
  /\ UNCHANGED <<time, passed>>

Pass(r) ==
  /\ waiting[r] # NoRequest
  /\ LET k == waiting[r].key
         now == waiting[r].now
         table == WithoutExpired(k, now)
         entry == Counted(k, now, table)
     IN  /\ Admitted(k, now, table)
         /\ entries' = [table EXCEPT ![k] = entry]
         /\ passed' = [passed EXCEPT ![k][entry.until] = @ + 1]
  /\ waiting' = [waiting EXCEPT ![r] = NoRequest]
  /\ UNCHANGED time

Middleware(r) == TooMany(r) \/ Pass(r)

Tick ==
  /\ time < MaxTime
  /\ time' = time + 1
  /\ UNCHANGED <<entries, waiting, passed>>

Next == (\E r \in Requests : Arrive(r) \/ Middleware(r)) \/ Tick

Spec == Init /\ [][Next]_vars
----------------------------------------------------------------------------
(***************************************************************************)
(* Properties                                                              *)
(***************************************************************************)
\* Windows that are not over and to which requests of k were counted.
InForce(k) == {u \in Ends : time < u /\ passed[k][u] > 0}

\* Who is let through and who is not, although clocks are read early and entries purged
\* by others: the table never outgrows its capacity; until a window is over its key gets
\* no other, and no more requests through than the limit; one refused has passed as often
\* as the limit in a window that holds it, or finds the table full of windows that are
\* not over.
LimiterHolds ==
  /\ Cardinality(Live(entries)) <= Capacity
  /\ \A k \in Keys : \A u, v \in InForce(k) : u = v /\ passed[k][u] <= Limit
  /\ \A r \in Requests : waiting[r] # NoRequest /\ Refused(waiting[r].key, waiting[r].now) =>
       LET k == waiting[r].key
           now == waiting[r].now
       IN  \/ now < entries[k].until /\ passed[k][entries[k].until] >= Limit
           \/ Cardinality({j \in Keys \ {k} : now < entries[j].until}) >= Capacity
============================================================================
