---------------------------- MODULE MemoryStorage ----------------------------
(***************************************************************************)
(* The control plane's in-memory metrics store (internal/server/storage/    *)
(* memory.go) and the two handlers that use it: a submission stores under    *)
(* the write lock; a query computes its time range first and takes the read  *)
(* lock later, so submissions and the passing of time come in between.       *)
(*                                                                         *)
(* log is a history variable: every entry ever stored, in the order of the   *)
(* write lock.  What the store keeps and answers is compared with it.        *)
(***************************************************************************)
EXTENDS Integers, Sequences

CONSTANTS
  Nodes,      \* node identifiers
  Payloads,   \* metrics submitted, told apart only by equality
  Readers,    \* request goroutines that serve queries
  MaxItems,   \* maxItems of NewMemoryStorage
  Window,     \* the hour a query without a start looks back
  MaxTime,    \* bound: the clock
  MaxStores   \* bound: submissions per node

(* NewMemoryStorage replaces a maxItems that is not positive by 1000.       *)
ASSUME StorageAssumption ==
  /\ MaxItems \in Nat \ {0}
  /\ Window \in Nat
  /\ MaxTime \in Nat
  /\ MaxStores \in Nat

VARIABLES
  now,    \* the clock both the store and the query handler read
  data,   \* MemoryStorage.data: a map from node to its entries, oldest first
  log,    \* history: log[n] is every entry ever stored for n
  query   \* query[q]: the query goroutine q serves

vars == <<now, data, log, query>>

MetricsEntry == [Timestamp : 0..MaxTime, Data : Payloads]
NoQuery == [phase |-> "idle"]

TypeOK ==
  /\ now \in 0..MaxTime
  /\ DOMAIN data \subseteq Nodes
  /\ data \in [DOMAIN data -> Seq(MetricsEntry)]
  /\ \A n \in DOMAIN data : Len(data[n]) \in 1..MaxItems
  /\ log \in [Nodes -> Seq(MetricsEntry)]
  /\ \A n \in Nodes : Len(log[n]) <= MaxStores
  /\ DOMAIN query = Readers
  /\ \A q \in Readers :
       \/ query[q] = NoQuery
       \/ /\ query[q].phase \in {"ranged", "read"}
          /\ query[q].node \in Nodes
          /\ query[q].start \in Int /\ query[q].end \in 0..MaxTime
          /\ query[q].stored \in 0..MaxStores

Init ==
  /\ now = 0
  /\ data = [n \in {} |-> <<>>]
  /\ log = [n \in Nodes |-> <<>>]
  /\ query = [q \in Readers |-> NoQuery]
-----------------------------------------------------------------------------
Entries(n) == IF n \in DOMAIN data THEN data[n] ELSE <<>>

(* A plausible slip: the first entries are kept in place of the last.        *)
TrimmedAtEnd(s) == IF Len(s) > MaxItems THEN SubSeq(s, 1, MaxItems) ELSE s

(* s[len(s)-maxItems:] when s is longer than maxItems.                      *)
Trimmed(s) ==
  IF Len(s) > MaxItems THEN SubSeq(s, Len(s) - MaxItems + 1, Len(s)) ELSE s

(* A plausible slip: the store is trimmed before the new entry comes in.     *)
TrimmedFirst(s, entry) == Append(Trimmed(s), entry)

(* The append and the trimming of StoreMetrics.                              *)
AppendTrimmed(s, entry) == Trimmed(Append(s, entry))

(* HandleMetricsSubmitGin with a body it can read: StoreMetrics stamps the   *)
(* entry with the time under the lock, appends and trims.                    *)
StoreMetrics(n, metrics) ==
  LET entry == [Timestamp |-> now, Data |-> metrics] IN
  /\ Len(log[n]) < MaxStores
  /\ data' = [m \in DOMAIN data \union {n} |->
                IF m = n THEN AppendTrimmed(Entries(n), entry) ELSE data[m]]
  /\ log' = [log EXCEPT ![n] = Append(@, entry)]
  /\ UNCHANGED <<now, query>>
-----------------------------------------------------------------------------
(* A plausible slip: an entry of the very instant the range ends is left out. *)
WithinHalfOpen(start, end, e) == start <= e.Timestamp /\ e.Timestamp < end

(* The condition of GetNodeMetrics' loop: both ends of the range count.      *)
Within(start, end, e) == start <= e.Timestamp /\ e.Timestamp <= end

(* The loop: Found(s, start, end)[i] is result after the first i entries.    *)
Found(s, start, end) ==
  LET result[i \in 0..Len(s)] ==
        IF i = 0 THEN <<>>
        ELSE IF Within(start, end, s[i]) THEN Append(result[i - 1], s[i])
        ELSE result[i - 1]
  IN result

InRange(s, start, end) == Found(s, start, end)[Len(s)]

(* HandleGetNodeMetricsGin parses or defaults its range; stored remembers    *)
(* how many entries the store had taken by then.                             *)
Ranged(q, n, start, end) ==
  /\ query[q] = NoQuery
  /\ query' = [query EXCEPT ![q] = [phase |-> "ranged", node |-> n, start |-> start,
                                    end |-> end, stored |-> Len(log[n])]]
  /\ UNCHANGED <<now, data, log>>

QueryRecent(q, n) == Ranged(q, n, now - Window, now)
QueryRange(q, n) == \E start, end \in 0..MaxTime : Ranged(q, n, start, end)

(* ... and GetNodeMetrics runs later, under the read lock.                   *)
GetNodeMetrics(q) ==
  /\ query[q].phase = "ranged"
  /\ query' = [query EXCEPT ![q] =
                 [phase |-> "read", node |-> @.node, start |-> @.start, end |-> @.end,
                  stored |-> @.stored, total |-> Len(log[@.node]),
                  result |-> InRange(Entries(@.node), @.start, @.end)]]
  /\ UNCHANGED <<now, data, log>>

Respond(q) ==
  /\ query[q].phase = "read"
  /\ query' = [query EXCEPT ![q] = NoQuery]
  /\ UNCHANGED <<now, data, log>>

Tick ==
  /\ now < MaxTime
  /\ now' = now + 1
  /\ UNCHANGED <<data, log, query>>

Next ==
  \/ \E n \in Nodes, p \in Payloads : StoreMetrics(n, p)
  \/ \E q \in Readers, n \in Nodes : QueryRecent(q, n) \/ QueryRange(q, n)
  \/ \E q \in Readers : GetNodeMetrics(q) \/ Respond(q)
  \/ Tick

Spec == Init /\ [][Next]_vars
-----------------------------------------------------------------------------
(* kept is the end of all, as long as the bound allows.                     *)
Newest(kept, all) ==
  /\ Len(kept) = IF Len(all) > MaxItems THEN MaxItems ELSE Len(all)
  /\ \A i \in 1..Len(kept) : kept[i] = all[Len(all) - Len(kept) + i]

(* However many entries came and went, the store holds for every node        *)
(* exactly the newest MaxItems entries ever stored, oldest first.            *)
KeepsNewest == \A n \in Nodes : Newest(Entries(n), log[n])

(* An answer holds every entry that was stored before the query chose its    *)
(* range, lies in the range and was not pushed out by newer ones up to the   *)
(* read; a query for the last hour therefore sees every submission answered  *)
(* before it, even one of the same instant.                                 *)
AnswersHoldWhatWasStored ==
  \A q \in Readers : query[q].phase = "read" =>
    LET r == query[q]
        owed == {i \in 1..r.stored : /\ i > r.total - MaxItems
                                     /\ r.start <= log[r.node][i].Timestamp
                                     /\ log[r.node][i].Timestamp <= r.end}
    IN \E f \in [owed -> 1..Len(r.result)] :
         /\ \A i \in owed : r.result[f[i]] = log[r.node][i]
         /\ \A i, j \in owed : i < j => f[i] < f[j]
=============================================================================
