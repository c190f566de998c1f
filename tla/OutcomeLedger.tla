---------------------------- MODULE OutcomeLedger ----------------------------
(***************************************************************************)
(* The bounded ledger of terminal action results                           *)
(* (engine/net/src/outcomes.rs).  A ledger is a value and an operation is  *)
(* an operator from ledgers to ledgers, because one handler of the         *)
(* authority performs several of them on two ledgers.                      *)
(*                                                                         *)
(* Abstractions.                                                           *)
(*  - The records are those of one owner; the ones of other owners only    *)
(*    take up room, and an action key belongs to one owner.                *)
(*  - retained_bytes is a limit on the number of records, as every record  *)
(*    is charged the maximum payload.                                      *)
(***************************************************************************)
EXTENDS Integers, FiniteSets

CONSTANTS
  Keys,         \* action keys of the owner
  Connection(_),\* Connection(k) is the connection epoch of key k
  Order(_),     \* Order(k) is the place of k in the order of keys
  Retention,    \* OutcomeLimits.retention_ticks
  Statuses,     \* what a terminal result can say
  MaxResults,   \* bound: results ever issued
  LastTick      \* bound: the latest tick of a result

Result == [sequence : 1..MaxResults, status : Statuses]
NoResult == [sequence |-> 0, status |-> "none"]
Reservation == [sequence |-> 0, status |-> "pending"]

LedgerRecord ==
  [result : Result \cup {NoResult, Reservation}, at : 0..LastTick,
   reported : BOOLEAN, closed : BOOLEAN]

Absent == [result |-> NoResult, at |-> 0, reported |-> FALSE, closed |-> FALSE]
Reserved == [Absent EXCEPT !.result = Reservation]

Ledger == [records : [Keys -> LedgerRecord], delivery : SUBSET Keys]
EmptyLedger == [records |-> [k \in Keys |-> Absent], delivery |-> {}]

Present(L)  == {k \in Keys : L.records[k].result # NoResult}
PendingIn(L, c) ==
  {k \in Keys : Connection(k) = c /\ L.records[k].result = Reservation}
Terminal(L) == {k \in Keys : L.records[k].result.sequence # 0}

\* available_for, in a ledger with room for `limit` records of the owner.
Available(L, limit) ==
  IF Cardinality(Present(L)) >= limit THEN 0 ELSE limit - Cardinality(Present(L))

\* reserve is all or nothing.
NewKeys(L, keys) == keys \ Present(L)

CanReserve(L, keys, limit) ==
  Cardinality(NewKeys(L, keys)) + Cardinality(Present(L)) <= limit
Reserve(L, keys) ==
  [L EXCEPT !.records = [k \in Keys |->
     IF k \in NewKeys(L, keys) THEN Reserved ELSE L.records[k]]]

Removed(L, keys) ==
  [records  |-> [k \in Keys |-> IF k \in keys THEN Absent ELSE L.records[k]],
   delivery |-> L.delivery \ keys]

\* cancel_reservations releases only what has no result.
CancelReservations(L, keys) ==
  Removed(L, {k \in keys : L.records[k].result = Reservation})

\* finish of reserved keys in key order, with results numbered from `next`.
Rank(keys, k) == Cardinality({j \in keys : Order(j) <= Order(k)})
Numbered(L, keys, next, at, status) ==
  [k \in Keys |->
     IF k \in keys
     THEN [L.records[k] EXCEPT !.at = at,
             !.result = [sequence |-> next + Rank(keys, k) - 1, status |-> status]]
     ELSE L.records[k]]

Finish(L, keys, next, at, status) ==
  [records  |-> Numbered(L, keys, next, at, status),
   delivery |-> L.delivery \cup {k \in keys : ~L.records[k].closed}]

CloseDelivery(L, c) ==
  [records  |-> [k \in Keys |->
                   IF Connection(k) = c /\ k \in Present(L)
                   THEN [L.records[k] EXCEPT !.closed = TRUE] ELSE L.records[k]],
   delivery |-> {k \in L.delivery : Connection(k) # c}]

Lookup(L, k) == IF k \in Terminal(L) THEN L.records[k].result ELSE NoResult

MarkReported(L, keys) ==
  [records  |-> [k \in Keys |-> IF k \in keys THEN [L.records[k] EXCEPT !.reported = TRUE]
                                ELSE L.records[k]],
   delivery |-> L.delivery \ keys]

\* Mutant: only the results of accepted actions are kept for their retention.
MutantExpirable(r, now) ==
  /\ r.reported \/ r.closed
  /\ r.result.sequence # 0
  /\ r.result.status = "Accepted" => now - r.at >= Retention

Expirable(r, now) ==
  (r.reported \/ r.closed) /\ r.result.sequence # 0 /\ now - r.at >= Retention

Expire(L, now) == Removed(L, {k \in Keys : Expirable(L.records[k], now)})

\* The delivery index lists exactly the results that still have to be handed to
\* their connection.
Indexed(L) ==
  L.delivery = {k \in Terminal(L) : ~L.records[k].reported /\ ~L.records[k].closed}

=============================================================================
