----------------------------- MODULE AuthLimits -----------------------------
(***************************************************************************)
(* The two throttles of sign/db.py as operators on their rows.  Each is    *)
(* one upsert in one transaction, so each is atomic.  Time is kept as far  *)
(* as the code asks about it: a lock is running or not, and a window is    *)
(* over or not.                                                            *)
(*                                                                         *)
(* An operator named Op_Variant is Op with a plausible bug in it: the      *)
(* properties are tested against it, and no specification uses it.         *)
(***************************************************************************)
EXTENDS Integers

\* A row of auth_limits.  No row is the same as NoLimit.
LimitRow == [fails : Nat, locked : BOOLEAN]

NoLimit == [fails |-> 0, locked |-> FALSE]

Recorded_GivesBack(row, ok, limit) ==
  CASE ok                                      -> [row EXCEPT !.fails = @ - 1]
    [] ~ok /\ row.locked                       -> row
    [] ~ok /\ ~row.locked /\ row.fails + 1 >= limit
                    -> [fails |-> 0, locked |-> TRUE]
    [] ~ok /\ ~row.locked /\ row.fails + 1 < limit
                    -> [row EXCEPT !.fails = @ + 1]

Recorded_OneLate(row, ok, limit) ==
  CASE ok                                      -> NoLimit
    [] ~ok /\ row.locked                       -> row
    [] ~ok /\ ~row.locked /\ row.fails >= limit
                    -> [fails |-> 0, locked |-> TRUE]
    [] ~ok /\ ~row.locked /\ row.fails < limit -> [row EXCEPT !.fails = @ + 1]

\* auth_limit_record(): success deletes the row; a failure during a lock
\* changes nothing; the failure that reaches the limit locks and starts the
\* count afresh.
Recorded(row, ok, limit) ==
  CASE ok                                      -> NoLimit
    [] ~ok /\ row.locked                       -> row
    [] ~ok /\ ~row.locked /\ row.fails + 1 >= limit
                    -> [fails |-> 0, locked |-> TRUE]
    [] ~ok /\ ~row.locked /\ row.fails + 1 < limit
                    -> [row EXCEPT !.fails = @ + 1]

\* lock_until has passed.
Lapsed(row) == [row EXCEPT !.locked = FALSE]

\* A row of auth_rate_limits.  over: window_start is a window ago.
RateRow == [count : Nat, over : BOOLEAN]

NoRate == [count |-> 0, over |-> FALSE]

\* auth_rate_allowed(): the attempt is counted whether it is allowed or not.
Counted(row) ==
  IF row.over THEN [count |-> 1, over |-> FALSE]
              ELSE [row EXCEPT !.count = @ + 1]

Allowed(row, limit) == Counted(row).count <= limit
=============================================================================
