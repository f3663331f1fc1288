------------------------------ MODULE Database ------------------------------
(***************************************************************************)
(* What a request meets of SQLAlchemy and the database: it reads committed *)
(* rows, collects its changes in a unit of work, and commits them later in *)
(* one transaction, or rolls back.  Other sessions may commit in between.  *)
(* None of this is code of the repository; it is modelled from the way the *)
(* handlers under app/ and the seeders use db.session.                     *)
(*                                                                         *)
(* Rows are named by their unique keys, so a unique constraint shows as a  *)
(* row that exists already.  An UPDATE names only the columns whose value  *)
(* differs from the one that was loaded.                                   *)
(***************************************************************************)
EXTENDS Naturals, Sequences

CONSTANTS
    NoRow,    \* a row that does not exist
    Slot,     \* requests served at the same time
    Idle      \* a slot that serves nothing

VARIABLES
    db,       \* what is committed: the columns of every row there could be, or NoRow
    trail,    \* committed audit rows, oldest first
    sessions  \* the unit of work open in each slot

\* Rows and columns by name; of two the first has precedence.
r :> v == [x \in {r} |-> v]
f @@ g == [x \in DOMAIN f \cup DOMAIN g |-> IF x \in DOMAIN f THEN f[x] ELSE g[x]]
Nothing == [x \in {} |-> x]

\* An audit row: AuditService.commit(action, entity, before, after).
Entry(action, row, before, after) ==
    [action |-> action, row |-> row, before |-> before, after |-> after]

\* Besides its changes, a unit says which rows the handler goes on to use and
\* for which memberships it answers with a token.
Unit(op) == [op |-> op, inserts |-> Nothing, updates |-> Nothing,
             deletes |-> {}, audit |-> <<>>,
             reads |-> {}, tokens |-> {}]

\* Of the given rows, those that a lookup does not find.
Missing(rows) == [r \in {x \in DOMAIN rows : db[x] = NoRow} |-> rows[r]]

\* The given column values, without those that equal what was loaded.
Changed(rows) ==
    LET Differ(r) == {c \in DOMAIN rows[r] : rows[r][c] # db[r][c]}
        found     == {r \in DOMAIN rows : db[r] # NoRow}
    IN  [r \in {x \in found : Differ(x) # {}} |-> [c \in Differ(r) |-> rows[r][c]]]

\* A unique constraint refuses an INSERT; an UPDATE that matches no row raises.
Conflict(unit) ==
    \/ \E r \in DOMAIN unit.inserts : db[r] # NoRow
    \/ \E r \in DOMAIN unit.updates : db[r] = NoRow

Applied(unit) ==
    [r \in DOMAIN db |->
        IF r \in DOMAIN unit.inserts THEN unit.inserts[r]
        ELSE IF r \in unit.deletes THEN NoRow
        ELSE IF r \in DOMAIN unit.updates THEN unit.updates[r] @@ db[r]
        ELSE db[r]]

Open(s, unit) ==
    /\ sessions[s] = Idle
    /\ sessions' = [sessions EXCEPT ![s] = unit]
    /\ UNCHANGED <<db, trail>>

CommitUnit(s) ==
    /\ sessions[s] # Idle
    /\ ~Conflict(sessions[s])
    /\ db' = Applied(sessions[s])
    /\ trail' = trail \o sessions[s].audit
    /\ sessions' = [sessions EXCEPT ![s] = Idle]

\* A refused commit, or a process that dies before it.
Rollback(s) ==
    /\ sessions[s] # Idle
    /\ sessions' = [sessions EXCEPT ![s] = Idle]
    /\ UNCHANGED <<db, trail>>
=============================================================================
