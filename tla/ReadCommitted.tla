--------------------------- MODULE ReadCommitted ---------------------------
(***************************************************************************)
(* Rows and transactions as the SQLAlchemy session and PostgreSQL at READ  *)
(* COMMITTED treat them.  A database is a function from rows to records of *)
(* columns; what a transaction writes is a function from <<row, column>>   *)
(* to the new value.                                                       *)
(***************************************************************************)
EXTENDS Naturals, FiniteSets

CONSTANT None

\* f, and what g says of everything else.
f ++ g == [x \in DOMAIN f \union DOMAIN g |-> IF x \in DOMAIN f THEN f[x] ELSE g[x]]

\* Assignments to attributes of one row.
Assign(row, columns) == [x \in {<<row, c>> : c \in DOMAIN columns} |-> columns[x[2]]]

\* A flush writes the attributes whose value changed since they were read, and no others.
Dirty(rows, writes) == [x \in {y \in DOMAIN writes : rows[y[1]][y[2]] # writes[y]} |-> writes[x]]

RowsOf(writes) == {x[1] : x \in DOMAIN writes}

\* The rows as they are after the writes: for everyone once committed, for the writer itself before.
Applied(rows, writes) ==
    [k \in RowsOf(writes) |-> [c \in DOMAIN rows[k] |-> IF <<k, c>> \in DOMAIN writes THEN writes[<<k, c>>] ELSE rows[k][c]]]
        ++ rows

\* What changed between two views of the rows.
Difference(before, after) ==
    [x \in UNION {{<<k, c>> : c \in {c \in DOMAIN before[k] : before[k][c] # after[k][c]}} : k \in DOMAIN before} |-> after[x[1]][x[2]]]

=============================================================================
