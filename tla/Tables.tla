-------------------------------- MODULE Tables --------------------------------
(***************************************************************************)
(* What PostgreSQL keeps of a table and what an Alembic operation does to  *)
(* it.  A schema maps the names of the tables that exist to their columns  *)
(* (type and nullability) and their constraints.  A constraint is known by *)
(* what it demands, not by its name; plain indexes, comments and server    *)
(* defaults are left out, a unique index is the constraint it enforces.    *)
(***************************************************************************)
EXTENDS TLC, Functions

\* f and what g adds to it: TLC's @@, whose definition the provers do not have.
f ++ g == [x \in DOMAIN f \union DOMAIN g |-> IF x \in DOMAIN f THEN f[x] ELSE g[x]]
Entry(x, value) == [y \in {x} |-> value]

Req(type) == [type |-> type, nullable |-> FALSE]
Opt(type) == [type |-> type, nullable |-> TRUE]

Unique(columns)               == <<"unique", columns>>
UniqueWhere(columns, present) == <<"unique where", columns, present>>
OneOf(column, values)         == <<"one of", column, values>>
Check(condition)              == <<"check", condition>>
References(column, table, onDelete) == <<"references", column, table, onDelete>>
PrimaryKey                    == <<"primary key">>

Table(columns, constraints) == [columns |-> columns, constraints |-> constraints]

AddTable(s, t, table) == s ++ Entry(t, table)
DropTable(s, t)       == Restrict(s, DOMAIN s \ {t})

AddColumn(s, t, c, column) == [s EXCEPT ![t].columns = @ ++ Entry(c, column)]
DropColumn(s, t, c)        == [s EXCEPT ![t].columns = Restrict(@, DOMAIN @ \ {c})]
AlterColumn(s, t, c, column) == [s EXCEPT ![t].columns[c] = column]

AddConstraint(s, t, k)  == [s EXCEPT ![t].constraints = @ \union {k}]
DropConstraint(s, t, k) == [s EXCEPT ![t].constraints = @ \ {k}]

HasColumn(s, t, c) == t \in DOMAIN s /\ c \in DOMAIN s[t].columns
Enforces(s, t, k)  == t \in DOMAIN s /\ k \in s[t].constraints
===============================================================================
