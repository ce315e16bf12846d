-------------------------------- MODULE Ast ---------------------------------
(***************************************************************************)
(* Statements and expressions as parser/ast.go has them.  A name is a      *)
(* sequence of characters, <<>> if there is none.                          *)
(***************************************************************************)

CONSTANT NoWhere   \* a statement without WHERE

\* Expressions.
Literal(value) == [op |-> "literal", value |-> value]
ColumnExpr(table, name) == [op |-> "column", table |-> table, name |-> name]
StarExpr == [op |-> "*"]
BinaryExpr(left, op, right) == [op |-> op, left |-> left, right |-> right]

\* Parts of statements.
ColumnDef(name, type, isKey, notNull) ==
  [name |-> name, type |-> type, isKey |-> isKey, notNull |-> notNull]
SelectColumn(expr, alias) == [expr |-> expr, alias |-> alias]
OrderByClause(column, desc) == [column |-> column, desc |-> desc]
JoinClause(type, table, on) == [type |-> type, table |-> table, on |-> on]
Assignment(column, value) == [column |-> column, value |-> value]

\* Statements.
SelectStmt(columns, table, joins, where, orderBy, limit) ==
  [kind |-> "SELECT", columns |-> columns, table |-> table, joins |-> joins,
   where |-> where, orderBy |-> orderBy, limit |-> limit]
InsertStmt(table, columns, values) ==
  [kind |-> "INSERT", table |-> table, columns |-> columns, values |-> values]
CreateTableStmt(table, columns, pk) ==
  [kind |-> "CREATE", table |-> table, columns |-> columns, pk |-> pk]
UpdateStmt(table, assignments, where) ==
  [kind |-> "UPDATE", table |-> table, assignments |-> assignments, where |-> where]
DeleteStmt(table, where) == [kind |-> "DELETE", table |-> table, where |-> where]
DropTableStmt(table) == [kind |-> "DROP", table |-> table]

=============================================================================
