----------------------------- MODULE QueryEngine ----------------------------
(***************************************************************************)
(* The query engine's catalog and binder together: the catalog set with    *)
(* the builtin functions registered into it (function/mod.rs), and the     *)
(* binder's calls, which read the catalog and take the next table index,   *)
(* beside the calls on expressions.  One call is one step; ret holds what  *)
(* the call was given and what it answered.                                *)
(***************************************************************************)
EXTENDS CatalogSet, Binder, Expression

CONSTANTS
    Builtins,        \* the function names initialize registers, in its order
    Tables,          \* the names Catalog::get_table is asked for
    QueryBodies,     \* the SetExpr values handed to bind_query_body
    InsertStmts,     \* the statements handed to bind_insert
    SelectNodes,     \* what bind_query answers for their sources
    MaxTableIndex,   \* bound on the binder's table index
    BoundExprs,      \* the bound expressions asked about themselves
    BindContexts,    \* the bind contexts: tables with their columns, aliases
    ParsedExprs,     \* the expressions handed to bind_expr
    Executions,      \* the expression lists and input batches handed to execute
    Scans            \* what the storage answers a table scan, call after call

ASSUME \A e \in BoundExprs : IsBoundExpr(e)

VARIABLES table_index    \* the last index generate_table_index handed out

qvars == <<cat, ret, table_index>>

FunctionEntry == [kind |-> "function"]

\* Faulty variant of FirstTaken: no `?` after register_function.
NoneTaken(set) == 0

\* The first register_function of initialize that answers an error, 0 if none
\* does.
FirstTaken(set) == SelectInSeq(Builtins, LAMBDA name : name \in DOMAIN set.mapping)

\* add_table_functions, add_scalar_functions: Catalog::create_table_function
\* and create_scalar_function end in create_entry under the function's name.
AddFunction(set, name) ==
    IF name \in DOMAIN set.mapping THEN set ELSE Created(set, name, FunctionEntry)

\* initialize: the builtins in order, up to the first that is refused.
Initialize ==
    LET taken == FirstTaken(cat)
        done  == IF taken = 0 THEN Len(Builtins) ELSE taken - 1
    IN  /\ cat.current_entry + done <= MaxEntries
        /\ cat' = FoldLeft(AddFunction, cat, SubSeq(Builtins, 1, done))
        /\ ret' = [op |-> "initialize", result |-> IF taken = 0 THEN "Ok" ELSE Exists]
        /\ UNCHANGED table_index

\* Catalog::get_table
GetTable(name) ==
    IF Found(cat, name) /\ Lookup(cat, name).kind = "table" THEN Lookup(cat, name) ELSE NONE

\* bind_query_body: the table index is taken before the body is looked at.
BindQueryBodyCall(query_body) ==
    /\ table_index < MaxTableIndex
    /\ table_index' = table_index + 1
    /\ ret' = [op |-> "bind_query_body", projection |-> query_body.projection,
               from |-> query_body.from, out |-> BindQueryBody(query_body, table_index')]
    /\ UNCHANGED cat

\* bind_insert of the first planner; its bind_query is not the binder of
\* Binder.tla, and of what it answers the error or the types are kept.
BindInsertCall(stmt, name, select_node, cast_ok) ==
    /\ ret' = [op |-> "bind_insert", columns |-> stmt.columns,
               out |-> BindInsert(stmt, GetTable(name), select_node, cast_ok)]
    /\ UNCHANGED <<cat, table_index>>

\* nullable, get_referenced_column_catalog and output_column_catalog of e
DescribeCall(e) ==
    /\ ret' = [op |-> "describe",
               nullable |-> IF NullablePanics(e) THEN Panic ELSE Ok(Nullable(e)),
               referenced |-> IF ReferencedColumnsPanics(e) THEN Panic
                              ELSE Ok(ReferencedColumns(e)),
               output |-> IF OutputColumnPanics(e) THEN Panic ELSE Ok(OutputColumnCatalog(e))]
    /\ UNCHANGED <<cat, table_index>>

\* bind_expr, the hash map of the context yielding its tables in some order
BindExprCall(context, expr) ==
    /\ \E order \in SetToSeqs(DOMAIN context.tables) :
          ret' = [op |-> "bind_expr", context |-> context, expr |-> expr,
                  out |-> BindExpr(context, expr, order)]
    /\ UNCHANGED <<cat, table_index>>

\* execute, and execute_scalar of a single expression
ExecuteCall(run) ==
    /\ ret' = [op |-> IF run.scalar THEN "execute_scalar" ELSE "execute",
               expressions |-> run.expressions, input |-> run.input,
               out |-> IF run.scalar THEN ExecuteScalar(run.expressions[1], Ok(run.input))
                       ELSE Execute(run.expressions, run.input)]
    /\ UNCHANGED <<cat, table_index>>

\* TableScanExecutor::execute
TableScanCall(scan) ==
    /\ ret' = [op |-> "table_scan", out |-> TableScan(scan.table_ok, scan.read_ok, scan.batches)]
    /\ UNCHANGED <<cat, table_index>>

QueryInit == Init /\ table_index = 0

QueryNext ==
    \/ Next /\ UNCHANGED table_index
    \/ Initialize
    \/ \E query_body \in QueryBodies : BindQueryBodyCall(query_body)
    \/ \E stmt \in InsertStmts, name \in Tables, select_node \in SelectNodes,
          cast_ok \in BOOLEAN : BindInsertCall(stmt, name, select_node, cast_ok)
    \/ \E e \in BoundExprs : DescribeCall(e)
    \/ \E context \in BindContexts, expr \in ParsedExprs : BindExprCall(context, expr)
    \/ \E run \in Executions : ExecuteCall(run)
    \/ \E scan \in Scans : TableScanCall(scan)

QuerySpec == QueryInit /\ [][QueryNext]_qvars

-----------------------------------------------------------------------------
TypeOK ==
    /\ CatalogTypeOK
    /\ table_index \in 0..MaxTableIndex
    /\ ret.op \in {"none", "create", "get", "replace", "scan", "initialize",
                   "bind_query_body", "bind_insert", "describe", "bind_expr",
                   "execute", "execute_scalar", "table_scan"}

\* When initialize answers Ok, every builtin name leads to its function: a
\* name that was taken ends the call with the error of create_entry
\* (initialize, the `?` after each register_function).
BuiltinsResolve ==
    ret.op = "initialize" /\ ret.result = "Ok"
        => \A i \in DOMAIN Builtins : Lookup(cat, Builtins[i]) = FunctionEntry

\* An alias that the WHERE clause may use leads to the select item carrying
\* it, and that item answers to the alias in the result, wherever the
\* expansion of a `*` before it has moved the item (bind_select_body: the
\* alias map is built over the expanded list, bind_select_item renames the
\* last result name).
AliasesSurviveStar ==
    ret.op = "bind_query_body" /\ ret.out.ok /\ ret.out.value.where_clause # NONE
        => LET node == ret.out.value
               data == node.where_clause.alias_data
           IN  /\ DOMAIN data.alias_map = Aliases(ret.projection)
               /\ \A a \in DOMAIN data.alias_map :
                     /\ node.names[data.alias_map[a]] = a
                     /\ \E i \in DOMAIN ret.projection :
                           /\ ret.projection[i].kind = "ExprWithAlias"
                           /\ ret.projection[i].alias = a
                           /\ ret.projection[i].expr =
                                  data.original_select_items[data.alias_map[a]]

\* What bind_insert hands the insert operator agrees with the statement: a
\* table column is fed from the position of the insert list that names it
\* and with the type the source is cast to for that position, and a column
\* the list does not name is fed from none (bind_insert: column_index_list
\* against named_column_indices and expected_types).
InsertMapIsInverse ==
    ret.op = "bind_insert" /\ ret.out.ok
        => LET bound == ret.out.value
               named(c) == ret.columns = <<>> \/ bound.table.columns[c].name \in Range(ret.columns)
           IN  \A c \in DOMAIN bound.table.columns :
                  LET i == bound.column_index_list[c]
                  IN  /\ i = INVALID_INDEX <=> ~named(c)
                      /\ named(c) => /\ bound.expected_types[i] = bound.table.columns[c].ty
                                     /\ ret.columns # <<>> =>
                                            ret.columns[i] = bound.table.columns[c].name

\* An expression that says it may be null has a column that may be null among
\* the columns it says it reads: nullable and get_referenced_column_catalog
\* descend into the same children (impl BoundExpr).
NullableHasCause ==
    ret.op = "describe" /\ ret.nullable = Ok(TRUE) /\ ret.referenced.ok
        => \E i \in DOMAIN ret.referenced.value : ret.referenced.value[i].nullable

\* What a bare column name binds to does not depend on the order in which the
\* hash map yields the tables of the context: a name two tables have is
\* refused, a name one table has is the column of that table, and an alias is
\* looked at only when no table has the name
\* (bind_column_ref_from_identifiers, the loop with its ambiguous column check).
ColumnRefOrderFree ==
    ret.op = "bind_expr" /\ ret.expr.kind = "Identifier"
        => LET tables  == ret.context.tables
               name    == Lower(ret.expr.ident)
               holders == {t \in DOMAIN tables : name \in DOMAIN tables[t]}
           IN  /\ Cardinality(holders) > 1 <=> ret.out = Err("AmbiguousColumn")
               /\ \A t \in holders : holders = {t} => ret.out = ColumnRef(tables[t][name])
               /\ holders = {} /\ ret.out.ok => ret.out.value = ret.context.aliases[name]

\* A conjunction answers for all of its children: when each child evaluates
\* to a value, the result is the function folded over every one of them, the
\* second included (execute_internal, the loop `for i in 1..children.len()`
\* after children[0]).
ConjunctionCoversAll ==
    ret.op = "execute" /\ ret.out.ok
        => \A i \in DOMAIN ret.expressions :
              LET e     == ret.expressions[i]
                  child == [k \in DOMAIN e.children |->
                               ExecuteInternal(e.children[k], ret.input)]
              IN  /\ e.kind = "Conjunction" /\ e.function \in {"and", "or"}
                  /\ \A k \in DOMAIN child : child[k].ok
                  => ret.out.value[i].v = IF e.function = "and"
                                          THEN \A k \in DOMAIN child : child[k].value.v
                                          ELSE \E k \in DOMAIN child : child[k].value.v

=============================================================================
