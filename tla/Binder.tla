------------------------------- MODULE Binder -------------------------------
(***************************************************************************)
(* The statement binder of the query engine: bind_insert                   *)
(* (planner/binder/statement/bind_insert.rs) and the select node           *)
(* (planner_v2/binder/query_node/bind_select_node.rs), as operators from a *)
(* parsed statement to Ok(bound), Err(error) or a panic.                   *)
(*                                                                         *)
(* An expression is a member of Exprs; a call that leaves these files and  *)
(* answers a Result (bind_table_ref, bind_expression, the cast) is an      *)
(* input saying whether it succeeded.  Vectors are 1-based here, so        *)
(* INVALID_INDEX is 0.                                                     *)
(***************************************************************************)
EXTENDS Naturals, Sequences, FiniteSets, SequencesExt, Outcome

CONSTANTS
    Unbound,         \* the expressions bind_expression answers an error for
    ExprType(_)      \* the type bind_expression pushes for an expression

INVALID_INDEX == 0

-----------------------------------------------------------------------------
\* planner_v2/binder/query_node/bind_select_node.rs
Stars == {"Wildcard", "QualifiedWildcard"}

\* generate_all_column_expressions answers an error for a table that is not
\* bound in the FROM clause.
StarFails(from, select_list) ==
    \E i \in DOMAIN select_list :
        select_list[i].kind = "QualifiedWildcard" /\ select_list[i].table # from.table

\* expand_star_expressions: every star gives way to the columns of the table.
ExpandStar(from, select_list) ==
    FlattenSeq([i \in DOMAIN select_list |->
        IF select_list[i].kind \in Stars
        THEN [k \in DOMAIN from.columns |-> [kind |-> "UnnamedExpr", expr |-> from.columns[k]]]
        ELSE <<select_list[i]>>])

Aliases(list) == {list[i].alias : i \in {j \in DOMAIN list : list[j].kind = "ExprWithAlias"}}

\* Faulty variant of ColumnAliasData: the indexes are those of the select list
\* as written, the items those of the expanded one.
ColumnAliasDataAsWritten(from, select_list) ==
    [original_select_items |-> [i \in DOMAIN ExpandStar(from, select_list) |->
                                   ExpandStar(from, select_list)[i].expr],
     alias_map |-> [a \in Aliases(select_list) |-> SelectLastInSeq(select_list,
                       LAMBDA item : item.kind = "ExprWithAlias" /\ item.alias = a)]]

\* The loop of bind_select_body over the expanded list: the expressions, and
\* for every alias the index of the item carrying it (a later insert into the
\* hash map replaces an earlier one).
ColumnAliasData(from, select_list) ==
    LET new_select_list == ExpandStar(from, select_list)
    IN  [original_select_items |-> [i \in DOMAIN new_select_list |-> new_select_list[i].expr],
         alias_map |-> [a \in Aliases(new_select_list) |-> SelectLastInSeq(new_select_list,
                           LAMBDA item : item.kind = "ExprWithAlias" /\ item.alias = a)]]

\* bind_select_item over the expanded list: the name bind_expression pushed,
\* replaced by the alias (result_names.last_mut()), and the type.
ResultName(item) == IF item.kind = "ExprWithAlias" THEN item.alias ELSE item.expr

\* bind_select_body
BindSelectBody(select) ==
    LET new_select_list == ExpandStar(select.from, select.projection)
        alias_data      == ColumnAliasData(select.from, select.projection)
        exprs           == alias_data.original_select_items
    IN  IF ~select.from_ok THEN Err("bind_table_ref")
        ELSE IF StarFails(select.from, select.projection) THEN Err("expand_star_expressions")
        ELSE IF new_select_list = <<>> THEN Err("empty select list")
        ELSE IF select.selection \in Unbound THEN Err("where")
        ELSE IF \E i \in DOMAIN exprs : exprs[i] \in Unbound THEN Err("select item")
        ELSE Ok([names |-> [i \in DOMAIN exprs |-> ResultName(new_select_list[i])],
                 types |-> [i \in DOMAIN exprs |-> ExprType(exprs[i])],
                 select_list |-> exprs,
                 from_table |-> select.from.table,
                 where_clause |-> IF select.selection = NONE THEN NONE
                                  ELSE [expr |-> select.selection, alias_data |-> alias_data],
                 original_select_items |-> exprs])

\* bind_values: the names and types of the list, one column reference each.
BindValues(values) ==
    IF ~values.list_ok THEN Err("bind_expression_list_ref")
    ELSE IF ~values.refs_ok THEN Err("bind_column_ref_expr")
    ELSE Ok([names |-> values.names, types |-> values.types,
             select_list |-> values.names, from_table |-> "VALUES_LIST_ALIAS",
             where_clause |-> NONE, original_select_items |-> NONE])

\* bind_query_body past generate_table_index: Select and Values are bound,
\* every other body is a todo!().
BindQueryBody(query_body, projection_index) ==
    LET bound == IF query_body.kind = "Select" THEN BindSelectBody(query_body)
                 ELSE BindValues(query_body)
    IN  IF query_body.kind \notin {"Select", "Values"} THEN Panic
        ELSE IF ~bound.ok THEN bound
        ELSE Ok([projection_index |-> projection_index] @@ bound.value)

-----------------------------------------------------------------------------
\* planner/binder/statement/bind_insert.rs
ColumnNames(table) == {table.columns[c].name : c \in DOMAIN table.columns}

\* table.name_map
NameIndex(table, name) == CHOOSE c \in DOMAIN table.columns : table.columns[c].name = name

\* named_column_indices: for every insert column the table column it names.
NamedColumnIndices(table, columns) ==
    IF columns = <<>> THEN [c \in DOMAIN table.columns |-> c]
    ELSE [i \in DOMAIN columns |-> NameIndex(table, columns[i])]

\* Faulty variant of ColumnIndexList: the table's own index where the index
\* in the insert list belongs.
ColumnIndexListOfTable(table, columns) ==
    [c \in DOMAIN table.columns |->
        IF table.columns[c].name \in Range(columns) THEN c ELSE INVALID_INDEX]

\* column_index_list: for every table column its index in the insert list
\* (column_name_2_insert_idx_map: the last one of that name), or INVALID_INDEX.
ColumnIndexList(table, columns) ==
    IF columns = <<>> THEN [c \in DOMAIN table.columns |-> c]
    ELSE [c \in DOMAIN table.columns |->
            SelectLastInSeq(columns, LAMBDA name : name = table.columns[c].name)]

\* bind_insert.  table is the answer of Catalog::get_table, select_node that
\* of bind_query, cast_ok that of cast_logical_operator_to_types.
BindInsert(stmt, table, select_node, cast_ok) ==
    LET named == NamedColumnIndices(table, stmt.columns)
    IN  IF stmt.kind # "Insert" THEN Err("UnsupportedStmt")
        ELSE IF table = NONE THEN Err("get_table")
        ELSE IF ~(Range(stmt.columns) \subseteq ColumnNames(table)) THEN Err("column not found")
        ELSE IF ~stmt.has_source THEN Panic
        ELSE IF ~select_node.ok THEN select_node
        ELSE IF Len(named) # Len(select_node.value.types) THEN Err("insert column count mismatch")
        ELSE IF ~cast_ok THEN Err("cast")
        ELSE Ok([column_index_list |-> ColumnIndexList(table, stmt.columns),
                 expected_types |-> [i \in DOMAIN named |-> table.columns[named[i]].ty],
                 table |-> table])

=============================================================================
