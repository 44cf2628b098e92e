------------------------------ MODULE Expression ----------------------------
(***************************************************************************)
(* Expressions of the query engine: the bound expression of the first      *)
(* binder with what it tells of itself and the binding of a column         *)
(* reference (binder/expression/mod.rs), the expression executor           *)
(* (execution/expression_executor.rs) and the table scan that feeds it     *)
(* (executor/table_scan.rs).  All are operators on expression trees, which *)
(* are records.                                                            *)
(*                                                                         *)
(* A data type, an identifier and a column value are members of small      *)
(* sets; a function an expression carries as a pointer is a name that      *)
(* Apply evaluates.  Vectors are 1-based here.                             *)
(***************************************************************************)
EXTENDS Naturals, Sequences, FiniteSets, SequencesExt, Outcome

CONSTANTS
    Lower(_),        \* str::to_lowercase
    Apply(_, _)      \* a function pointer applied to its arguments: Ok or Err

-----------------------------------------------------------------------------
\* binder/expression/mod.rs: impl BoundExpr

\* enum BoundExpr: its variants
BoundExprKinds ==
    {"Constant", "ColumnRef", "InputRef", "BinaryOp", "TypeCast", "AggFunc", "Alias", "Subquery"}

\* The structs of the variants: what each carries, with the expressions
\* beneath it.  The index of an input reference is left out, nothing here
\* reads it.
RECURSIVE IsBoundExpr(_)
IsBoundExpr(e) ==
    /\ e.kind \in BoundExprKinds
    /\ CASE e.kind = "Constant"  -> DOMAIN e = {"kind", "data_type"}
         [] e.kind = "ColumnRef" -> /\ DOMAIN e = {"kind", "column_catalog"}
                                    /\ e.column_catalog.nullable \in BOOLEAN
         [] e.kind = "InputRef"  -> DOMAIN e = {"kind", "return_type"}
         [] e.kind = "BinaryOp"  -> IsBoundExpr(e.left) /\ IsBoundExpr(e.right)
         [] e.kind = "TypeCast"  -> /\ DOMAIN e = {"kind", "expr", "cast_type"}
                                    /\ IsBoundExpr(e.expr)
         [] e.kind = "AggFunc"   -> \A i \in DOMAIN e.exprs : IsBoundExpr(e.exprs[i])
         [] e.kind = "Alias"     -> /\ DOMAIN e = {"kind", "expr", "column_id", "table_id"}
                                    /\ IsBoundExpr(e.expr)
         [] e.kind = "Subquery"  ->
               \A i \in DOMAIN e.select_list : IsBoundExpr(e.select_list[i])

RECURSIVE Nullable(_), NullablePanics(_), ReturnType(_), ReturnTypePanics(_),
          ReferencedColumns(_), ReferencedColumnsPanics(_), OutputColumnPanics(_),
          OutputColumnCatalog(_)

\* nullable, where it does not panic
Nullable(e) ==
    CASE e.kind = "Constant"  -> FALSE
      [] e.kind = "ColumnRef" -> e.column_catalog.nullable
      [] e.kind = "BinaryOp"  -> Nullable(e.left) /\ Nullable(e.right)
      [] e.kind \in {"TypeCast", "Alias"} -> Nullable(e.expr)
      [] e.kind = "AggFunc"   -> Nullable(e.exprs[1])
      [] e.kind = "Subquery"  -> Nullable(e.select_list[1])

\* nullable panics: unreachable!() for an input reference, exprs[0] and
\* select_list[0] of an empty vector; && does not look at its right side
\* when the left one is false.
NullablePanics(e) ==
    CASE e.kind \in {"Constant", "ColumnRef"} -> FALSE
      [] e.kind = "InputRef" -> TRUE
      [] e.kind = "BinaryOp" ->
            NullablePanics(e.left) \/ (Nullable(e.left) /\ NullablePanics(e.right))
      [] e.kind \in {"TypeCast", "Alias"} -> NullablePanics(e.expr)
      [] e.kind = "AggFunc"  -> e.exprs = <<>> \/ NullablePanics(e.exprs[1])
      [] e.kind = "Subquery" -> e.select_list = <<>> \/ NullablePanics(e.select_list[1])

\* return_type panics: select_list[0] of an empty vector.
ReturnTypePanics(e) ==
    \/ e.kind = "Alias" /\ ReturnTypePanics(e.expr)
    \/ e.kind = "Subquery" /\ (e.select_list = <<>> \/ ReturnTypePanics(e.select_list[1]))

\* return_type, where it does not panic
ReturnType(e) ==
    CASE e.kind = "Constant"  -> e.data_type
      [] e.kind = "ColumnRef" -> e.column_catalog.data_type
      [] e.kind \in {"InputRef", "BinaryOp", "AggFunc"} -> e.return_type
      [] e.kind = "TypeCast"  -> e.cast_type
      [] e.kind = "Alias"     -> ReturnType(e.expr)
      [] e.kind = "Subquery"  -> ReturnType(e.select_list[1])

\* Faulty variant of Beneath: a cast does not look beneath itself.
BeneathButCast(e) ==
    CASE e.kind = "BinaryOp" -> <<e.left, e.right>>
      [] e.kind = "Alias"    -> <<e.expr>>
      [] e.kind = "AggFunc"  -> e.exprs
      [] OTHER -> <<>>

\* The expressions get_referenced_column_catalog descends into.
Beneath(e) ==
    CASE e.kind = "BinaryOp" -> <<e.left, e.right>>
      [] e.kind \in {"TypeCast", "Alias"} -> <<e.expr>>
      [] e.kind = "AggFunc"  -> e.exprs
      [] OTHER -> <<>>

\* get_referenced_column_catalog panics: unreachable!() for a subquery.
ReferencedColumnsPanics(e) ==
    e.kind = "Subquery" \/ \E i \in DOMAIN Beneath(e) : ReferencedColumnsPanics(Beneath(e)[i])

\* get_referenced_column_catalog, where it does not panic
ReferencedColumns(e) ==
    IF e.kind = "ColumnRef" THEN <<e.column_catalog>>
    ELSE FlattenSeq([i \in DOMAIN Beneath(e) |-> ReferencedColumns(Beneath(e)[i])])

\* output_column_catalog panics: the two unreachable!(), the unwrap of a
\* return type that is None, exprs[0] of no arguments, and self.nullable().
OutputColumnPanics(e) ==
    \/ e.kind \in {"InputRef", "Subquery"}
    \/ e.kind = "BinaryOp" /\ (OutputColumnPanics(e.left) \/ OutputColumnPanics(e.right)
                                  \/ e.return_type = NONE)
    \/ e.kind = "TypeCast" /\ OutputColumnPanics(e.expr)
    \/ e.kind = "AggFunc" /\ (e.exprs = <<>> \/ OutputColumnPanics(e.exprs[1]))
    \/ e.kind = "Alias" /\ (ReturnTypePanics(e.expr) \/ ReturnType(e.expr) = NONE)
    \/ NullablePanics(e)

\* output_column_catalog, where it does not panic; the column id is left out.
OutputColumnCatalog(e) ==
    [table_id |-> CASE e.kind \in {"Constant", "BinaryOp"} -> ""
                    [] e.kind = "ColumnRef" -> e.column_catalog.table_id
                    [] e.kind = "TypeCast"  -> OutputColumnCatalog(e.expr).table_id
                    [] e.kind = "AggFunc"   -> OutputColumnCatalog(e.exprs[1]).table_id
                    [] e.kind = "Alias"     -> e.table_id,
     nullable  |-> Nullable(e),
     data_type |-> ReturnType(e)]

-----------------------------------------------------------------------------
\* binder/expression/mod.rs: impl Binder

\* Faulty variant of ColumnOfSomeTable: no ambiguous column check.
ColumnOfLastTable(context, column_name, order) ==
    LET found == SelectSeq(order, LAMBDA t : column_name \in DOMAIN context.tables[t])
    IN  IF found = <<>> THEN <<>> ELSE <<context.tables[Last(found)][column_name]>>

\* The loop over context.tables.values(), in the order the hash map yields
\* them: the column catalogs got, two standing for the ambiguous column.
ColumnOfSomeTable(context, column_name, order) ==
    LET found == SelectSeq(order, LAMBDA t : column_name \in DOMAIN context.tables[t])
    IN  [i \in 1..Min({2, Len(found)}) |-> context.tables[found[i]][column_name]]

ColumnRef(column_catalog) == Ok([kind |-> "ColumnRef", column_catalog |-> column_catalog])

\* bind_column_ref_from_identifiers
BindColumnRef(context, idents, order) ==
    LET lowered     == [i \in DOMAIN idents |-> Lower(idents[i])]
        table       == lowered[Len(lowered) - 1]
        column_name == Last(lowered)
        got_column  == ColumnOfSomeTable(context, column_name, order)
    IN  IF Len(idents) \notin 1..3 THEN Err("InvalidTableName")
        ELSE IF Len(idents) > 1
            THEN IF table \notin DOMAIN context.tables THEN Err("InvalidTable")
                 ELSE IF column_name \notin DOMAIN context.tables[table]
                     THEN Err("InvalidColumn")
                 ELSE ColumnRef(context.tables[table][column_name])
        ELSE IF Len(got_column) = 2 THEN Err("AmbiguousColumn")
        ELSE IF Len(got_column) = 1 THEN ColumnRef(got_column[1])
        ELSE IF column_name \in DOMAIN context.aliases THEN Ok(context.aliases[column_name])
        ELSE Err("InvalidColumn")

\* bind_expr: the arms that stay in this file.  A binary operator, a function
\* and a subquery are bound elsewhere (expr.bound is what they answer), any
\* other expression is a todo!().
RECURSIVE BindExpr(_, _, _)
BindExpr(context, expr, order) ==
    CASE expr.kind = "Identifier" -> BindColumnRef(context, <<expr.ident>>, order)
      [] expr.kind = "CompoundIdentifier" -> BindColumnRef(context, expr.idents, order)
      [] expr.kind = "Value"  -> Ok([kind |-> "Constant", data_type |-> expr.data_type])
      [] expr.kind = "Nested" -> BindExpr(context, expr.expr, order)
      [] expr.kind \in {"BinaryOp", "Function", "Subquery"} -> expr.bound
      [] OTHER -> Panic

-----------------------------------------------------------------------------
\* execution/expression_executor.rs

\* The results up to the first that is not Ok: collect() and `?` stop there.
Collected(results) ==
    LET failed == SelectInSeq(results, LAMBDA r : ~r.ok)
    IN  IF failed = 0 THEN Ok([i \in DOMAIN results |-> results[i].value])
        ELSE results[failed]

RECURSIVE ExecuteInternal(_, _)

\* The loop of the conjunction arm: each child evaluated, then folded into
\* the result by the function.
ConjunctionLoop(e, input, children) ==
    FoldLeft(LAMBDA result, child :
                 IF ~result.ok THEN result
                 ELSE LET next == ExecuteInternal(child, input)
                      IN  IF ~next.ok THEN next
                          ELSE Apply(e.function, <<result.value, next.value>>),
             ExecuteInternal(e.children[1], input), children)

\* Faulty variant of Conjunction: the loop starts one child late.
ConjunctionFromSecond(e, input) ==
    ConjunctionLoop(e, input, SubSeq(e.children, 3, Len(e.children)))

\* The conjunction arm past its assert: the first child, then the loop over
\* 1..children.len().
Conjunction(e, input) == ConjunctionLoop(e, input, Tail(e.children))

\* execute_internal
ExecuteInternal(expr, input) ==
    LET args(children) == Collected([i \in DOMAIN children |->
                                        ExecuteInternal(children[i], input)])
        applied(children) == IF args(children).ok
                             THEN Apply(expr.function, args(children).value)
                             ELSE args(children)
    IN  CASE expr.kind = "ColumnRef" -> Panic
          [] expr.kind = "Constant" -> Ok(expr.value)
          [] expr.kind = "Reference" ->
                IF expr.index \in DOMAIN input THEN Ok(input[expr.index]) ELSE Panic
          [] expr.kind = "Cast" -> applied(<<expr.child>>)
          [] expr.kind = "Function" -> applied(expr.children)
          [] expr.kind = "Comparison" -> applied(<<expr.left, expr.right>>)
          [] expr.kind = "Conjunction" ->
                IF Len(expr.children) < 2 THEN Panic ELSE Conjunction(expr, input)

\* execute
Execute(expressions, input) ==
    Collected([i \in DOMAIN expressions |-> ExecuteInternal(expressions[i], input)])

\* execute_scalar over the one-row batch; the second assert compares the
\* type of the column with the return type of the expression.
ExecuteScalar(expression, dummy_batch) ==
    LET res == Execute(<<expression>>, dummy_batch.value)
    IN  IF ~dummy_batch.ok THEN dummy_batch
        ELSE IF ~res.ok THEN res
        ELSE IF res.value[1].data_type # expression.return_type THEN Panic
        ELSE Ok(res.value[1])

-----------------------------------------------------------------------------
\* executor/table_scan.rs

\* execute: the batches yielded, and how the stream ends.  batches is what
\* next_batch answers call after call, ending with Ok(NONE) or an error.
TableScan(table_ok, read_ok, batches) ==
    LET last == SelectInSeq(batches, LAMBDA b : ~b.ok \/ b.value = NONE)
    IN  IF ~table_ok THEN [yielded |-> <<>>, end |-> Err("get_table")]
        ELSE IF ~read_ok THEN [yielded |-> <<>>, end |-> Err("read")]
        ELSE [yielded |-> [i \in 1..(last - 1) |-> batches[i].value],
              end |-> IF batches[last].ok THEN Ok(NONE) ELSE batches[last]]

=============================================================================
