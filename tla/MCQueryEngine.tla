---------------------------- MODULE MCQueryEngine ---------------------------
(***************************************************************************)
(* A catalog of three names, one table t(a Int, b Text) and the builtins   *)
(* add and sub; queries over t with stars, aliases, a repeated alias, an   *)
(* unknown table and an expression that does not bind.                     *)
(*                                                                         *)
(* The fields of every record are written in the order in which their      *)
(* names first appear in this module, which is the order TLC keeps them    *)
(* in: the inputs its workers share are then never rearranged.             *)
(***************************************************************************)
EXTENDS QueryEngine

T == [kind |-> "table", columns |-> <<[name |-> "a", ty |-> "Int"], [name |-> "b", ty |-> "Text"]>>]

MCBuiltins == <<"add", "sub">>
MCEntries  == {T, FunctionEntry}
MCUnbound  == {"bad"}
MCExprType(expr) == IF expr = "b" THEN "Text" ELSE "Int"

U(expr)        == [kind |-> "UnnamedExpr", expr |-> expr]
A(expr, alias) == [kind |-> "ExprWithAlias", expr |-> expr, alias |-> alias]
W              == [kind |-> "Wildcard"]
QW(table)      == [kind |-> "QualifiedWildcard", table |-> table]

Select(projection, selection) ==
    [kind |-> "Select", projection |-> projection, selection |-> selection,
     from_ok |-> TRUE, from |-> [columns |-> <<"a", "b">>, table |-> "t"]]

MCQueryBodies ==
    {Select(p, "a") : p \in {<<>>, <<U("a")>>, <<W, A("a+1", "x")>>, <<A("b", "x"), QW("t")>>,
                            <<A("a", "x"), W, A("b", "x")>>, <<QW("u")>>, <<A("bad", "x")>>}}
    \cup {Select(<<A("a", "x"), U("b")>>, s) : s \in {NONE, "bad"}}
    \cup {[Select(<<W>>, "a") EXCEPT !.from_ok = FALSE]}
    \cup {[kind |-> "Values", projection |-> <<>>, from |-> NONE, list_ok |-> l,
           refs_ok |-> r, names |-> <<"col0">>, types |-> <<"Int">>] : l, r \in BOOLEAN}
    \cup {[kind |-> "Table", projection |-> <<>>, from |-> NONE]}

Insert(columns) == [kind |-> "Insert", columns |-> columns, has_source |-> TRUE]

MCInsertStmts ==
    {Insert(columns) : columns \in {<<>>, <<"a">>, <<"b", "a">>, <<"a", "a">>, <<"z">>}}
    \cup {[Insert(<<>>) EXCEPT !.has_source = FALSE], [Insert(<<>>) EXCEPT !.kind = "Query"]}

\* bind_query answers an error, or a plan of one or of two columns.
MCSelectNodes ==
    {Err("bind_query")} \cup {Ok([types |-> ts]) : ts \in {<<"Int">>, <<"Int", "Text">>}}

-----------------------------------------------------------------------------
\* Bound expressions over a nullable column ca and a column cb that is not.
Column(table, name, nullable) ==
    [nullable |-> nullable, table_id |-> table, column_id |-> name, data_type |-> "Int"]

ca == [kind |-> "ColumnRef", column_catalog |-> Column("t1", "a", TRUE)]
cb == [kind |-> "ColumnRef", column_catalog |-> Column("t1", "b", FALSE)]
one == [kind |-> "Constant", data_type |-> "Int"]
in  == [kind |-> "InputRef", return_type |-> "Int"]

Bin(left, right, type) ==
    [kind |-> "BinaryOp", return_type |-> type, left |-> left, right |-> right]
Cast(expr)  == [kind |-> "TypeCast", expr |-> expr, cast_type |-> "Text"]
Agg(exprs)  == [kind |-> "AggFunc", return_type |-> "Int", exprs |-> exprs]
Alias(expr) == [kind |-> "Alias", expr |-> expr, table_id |-> "t1", column_id |-> "x"]
Sub(list)   == [kind |-> "Subquery", select_list |-> list]

MCBoundExprs ==
    {ca, cb, one, in, Bin(ca, ca, "Int"), Bin(ca, cb, "Int"), Bin(cb, in, "Int"),
     Bin(ca, in, "Int"), Bin(ca, one, NONE), Cast(ca), Cast(Bin(ca, ca, "Int")), Cast(Cast(cb)),
     Agg(<<>>), Agg(<<cb, ca>>), Agg(<<Cast(ca)>>), Alias(ca), Alias(Bin(ca, one, NONE)),
     Alias(in), Alias(Sub(<<>>)), Sub(<<>>), Sub(<<ca>>), Bin(Alias(ca), Cast(ca), "Int")}

MCLower(ident) ==
    CASE ident = "A" -> "a" [] ident = "C" -> "c" [] ident = "T2" -> "t2" [] OTHER -> ident

MCBindContexts ==
    {[tables |-> [t1 |-> [a |-> Column("t1", "a", TRUE), b |-> Column("t1", "b", FALSE)],
                  t2 |-> [a |-> Column("t2", "a", FALSE), c |-> Column("t2", "c", TRUE)]],
      aliases |-> [a |-> one, x |-> one]],
     [tables |-> [t1 |-> [a |-> Column("t1", "a", TRUE)]], aliases |-> [c |-> one]],
     [tables |-> <<>>, aliases |-> <<>>]}

Ident(ident) == [kind |-> "Identifier", ident |-> ident]

MCParsedExprs ==
    {Ident(i) : i \in {"A", "b", "c", "x", "z"}}
    \cup {[kind |-> "CompoundIdentifier", idents |-> idents] :
             idents \in {<<"t1", "a">>, <<"T2", "C">>, <<"s", "t1", "a">>, <<"t3", "a">>,
                         <<"t1", "z">>, <<"d", "s", "t1", "a">>}}
    \cup {[kind |-> "Nested", expr |-> Ident("a")], [kind |-> "Value", data_type |-> "Int"],
          [kind |-> "UnaryOp"], [kind |-> "BinaryOp", bound |-> Err("bind_binary_op")]}

-----------------------------------------------------------------------------
\* Executed expressions over booleans.
Bool(v) == [data_type |-> "Boolean", v |-> v]

MCApply(function, args) ==
    CASE function = "and"  -> Ok(Bool(args[1].v /\ args[2].v))
      [] function = "or"   -> Ok(Bool(args[1].v \/ args[2].v))
      [] function = "eq"   -> Ok(Bool(args[1] = args[2]))
      [] function = "not"  -> Ok(Bool(~args[1].v))
      [] function = "text" -> Ok([args[1] EXCEPT !.data_type = "Text"])
      [] function = "fail" -> Err("function")

Const(v)   == [kind |-> "Constant", return_type |-> "Boolean", value |-> Bool(v)]
Ref(index) == [kind |-> "Reference", return_type |-> "Boolean", index |-> index]
Conj(function, children) ==
    [kind |-> "Conjunction", return_type |-> "Boolean", function |-> function,
     children |-> children]
Fn(function, children) ==
    [kind |-> "Function", return_type |-> "Boolean", function |-> function,
     children |-> children]
Compared(left, right) ==
    [kind |-> "Comparison", return_type |-> "Boolean", left |-> left, right |-> right,
     function |-> "eq"]
CastTo(function, child) ==
    [kind |-> "Cast", return_type |-> "Boolean", function |-> function, child |-> child]

MCExecutions ==
    {[expressions |-> <<e>>, input |-> <<Bool(TRUE)>>, scalar |-> scalar] :
        e \in {Const(FALSE), Ref(1), Ref(2), [kind |-> "ColumnRef"],
               Conj("and", <<Const(TRUE)>>), Conj("and", <<Ref(1), Const(FALSE)>>),
               Conj("and", <<Const(TRUE), Ref(1), Const(TRUE)>>),
               Conj("or", <<Const(FALSE), Ref(1), Const(FALSE)>>),
               Conj("or", <<Const(FALSE), Fn("not", <<Ref(1)>>)>>),
               Conj("fail", <<Const(TRUE), Ref(2)>>), Conj("and", <<Const(TRUE), Ref(2)>>),
               Fn("fail", <<Ref(2)>>), Fn("not", <<Fn("fail", <<Ref(1)>>), Ref(2)>>),
               Compared(Ref(1), Const(TRUE)), CastTo("text", Ref(1)), CastTo("fail", Ref(1))},
        scalar \in BOOLEAN}
    \cup {[expressions |-> es, input |-> <<Bool(TRUE)>>, scalar |-> FALSE] :
             es \in {<<>>, <<Ref(1), Conj("and", <<Ref(1), Ref(1)>>)>>,
                     <<Fn("fail", <<>>), Ref(2)>>}}

MCScans ==
    {[table_ok |-> t, read_ok |-> r, batches |-> b] :
        t, r \in BOOLEAN,
        b \in {<<Ok(NONE)>>, <<Ok("b1"), Ok("b2"), Ok(NONE)>>, <<Ok("b1"), Err("next_batch")>>}}

=============================================================================
