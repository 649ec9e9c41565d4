-------------------------- MODULE MCVariableFetch --------------------------
(***************************************************************************)
(* Instances of VariableFetch for TLC.  The layouts of the boards are      *)
(* written out, and an assumption compares them with what the operators of *)
(* VariableGraph derive from lists of variables.                           *)
(***************************************************************************)
EXTENDS VariableFetch, VariableGraph

Query(n, refs) == [name |-> n, type |-> "QUERY", refs |-> refs]
Dynamic(n) == [name |-> n, type |-> "DYNAMIC", refs |-> {}]
Custom(n) == [name |-> n, type |-> "OTHER", refs |-> {}]

Lists == [
    \* b and c mention a, c mentions b too and is listed first; d is dynamic.
    diamond |-> <<Query("a", {}), Query("c", {"a", "b"}), Query("b", {"a"}), Dynamic("d")>>,
    \* Two parents of one query variable, one of them not fetched at all.
    parents |-> <<Custom("x"), Query("b", {}), Query("c", {"x", "b"}), Dynamic("d")>>,
    \* Two dynamic variables beside a query variable.
    dynamics |-> <<Query("a", {}), Dynamic("d"), Dynamic("e")>>,
    \* A query variable that mentions a query variable and a dynamic one.
    mention |-> <<Query("a", {}), Query("c", {"a", "d"}), Dynamic("d")>>]

\* f where it is defined, and default for all other names.
Filled(f, default) == [n \in Names |-> IF n \in DOMAIN f THEN f[n] ELSE default]

Typed(queries, dynamics) ==
    [n \in Names |-> IF n \in queries THEN "QUERY"
                     ELSE IF n \in dynamics THEN "DYNAMIC" ELSE "OTHER"]

\* A definition apart from Layouts, which TLC evaluates once.
BoardLayouts == [
    diamond |->
        [vars |-> {"a", "b", "c", "d"}, type |-> Typed({"a", "b", "c"}, {"d"}),
         kids |-> Filled([a |-> {"b", "c"}, b |-> {"c"}], {}),
         desc |-> Filled([a |-> <<"c", "b">>, b |-> <<"c">>], <<>>),
         order |-> <<"a", "b", "c">>, dyn |-> <<"d">>],
    parents |->
        [vars |-> {"b", "c", "d", "x"}, type |-> Typed({"b", "c"}, {"d"}),
         kids |-> Filled([b |-> {"c"}, x |-> {"c"}], {}),
         desc |-> Filled([b |-> <<"c">>, x |-> <<"c">>], <<>>),
         order |-> <<"b", "c">>, dyn |-> <<"d">>],
    dynamics |->
        [vars |-> {"a", "d", "e"}, type |-> Typed({"a"}, {"d", "e"}),
         kids |-> Filled(<<>>, {}), desc |-> Filled(<<>>, <<>>),
         order |-> <<"a">>, dyn |-> <<"d", "e">>],
    mention |->
        [vars |-> {"a", "c", "d"}, type |-> Typed({"a", "c"}, {"d"}),
         kids |-> Filled([a |-> {"c"}, d |-> {"c"}], {}),
         desc |-> Filled([a |-> <<"c">>, d |-> <<"c">>], <<>>),
         order |-> <<"a", "c">>, dyn |-> <<"d">>]]

Layouts == BoardLayouts

\* They are what computeDerivedValues makes of the lists.
ASSUME LayoutsAreDerived ==
    \A b \in Boards : Layouts[b] = computeDerivedValues(Lists[b], Names)
=============================================================================
