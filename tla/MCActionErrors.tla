---------------------------- MODULE MCActionErrors ----------------------------
(* A failing condition, or failing values, in a group: not orderly. *)
EXTENDS ActionProtocol

Outer == {<<"outer">>}
Nesting == {<<"inner", "values">>}
Failing == {<<f, "values">> : f \in {"require", "errors"}}
NoChecks == {<<>>}
=============================================================================
