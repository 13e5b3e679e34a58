--------------------------- MODULE MCActionProtocol ---------------------------
(* Small lists of actions for TLC, all of them orderly. *)
EXTENDS ActionProtocol

Lists(names, n) == UNION {[1..k -> names] : k \in 0..n}

MCAttributes ==
  {<<"outer">>} \cup UNION {{<<a, "outer">>, <<"outer", a>>} :
     a \in {"values", "save", "inner", "check", "errors", "require", "reload", "close", "new"}}
MCOuters == Lists({"values", "save", "inner", "check"}, 2) \cup {<<"values", "inner", "alert">>}
MCInners == Lists({"values", "validate", "info", "check", "new"}, 2)
              \cup {<<"reload">>, <<"error", "values">>}
MCChecks ==
  {<<>>, <<"Error">>, <<"Info", "Info">>, <<"Alert", "Error">>, <<"Alert", "Alert">>, <<"Alert", "Info">>}

ASSUME OrderlyLists == Orderly
=============================================================================
