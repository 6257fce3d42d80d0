--------------------------------- MODULE MCTurn ---------------------------------
(* An instance of Turn: the list of models to fall back on.                *)
EXTENDS Turn

OneFallback == <<"small">>
=============================================================================
