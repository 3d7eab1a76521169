---------------------------- MODULE MCMasterData -----------------------------
(* A small instance of MasterData for TLC.                                 *)
EXTENDS MasterData, TLC

\* One row of each table, and two departments.
OneOfEach ==
  {<<"department", 1>>, <<"department", 2>>, <<"cost_center", 1>>, <<"fund_center", 1>>,
   <<"code_group", 1>>, <<"code", 1>>, <<"user", 1>>, <<"trip", 1>>, <<"report", 1>>,
   <<"item", 1>>}

Symmetry == Permutations(Workers)
=============================================================================
