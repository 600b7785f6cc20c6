-------------------------- MODULE MCToolActivation --------------------------
(* Model values for ToolActivation: two models; two configurations, one for  *)
(* both and one for the second only, whose options differ, so that the       *)
(* second has two capability keys; a tool of every class, and two core tools *)
(* with another tool between them, so that the restored order can be told    *)
(* from others.                                                              *)
EXTENDS ToolActivation

CONSTANTS m1, m2, x, y

MCModels == {m1, m2}
MCOptions == {x, y}
MCDefaultSelected == {m1}
MCConfigs ==
    {[selected |-> {m1, m2}, option |-> x], [selected |-> {m2}, option |-> y]}
MCManagedOrder == <<"exec_command">>
MCInitialTools == <<"read", "search", "bash", "exec_command">>
=============================================================================
