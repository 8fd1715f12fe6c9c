----------------------------- MODULE MCNvmeCmd -----------------------------
(***************************************************************************)
(* The command loop with three of the nine commands and three of the       *)
(* fourteen features: both tables are gone through more than twice.        *)
(***************************************************************************)
EXTENDS NvmeCmd

MCCommands == <<"id-ns", "get-feature", "flush">>

MCFeatures ==
  <<[name |-> "FEAT_KATO", supported |-> TRUE],
    [name |-> "FEAT_POWER_MGMT", supported |-> FALSE],
    [name |-> "FEAT_IRQ_CONFIG", supported |-> FALSE]>>

MCSelections ==
  {{"id-ns", "get-feature", "flush"}, {"get-feature", "flush"}, {"get-feature"}, {}}
=============================================================================
