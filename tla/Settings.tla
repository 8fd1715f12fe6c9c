------------------------------ MODULE Settings ------------------------------
(***************************************************************************)
(* The runs of Configurator calls that write the settings of an interface  *)
(* (nvmeof-ts/lib/tsapi_opts.c), each naming a setting and its new value:  *)
(* MTU and offloads, and the netem discipline that makes a link bad.  What *)
(* they write is a recursive function instead of a fold, so that proofs    *)
(* can unfold it.                                                          *)
(***************************************************************************)
EXTENDS Naturals, Sequences

Set(name, value) == [name |-> name, value |-> value]

\* The settings after the first n of the calls
AfterCalls(settings, calls) ==
  LET after[n \in 0..Len(calls)] ==
        IF n = 0 THEN settings
        ELSE [after[n - 1] EXCEPT ![calls[n].name] = calls[n].value]
  IN  after

-----------------------------------------------------------------------------

\* The features that make up TSO, in the order of the array "tso".
TsoFeatures == <<"tx-tcp-segmentation", "tx-tcp-ecn-segmentation",
                 "tx-tcp6-segmentation", "tx-tcp-mangleid-segmentation">>

IfFeatureNames ==
  {TsoFeatures[k] : k \in DOMAIN TsoFeatures} \cup {"mtu", "rx-lro"}

\* tsapi_apply_if_feature_opts.  The TSO features get the value of LRO.
FeatureCalls(opts) ==
  <<Set("mtu", opts.mtu)>>
  \o [k \in DOMAIN TsoFeatures |-> Set(TsoFeatures[k], opts.lro)]
  \o <<Set("rx-lro", opts.lro)>>

TE_MS2US(ms) == ms * 1000

\* Mutant: the discipline is enabled before it has its parameters
NetemCallsEager(opts) ==
  <<Set("enabled", FALSE), Set("kind", "netem"), Set("enabled", TRUE),
    Set("delay", TE_MS2US(opts.delay)), Set("loss", opts.loss),
    Set("corruption", opts.corruption)>>

\* tsapi_apply_if_netem_opts
NetemCalls(opts) ==
  <<Set("enabled", FALSE), Set("kind", "netem"),
    Set("delay", TE_MS2US(opts.delay)), Set("loss", opts.loss),
    Set("corruption", opts.corruption), Set("enabled", TRUE)>>
=============================================================================
