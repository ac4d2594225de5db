---------------------------- MODULE MCLifecycle ----------------------------
(* Small instances of Lifecycle for TLC.                                   *)
EXTENDS Lifecycle

\* Every configuration.
MCConfigs == [production: BOOLEAN, longSecret: BOOLEAN, geo: BOOLEAN, bot: BOOLEAN]
=============================================================================
