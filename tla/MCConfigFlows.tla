--------------------------- MODULE MCConfigFlows ---------------------------
(* ConfigFlows on a few dialogs, entries and backends.                      *)
EXTENDS ConfigFlows, TLC
=============================================================================
