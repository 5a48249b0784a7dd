---------------------------- MODULE MCGeolocation ----------------------------
(* Geolocation with a few lookups and backends.                             *)
EXTENDS Geolocation, TLC
==============================================================================
