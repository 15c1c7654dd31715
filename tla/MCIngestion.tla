---------------------------- MODULE MCIngestion ----------------------------
(***************************************************************************)
(* Two consumers of one partition.  One event is published elsewhere, one  *)
(* is reported to the API, one names an unknown production, one has a      *)
(* payload that no insert gets past.                                       *)
(***************************************************************************)
EXTENDS Ingestion

CONSTANTS c1, c2, evTopic, evPosted, evStranger, evRefused
=============================================================================
