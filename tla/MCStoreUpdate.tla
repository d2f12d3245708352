---------------------------- MODULE MCStoreUpdate ----------------------------
(***************************************************************************)
(* TLC instance of StoreUpdate: a cron job beside updates of the Data tab,  *)
(* over one price source and corp_actions.                                 *)
(***************************************************************************)
EXTENDS StoreUpdate, TLC

CONSTANTS stock, corp, cron, tab, noOne

\* The Data tab asks for the prices, cron for everything.
MCSelections == {{stock}}
=============================================================================
