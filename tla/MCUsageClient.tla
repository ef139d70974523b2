---------------------------- MODULE MCUsageClient ----------------------------
(***************************************************************************)
(* Small instances of UsageClient.  Two accounts, so that a relink can     *)
(* meet the leftovers of the other one; four generations, so that both can *)
(* be linked with an unlink between; two configurations; and enough        *)
(* changed days to write each slot twice under one account.                *)
(***************************************************************************)
EXTENDS UsageClient
===============================================================================
