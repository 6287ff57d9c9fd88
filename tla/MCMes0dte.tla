----------------------------- MODULE MCMes0dte -----------------------------
(* Three ticks, the last two at or after the force-close time, and an entry *)
(* job that is started up to three times.                                   *)
EXTENDS Mes0dte
=============================================================================
