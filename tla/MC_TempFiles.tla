---------------------------- MODULE MC_TempFiles ----------------------------
(* Two requests upload one file for two areas; one goroutine of the cron   *)
(* job.                                                                    *)
EXTENDS TempFiles

=============================================================================
