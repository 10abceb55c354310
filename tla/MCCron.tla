-------------------------------- MODULE MCCron ------------------------------
(* A schedule in a zone whose clocks go forward by an hour, of two ticks.      *)
EXTENDS Cron

SpringZones == {[at |-> t, by |-> 2] : t \in {6, 8}}
=============================================================================
