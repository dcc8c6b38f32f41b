------------------------------ MODULE MCDoorbell ------------------------------
EXTENDS Doorbell

(* Two callers share channel 0; channel 1, whose request area is channel   *)
(* 0's response area, has one.                                             *)
MCCallers == {<<0, 1>>, <<0, 2>>, <<1, 1>>}

(* One caller on channel 0 alone.                                          *)
MCOneCaller == {<<0, 1>>}
===============================================================================
