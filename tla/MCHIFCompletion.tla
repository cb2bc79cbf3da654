-------------------------- MODULE MCHIFCompletion ---------------------------
(* Instances of HIFCompletion for TLC.                                     *)
EXTENDS HIFCompletion, TLC

CONSTANTS timer, b1, b2, r1, r2, r3

(* One tasklet for all engines: the default, with a single interrupt. *)
TaskletOnly == {Tasklet}
TaskletServices == [c \in {Tasklet} |-> Pipes]

(* host_CE_config_wlan_epping_poll: download engines are polled by timers. *)
TaskletAndTimer == {Tasklet, timer}
PolledServices == [c \in {Tasklet, timer} |-> IF c = timer THEN {"rx"} ELSE {"tx"}]

MCTxBufs == {b1, b2}
MCRxBufs == {r1, r2, r3}
MCFrags == [b \in {b1, b2} |-> IF b = b1 THEN 3 ELSE 1]

Symmetry == Permutations({r1, r2, r3})
=============================================================================
