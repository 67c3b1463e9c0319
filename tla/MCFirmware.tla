----------------------------- MODULE MCFirmware -----------------------------
(* Small sessions: a few bus cycles after the two of the reset vector.     *)
EXTENDS Firmware

Never == 99    \* trigger_cycle while a trigger watchpoint is awaited

\* Tracing from the first cycle, with a limit; an untraced session with a time
\* limit; all three watchpoints.
Traced  == [trace |-> TRUE,  trigger |-> 0, max |-> 4, watch |-> {}, timed |-> FALSE]
Timed   == [trace |-> TRUE,  trigger |-> 4, max |-> 4, watch |-> {}, timed |-> TRUE]
Watched == [trace |-> TRUE,  trigger |-> Never, max |-> 4, watch |-> Watchpoints, timed |-> FALSE]

\* For the runs that look at one feature.
OnlyTraced  == {Traced}
OnlyTrigger == {[Watched EXCEPT !.watch = {"trigger"}]}

MCConfigs == {Traced, Timed, Watched}
=============================================================================
