----------------------------- MODULE DailyWindow -----------------------------
(***************************************************************************)
(* The daily allowance of commands, which BaseOmnichainControllerSrc keeps *)
(* for every remote chain and BaseOmnichainControllerDest for the source   *)
(* chain: a window that the first command after its end opens again, and   *)
(* the number of commands counted in it.                                   *)
(***************************************************************************)
EXTENDS Naturals

CONSTANT DAY     \* the length of a window, 1 days in the code

ASSUME DayAssumption == DAY \in Nat \ {0}

Window == [start : Nat, used : Nat]

(* The value of both counters before the first use. *)
NoWindow == [start |-> 0, used |-> 0]

(* Whether more than a day has passed since the window was opened. *)
IsOver(w, time) == time > w.start + DAY

(* Mutant: the counter starts again, the window does not. *)
ChargedKeepingStart(w, time, commands) ==
    IF IsOver(w, time) THEN [w EXCEPT !.used = commands]
    ELSE [w EXCEPT !.used = @ + commands]

(* The window once the commands are counted. *)
Charged(w, time, commands) ==
    IF IsOver(w, time) THEN [start |-> time, used |-> commands]
    ELSE [w EXCEPT !.used = @ + commands]

Fits(w, time, commands, limit) == Charged(w, time, commands).used <= limit
=============================================================================
