--------------------------- MODULE MCCounterAlarm ---------------------------
(* Small instances of CounterAlarm for TLC. *)
EXTENDS CounterAlarm

CONSTANTS a1, a2

None == {}

(* <<2, 2>> is left out: it would explain a wrong enable() as a setting.     *)
Ahead == {<<0, 0>>, <<1, 0>>, <<2, 0>>, <<0, 2>>, <<1, 2>>, <<3, 3>>, <<1, 1>>}
Behind == {<<1, 0>>, <<-3, 2>>, <<-1, 2>>, <<1, 3>>}
=============================================================================
