---------------------------- MODULE MCConfigStore ----------------------------
(* The user's task and a script, the defaults and another setting, one      *)
(* password, one clock frequency, and one failure.                          *)
EXTENDS ConfigStore

CONSTANTS user, script, dflt, other, typed, mhz

MCTasks == {user, script}
MCSettings == {dflt, other}
MCPasswords == {typed}
MCClocks == {mhz}
=============================================================================
