------------------------------ MODULE MCStores -------------------------------
(* What is kept in files, checked in one run as three parts that share no    *)
(* state: a behaviour is one of the part that the start has chosen, while    *)
(* the others rest.                                                          *)
(*                                                                           *)
(* Services: two tasks, two keys, a short value and a long one.  The long    *)
(* value fits beside a short one or none, not beside another long one.       *)
(* Configuration: the user's task and a script, the defaults and another     *)
(* setting, one password, one clock frequency.  Files: the crontab and       *)
(* another one, two uploads.                                                 *)
EXTENDS SvcStore, ConfigStore, FileReplace

CONSTANTS t1, t2, k1, k2, short, long, dflt, other, typed, mhz, crontab, plain

MCTasks == {t1, t2}
MCKeys == {k1, k2}
MCValues == {short, long}
MCSettings == {dflt, other}
MCPasswords == {typed}
MCClocks == {mhz}
MCPaths == {crontab, plain}

MCContents == [MCKeys -> MCValues \cup {None}]
MCFitting == {content \in MCContents : \E k \in MCKeys : content[k] # long}

VARIABLE part  \* the part that runs

MCInit ==
    /\ part \in {"services", "config", "files"}
    /\ Init /\ ConfigInit /\ FilesInit

MCNext ==
    \/ part = "services" /\ Next /\ UNCHANGED <<part, configVars, fileVars>>
    \/ part = "config" /\ ConfigNext /\ UNCHANGED <<part, vars, fileVars>>
    \/ part = "files" /\ FilesNext /\ UNCHANGED <<part, vars, configVars>>

MCSpec == MCInit /\ [][MCNext]_<<part, vars, configVars, fileVars>> /\ Fairness
=============================================================================
