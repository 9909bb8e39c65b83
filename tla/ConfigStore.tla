----------------------------- MODULE ConfigStore -----------------------------
(***************************************************************************)
(* The configuration, main/core/config.cpp: one record g_config that every *)
(* task changes, and one file that whoever changed it writes as a whole,   *)
(* in place and without a lock; with the BIOS menus that keep and restore  *)
(* copies of the file (bios_system.cpp, k85os_menu.cpp).                   *)
(*                                                                         *)
(* A configuration is a setting, which stands for all that is stored as it *)
(* is, the WiFi password, which is stored encrypted, and the clock         *)
(* frequency, which is not stored.  A file opened for writing is empty at  *)
(* once, and has its content when it is closed.                            *)
(***************************************************************************)
EXTENDS Naturals, Sequences

CONSTANTS Tasks,       \* tasks that change the configuration
          ui,          \* the one among them that runs the BIOS
          Settings,
          Default,     \* the setting of k85_config_defaults
          Passwords,   \* what a user types
          NoPassword,  \* the empty string
          Coded,       \* a string that encrypt_to_hex made
          Clocks,      \* what a user chooses for cpu_freq_mhz
          NoClock,     \* the clock frequency of k85_config_defaults
          NoFile,      \* there is no file
          Blank,       \* a file without a configuration
          Unknown,     \* nothing can be said of the next start
          MaxPoints,   \* RP_MAX
          MaxFailures  \* bound of the failures

VARIABLES phase,     \* "off", "bios" (no other task runs yet) or "up"
          config,    \* g_config
          cfgFile,   \* /littlefs/k85os_config.json
          points,    \* the restore points, oldest first
          at,        \* where each task is in a save
          text,      \* what it is going to write
          making,    \* the save is the first step of a restore point
          failures   \* number of failures so far
VARIABLES due,       \* history: the configuration the next start has to bring
          late       \* history: tasks that write what another has changed since

configVars == <<phase, config, cfgFile, points, at, text, making, failures, due, late>>

Configs == [setting : Settings, password : Passwords \cup {NoPassword, Coded},
            clock : Clocks \cup {NoClock}]

\* What is written to a file.
Texts == [setting : Settings, password : {NoPassword, Coded}]

ASSUME ConfigAssumption ==
    /\ ui \in Tasks /\ Default \in Settings
    /\ NoFile \notin Texts /\ Blank \notin Texts /\ Unknown \notin Configs
    /\ MaxPoints \in Nat \ {0} /\ MaxFailures \in Nat

Defaults == [setting |-> Default, password |-> NoPassword, clock |-> NoClock]

\* encrypt_to_hex leaves an empty string empty.
Encrypted(p) == IF p = NoPassword THEN NoPassword ELSE Coded

\* cfg_to_json; it has no line for cpu_freq_mhz.
Stored(c) == [setting |-> c.setting, password |-> Encrypted(c.password)]

ConfigInit ==
    /\ phase = "off" /\ config = Defaults
    /\ cfgFile = NoFile /\ points = <<>>
    /\ at = [t \in Tasks |-> "idle"] /\ text = [t \in Tasks |-> Blank]
    /\ making = FALSE /\ failures = 0
    /\ due = Defaults /\ late = {}

-----------------------------------------------------------------------------
SaveFailure == failures < MaxFailures /\ failures' = failures + 1

\* The tasks that can run: before the system is up only the user's.
Runs(t) == phase = "up" \/ (phase = "bios" /\ t = ui)

MoveTo(t, place, content) ==
    /\ at' = [at EXCEPT ![t] = place]
    /\ text' = [text EXCEPT ![t] = content]

\* The save returns, its result ignored: to the caller, or to the copying.
Return(t) == MoveTo(t, IF making THEN "copy" ELSE "idle", Blank)

\* Bug to catch: the value is assigned when the file is already on its way.
ChangeAfter(t, c) ==
    /\ Runs(t) /\ at[t] = "idle"
    /\ config' = c
    /\ MoveTo(t, "taken", Stored(config))
    /\ late' = late \cup {u \in Tasks : at[u] \in {"taken", "open"}}
    /\ UNCHANGED <<phase, cfgFile, points, making, failures, due>>

\* A task assigns to g_config and calls k85_config_save: a setting or a high
\* score, a password that was typed or is wiped, or everything at once.
Change(t, c) ==
    /\ Runs(t) /\ at[t] = "idle"
    /\ config' = c
    /\ MoveTo(t, "save", Blank)
    /\ late' = late \cup {u \in Tasks : at[u] \in {"taken", "open"}}
    /\ UNCHANGED <<phase, cfgFile, points, making, failures, due>>

SetSetting(t) == \E s \in Settings : Change(t, [config EXCEPT !.setting = s])

SetPassword ==
    \E p \in Passwords \cup {NoPassword} : Change(ui, [config EXCEPT !.password = p])

\* The settings menu, k85_cpu_freq_cycle, when the frequency could be set.
SetClock ==
    phase = "up" /\ \E m \in Clocks : Change(ui, [config EXCEPT !.clock = m])

Reset == phase = "bios" /\ Change(ui, Defaults)

\* k85_config_save: the text is made, if there is memory; ...
MakeText(t) ==
    /\ at[t] = "save"
    /\ \/ MoveTo(t, "taken", Stored(config)) /\ UNCHANGED failures
       \/ Return(t) /\ SaveFailure
    /\ late' = late \ {t}
    /\ UNCHANGED <<phase, config, cfgFile, points, making, due>>

\* ... the file is opened, which empties it, or cannot be opened; ...
OpenFile(t) ==
    /\ at[t] = "taken"
    /\ \/ cfgFile' = Blank /\ due' = Unknown
          /\ MoveTo(t, "open", text[t]) /\ UNCHANGED failures
       \/ UNCHANGED <<cfgFile, due>> /\ Return(t) /\ SaveFailure
    /\ UNCHANGED <<phase, config, points, making, late>>

\* ... and the text gets into it when it is closed, or never.
WriteText(t) ==
    /\ at[t] = "open"
    /\ \/ /\ cfgFile' = text[t]
          /\ due' = IF t \in late THEN Unknown ELSE config
          /\ UNCHANGED failures
       \/ UNCHANGED <<cfgFile, due>> /\ SaveFailure
    /\ Return(t)
    /\ UNCHANGED <<phase, config, points, making, late>>

Save(t) == MakeText(t) \/ OpenFile(t) \/ WriteText(t)

-----------------------------------------------------------------------------
(* Restore points, of the BIOS.                                            *)

InBios == phase = "bios" /\ at[ui] = "idle"

\* rp_create: the oldest one makes room, the configuration is saved, ...
NewPoint ==
    /\ InBios
    /\ points' = IF Len(points) >= MaxPoints THEN Tail(points) ELSE points
    /\ making' = TRUE
    /\ MoveTo(ui, "save", Blank)
    /\ UNCHANGED <<phase, config, cfgFile, failures, due, late>>

\* ... and the file, whatever it now holds, is copied: copy_file.
Copy ==
    /\ at[ui] = "copy"
    /\ \/ cfgFile # NoFile /\ points' = Append(points, cfgFile) /\ UNCHANGED failures
       \/ cfgFile = NoFile /\ UNCHANGED <<points, failures>>
       \/ UNCHANGED points /\ SaveFailure
    /\ making' = FALSE
    /\ MoveTo(ui, "idle", Blank)
    /\ UNCHANGED <<phase, config, cfgFile, due, late>>

DeletePoint(i) ==
    /\ InBios
    /\ points' = SubSeq(points, 1, i - 1) \o SubSeq(points, i + 1, Len(points))
    /\ UNCHANGED <<phase, config, cfgFile, at, text, making, failures, due, late>>

\* rp_restore: the copy is made under another name, ...
Restore(i) ==
    /\ InBios
    /\ MoveTo(ui, "unlink", points[i])
    /\ UNCHANGED <<phase, config, cfgFile, points, making, failures, due, late>>

RemoveFile ==
    /\ at[ui] = "unlink"
    /\ cfgFile' = NoFile /\ due' = Unknown
    /\ MoveTo(ui, "rename", text[ui])
    /\ UNCHANGED <<phase, config, points, making, failures, late>>

\* The memory is gone, and with it every task.
Stops ==
    /\ phase' = "off" /\ config' = Defaults
    /\ at' = [t \in Tasks |-> "idle"] /\ text' = [t \in Tasks |-> Blank]
    /\ making' = FALSE /\ late' = {}

\* What k85_config_load makes of a file: what it says laid over the defaults,
\* and the defaults if it cannot be read or parsed.
Read(f) == IF f \in Texts THEN [Defaults EXCEPT !.setting = f.setting, !.password = f.password]
                          ELSE Defaults

\* ... becomes the file, and the device restarts.
RenameCopy ==
    /\ at[ui] = "rename"
    /\ \/ /\ cfgFile' = text[ui] /\ due' = Read(text[ui])
          /\ Stops
          /\ UNCHANGED failures
       \/ /\ MoveTo(ui, "idle", Blank)
          /\ SaveFailure
          /\ UNCHANGED <<phase, config, cfgFile, making, due, late>>
    /\ UNCHANGED points

\* The defaults are saved, the file system is formatted, the device restarts.
FactoryReset ==
    /\ InBios
    /\ Stops
    /\ cfgFile' = NoFile /\ points' = <<>> /\ due' = Defaults
    /\ UNCHANGED failures

-----------------------------------------------------------------------------
\* k85_config_load, before anything else runs.
Load ==
    /\ phase = "off" /\ phase' = "bios"
    /\ \/ config' = Read(cfgFile) /\ UNCHANGED failures
       \/ config' = Defaults /\ SaveFailure
    /\ UNCHANGED <<cfgFile, points, at, text, making, due, late>>

BootDone ==
    /\ InBios
    /\ phase' = "up"
    /\ UNCHANGED <<config, cfgFile, points, at, text, making, failures, due, late>>

\* A restart or a power cut, at any moment.
PowerOff ==
    /\ phase # "off"
    /\ Stops
    /\ UNCHANGED <<cfgFile, points, failures, due>>

ConfigNext ==
    \/ \E t \in Tasks : SetSetting(t) \/ Save(t)
    \/ SetPassword \/ SetClock \/ Reset
    \/ NewPoint \/ Copy \/ RemoveFile \/ RenameCopy \/ FactoryReset
    \/ \E i \in DOMAIN points : DeletePoint(i) \/ Restore(i)
    \/ Load \/ BootDone \/ PowerOff

ConfigSpec == ConfigInit /\ [][ConfigNext]_configVars

-----------------------------------------------------------------------------
(* Properties.                                                             *)

\* There are no more restore points than RP_MAX.
ConfigTypeOK ==
    /\ phase \in {"off", "bios", "up"}
    /\ config \in Configs
    /\ cfgFile \in Texts \cup {NoFile, Blank}
    /\ points \in Seq(Texts \cup {Blank}) /\ Len(points) <= MaxPoints
    /\ at \in [Tasks -> {"idle", "save", "taken", "open", "copy", "unlink", "rename"}]
    /\ text \in [Tasks -> Texts \cup {Blank}]
    /\ making \in BOOLEAN /\ failures \in 0 .. MaxFailures
    /\ due \in Configs \cup {Unknown} /\ late \in SUBSET Tasks

\* A start brings back the configuration that was saved last, its password
\* encrypted and without its clock frequency, or the restore point that was
\* chosen: no other value that was changed without failure is lost and nothing
\* returns.  Excepted are saves that the power interrupts, that fail, or that
\* write what another task has changed since.
StartBringsBack ==
    [][phase = "off" /\ phase' = "bios" /\ failures' = failures /\ due # Unknown =>
          /\ config'.setting = due.setting
          /\ config'.password = Encrypted(due.password)]_configVars

\* cpu_freq.h:7-9 says that a start applies the frequency of g_config: the one
\* that was saved last, if the save did not fail and nothing came after it.
ClockIsKept ==
    [][phase = "off" /\ phase' = "bios" /\ failures' = failures /\ due # Unknown =>
          config'.clock = due.clock]_configVars

\* config.cpp:113 says that g_config holds the password in plain text, which
\* the connection to the saved network needs.
PasswordIsPlain == config.password # Coded
=============================================================================
