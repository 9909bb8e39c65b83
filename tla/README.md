# A verification project for k85OS

k85OS is a firmware for an ESP32-S3 handheld: menus, tools, games and a number of
network services over ESP-IDF and FreeRTOS. This directory holds TLA+ modules of the
parts of it in which several tasks, power cuts, timeouts or retries meet, TLC
configurations that check them on small instances, and TLAPS proofs for every value of
their constants. The source is the reference: a definition stands for the lines that
PROJECT.json ("map") gives it.

Contents: 1 the system, 2 what each part has to get right, 3 the modules, 4 the runs, 5
fairness, 6 the proofs, 7 what disagrees with its documentation, 8 what is left out, 9
the plan.

## 1. The system

The code of the project itself is `main/` (about 35,000 lines) and the bootloader hook
(93 lines); `components/` holds vendored copies of wolfSSL and wolfSSH. Tasks: the UI
(`app_main`, one modal loop inside another), the boot task (`k85_boot`), the scheduler
(`k85_cron`), the FTP server (`k85_ftp`), the update checker (`ota_check`), the
hotspot's web server, the router's DNS filter, readers of the SDR, radio and voice, the
screenshot watcher; beside them the event task and the timer task of ESP-IDF. They share
statics, files on LittleFS and the two OTA slots. Few of the statics are behind a lock.

| part | state | operations | talks to |
|---|---|---|---|
| boot control (hook, `app_main`, boot menu, BIOS) | two slots, two otadata sectors, probation state | power-on with A, confirm, switch slot, roll back | bootloader, flashing |
| heavy lock (`core/heavy_lock`) | one mutex | RAII guard with a timeout | every HTTPS operation |
| update checker (`net/ota.cpp`) | its timer, what it found | check, sleep | heavy lock |
| firmware flashing (`net/firmware_flash.cpp`) | one stream: handle, hash, flag | begin, write, verify and end, abort | heavy lock, web page, package manager, store |
| cron (`core/cron.cpp`) | job table, run flag, task handle | start, stop, reload, run what is due | FTP (crontab uploads), scripts, boot task |
| services store (`core/svc_cfg.cpp`) | one file of keys | get, set | FTP login, autostart flags |
| configuration (`core/config.cpp`, restore points of `apps/bios_system.cpp`) | one global record, one file, its copies | load, change, save whole, restore, reset | nearly every part |
| file replacement (STOR of FTP, the web upload, the store's download) | targets and their temporary files | receive, replace, rename, delete | cron's table |
| FTP server (`net/ftp_server.cpp`) | task, listening socket, session, lockout | start, stop, login, transfers | services store, cron, WiFi |
| hotspot (`apps/tools/wifi_hotspot.cpp`) | task, access key, session, delays | start, stop, new key, serve | flashing, files |
| router (`net/router.cpp`) | flags, retry timer, DNS task, lists | start, stop, share, filter | WiFi driver |
| WiFi (`net/wifi.cpp`) | event bits | connect, disconnect, scan | router, hotspot, FTP |
| scripts and boot task (`core/script_engine.cpp`) | variables of a script, autostart | run a script, start services | cron, FTP, MQTT |
| notifications (`core/notifications.cpp`) | ring of eight | push, list, clear | services, status bar |
| power and lock screen | idle time, lock, wrong codes | dim, sleep, lock, unlock | input loop |
| shell, line editor | line, history | edit, run a command | all services |
| BIOS, menus, text input, themes, screenshots | what is shown | modal loops | configuration |
| internet SDR (`net/kiwisdr_client.cpp`) | flags between UI, task and websocket client; a ring of sound buffers | connect, tune, listen, end | network, speaker |
| radio, music, voice | a buffer between reader and player | start, stop, fill, play | network |
| games, JSON apps, tools, passwords, sensors | a board, a device | one loop each | configuration (high scores) |

PROJECT.json ("components") lists each of them with its files and status.

## 2. What each part has to get right

The hard behaviours are of five kinds: a stop that is a flag another task looks at later
(cron, FTP, hotspot, router); a start that meets the task of an earlier run; a resource
that each of many exits has to give back (heavy lock, stream, data ports, mutex); flash
and files that a power cut leaves half written (otadata, the services store, the
configuration); and state tested before a long call and used after it (the stream's
flag, a session, NAPT). PROJECT.json ("hazards") names the lines.

- **Boot control.** Whatever was installed and whenever the power was cut, button A
  brings k85OS back; a slot switch happens wholly or not at all; firmware that does not
  confirm itself runs once.
- **Heavy lock.** One guarded operation at a time; no path keeps the mutex; a task that
  asks is answered.
- **Flashing.** An install that reports success has written its own image, what is
  hashed is what is written, no failure leaves the stream open or an unsigned image
  bootable, and no power cut the name of an image on a broken slot.
- **Cron.** A line is due at the times that the documented syntax names; never two
  schedulers; a start is not lost; a pass runs every due job once; a minute is served
  once; a reload installs the newest table.
- **Services store.** To its callers an atomic map, whatever calls overlap.
- **Configuration.** A start brings back what was saved last; the password in memory is
  the one that was typed.
- **Files.** A target is whole or its loss is reported; the scheduler runs the crontab
  that is on the disk.
- **FTP.** A stopped server leaves; the number of passwords tried is limited over all
  sessions; a client acts under the name it proved; ports are accounted for.
- **Hotspot.** Wrong keys are slowed down over restarts and new keys; a session belongs
  to the present key; a stopped hotspot is gone.
- **WiFi.** The flag says whether there is a link; a connect that reports success has
  joined the network it was asked for.
- **SDR.** The server is tuned to what the screen shows; every connection that stays is
  set up; the speaker never plays what is being written, and goes on playing.
- **Router.** Sharing and filtering are on when the router believes so; a lost uplink is
  repeated for as long as the router is on.

## 3. The modules

Each module has the state of its component as VARIABLES, one action per operation or per
stretch of code that other tasks can come between, and its properties at the end.
Operators headed "Bug to catch" are variants of the definition that follows them, as a
plausible mistake would make it. A property is paired in PROJECT.json ("mutants") with
the variant that violates it; no specification uses them. History variables are marked
so; they record, and no guard reads them.

**HeavyLock** (`heavy_lock.h/.cpp`, the loop of `ota.cpp`, the guarded callers).
`holder` is the mutex, `pc` the place of each task, `timer` what it has still to wait.
`TakeGuard`, `GiveUp` and `EndGuarded` are the constructor and destructor of
`K85HeavyLockGuard` (with `Acquire`, which gives a free mutex to a waiter); the
checker's guard lives through the sleep at the end of its loop body, as in the code
(`sleepHeld`). `BeginBare` and `EndBare` stand for the callers that take no guard.

**FirmwareFlash** (`firmware_flash.cpp`, `ota_verify.cpp`, the upload of
`wifi_hotspot.cpp`, the package manager). One stream for all tasks: `active`, `wrote`,
`hash`. An image is the sequence of its chunks; a cell of the slot written twice is
`Garbage`. A call of the stream is one step, except `begin`, whose erasure takes seconds
and is three (`TestActive`, `EraseSlot`, `Open`). An upload holds no heavy lock, the
other three kinds of install do. `Break` is any failure of the download, of a write or
of the connection. The hotspot is a screen of the UI task (`EnterHotspot`,
`LeaveHotspot`): the UI installs only outside of it, its server task is asked only
inside, and may be at work when it is left. Of an upload whose link has gone less than
an image still comes (`Arrives`, `late`). The package manager clears the slot's name in
RAM (`Start`), saves that (`Forget`) and sets and saves the new one at its success
(`NameSlot`); a save may fail unnoticed. `PowerLoss` clears what is in RAM and reads the
saved name back. History: `thirdParty`, `excused`.

**BootControl** (`k85_boot_hooks.c`, `app_main`, `boot_screen.cpp`, `bios_diag.cpp`, the
roll back of `k85os_menu.cpp`, `partitions.csv`; the bootloader's choice is external, as
ESP-IDF documents it and the hook assumes it). A sector of otadata is erased, then
written; `Put` lets the power go in between. `Flash` puts any image into the slot that
does not run. History: `hookCut`.

**Cron** (`cron.cpp`). Stretches under `CronLock` are one step: a pass of `run_due`
takes the lock for each entry (`Look`) and runs the script without it (`Executed`). A
reload reads the file before it locks (`ReadFile`, `Install`). `Loops` are the
identities of scheduler tasks, so that a second one could exist. Which jobs are due in a
minute is chosen when the minute begins. History: `reloaded`, `served`.

**CronSchedule** (`parse_field`, `parse_line`, `job_matches` of `cron.cpp`; the syntax
in `cron.h`). Functions, no state. The masks that the code builds item by item, with its
clamps and its treatment of 7, stand beside the meaning that the header gives to a line;
`RunsAsWritten` compares the two. Cron extends it: a run looks at the comparison for its
`Lines` and `Times` beside the states (`LinesRunAsWritten`). The text of a field is split
into its items already; that the code refuses a field of 40 characters is left out.

**KeyValueStore** and **SvcStore** (`svc_cfg.cpp`). The first says what callers may rely
on: a set takes effect at one moment between its start and its return, and only a fault
loses anything. The second has the temporary file, the unlink and the rename, the mutex,
the buffer of `SVC_MAX` bytes that drops a line which does not fit, failing memory and
files, and power cuts. `SvcStore!IsKeyValueStore` is the refinement: `StoreSeen` is the
temporary file between unlink and rename and the file otherwise, so a call is applied at
the unlink; `OpSeen` maps the places of a caller.

**ConfigStore** (`config.cpp`, `bios_system.cpp`, the resets of `k85os_menu.cpp`). A
save is three steps of any task: the text is taken from the record (`Take`), the file is
opened and so emptied (`Open`), the text is there when it is closed (`Write`); other
tasks and the power come between. Everything but the WiFi password and the clock
frequency is one setting. A password that was encrypted is `Coded`, which no typed one
equals; the frequency is not in the text of the file at all (`Texts`), which is laid over
the defaults when it is read. Before the boot is
done only the user's task runs, which keeps, restores and deletes restore points; a copy
is renamed over the file in two steps. History: `due`, the record that the last save
meant, and `late`.

**FileReplace** (`do_stor`, `do_dele`, RNFR and RNTO of `ftp_server.cpp`, the upload of
`wifi_hotspot.cpp`, the download of `app_repo.cpp`). Each writer fills a temporary file
of its own, removes the target and renames. A content is who made it and whether it is
whole; what a writer cannot tell (`AcceptsPart`) is stated per writer. FTP reloads the
job table after the commands that its code names. History: `told`, `stale`.

**FtpServer** (`ftp_server.cpp`, `ftppass` in `script_engine.cpp`). The task
(`listening` or in a `session`), its binding to the address of the moment (`Rebind`),
stops that wait in the menu, and the session from USER through PASS to a transfer. PASS
reads the name, then the hash, by two calls of the store, and `ftppass` sets them by
two. `wrong` and `tries` count wrong passwords independently of the counters the code
keeps, `ports` the open data ports, `loggedIn` the name that was proved. `Accept`
requires that the server runs: a client accepted by a server that was stopped in that
moment is dropped at once.

**Hotspot** (`wifi_hotspot.cpp`). The menu (`Start`, `StartFails`, `Stop`, `Stopped`
after its 300 ms, `Regenerate`), the task with the one connection it serves, and the
login: `RightKey` compares, `Grant` makes the session, so that a new key can come
between. The bodies of the requests are one step. The task's stack is static: a `Start`
while an earlier task lives is undefined behaviour, and the model stops there
(`overwritten`). History: `sessionKey`, `late`, `elapsed`.

**Router** (`router.cpp`). The menu, the event task, the retry timer and the DNS task
over the unguarded flags; `radio` and `events` are the driver, with the events of a run
still queued in the next one. `shares` is whether lwIP really translates, against
`s_napt_enabled`. `Start` is one step, because nothing in it waits between the connect
and the flags, and it waits for the event task to be done with an event: that task has
the higher priority, and a user needs longer from a stop to a start. The backoff's
lengths are abstracted. `ConnectStation` is `esp_wifi_connect`, wherever it is called:
its result is ignored, it may fail and post no event, and a station that is connected
stays so or is lost first. No timer may be made, no task for the filter, and NAPT may be
refused with the router running. History: `deaf`, `clean`, and `missed`: that a connect
or a timer failed so (`cut`), that NAPT was refused or that no address can come
(`refused`).

**Wifi** (`net/wifi.cpp`). `wifi_do_connect` in steps: the bits are cleared, the driver
is called, the bits are waited for; `Handle` is the event task. The driver does a call
at once and posts its events later; two kinds of foreign call, those of the router, stop
and start it (`StoppedElsewhere`, `StartedElsewhere`). History: `joined`, `early`.

**KiwiSession** and **KiwiAudio** (`net/kiwisdr_client.cpp`). The first is the session:
the flags by which the UI asks and the websocket client reports, and the task that reads
them one after the other, with sends that take time and may fail. The second is the ring
of sound buffers: `Sample` is the websocket's task, `Look`, `Release` and `Play` the
background task, `Played` the speaker, which plays the buffers from where they lie.
Nothing but a buffer's state protects it.

Composition: FirmwareFlash contains the heavy lock's holder (HeavyLock shows what that
one variable stands for), the FTP server the two keys of the store (each get and set is
one step there, which SvcStore's refinement justifies), Cron the reloads that FTP
sessions call, and FileReplace the job table.

Three MC modules check parts together that share no state: MCNetwork (Router, Wifi,
KiwiSession, KiwiAudio), MCServers (FtpServer, Hotspot) and MCStores (SvcStore,
ConfigStore, FileReplace). Each EXTENDS its parts, whose variables, specifications and
properties have names of their own. The variable `part` chooses one of them at the
start; the others keep an initial state, in which no action that fairness speaks of is
enabled, so that nothing is asked of them and nothing is hidden. The proof modules
NetworkProofs, KiwiProofs, ServerProofs and StoreProofs extend the same parts, so that a
theorem and a run speak of the same definition.

## 4. The runs

| run | instance | shows |
|---|---|---|
| `heavy_lock` | UI, web and checker; waits 2 and 1, interval 4, boot delay 1 | the guard on every path, the mutex comes free |
| `heavy_lock_give_up` | the same | a task gives up although nothing runs (section 7) |
| `flash` | two tasks, three installs, images of two chunks, a slot of three, power cuts | the stream is closed on all paths, success means one's own image, unsigned images go, no name is left on a broken slot |
| `boot` | sequence numbers to 7 | the promises of section 2, with cuts in every write |
| `cron` | two callers, two identities, two jobs, minutes to 2 | one loop, kept starts, complete passes, one pass per minute, stops end |
| | some 2,300 lines and 36 times | a line runs when its syntax says so |
| `cron_fresh` | the same callers | an older table is installed last (section 7) |
| `stores` | services: two tasks, two keys, a short and a long value, two faults | the refinement, the mutex comes free |
| | configuration: user and script, two settings, one password, one frequency, two restore points, one failure | a start brings back what was saved |
| | files: the crontab and another one, three writers, two uploads | no part gets a name, nothing vanishes, the table follows |
| `config_password` | the same configuration | a password is ciphertext after a restart (section 7) |
| `config_clock` | the same configuration | a saved clock frequency is gone after a restart (section 7) |
| `servers` | FTP: an owner and another name, two passwords, two addresses, limits 2 and 3 | names, tries, ports, stops, addresses |
| | hotspot: two browsers, two keys, 7 wrong keys, 62 seconds | delays, sessions, stops |
| `hotspot_stop` | the same hotspot | a stop is reported before it has happened (section 7) |
| `network` | router: three queued events | NAPT, filter, repeated uplink, sharing |
| | station: two networks, four queued events | the flag, the result of a connect |
| | SDR: two frequencies | tuned as shown, set up |
| | sound: four buffers of two samples, three to start | nothing overwritten, the sound goes on |

Why the bounds are enough. Two clients and the checker give every order of waiting
behind a sleeper and behind another waiter; the waits are shorter than the interval, as
15 s and 20 s are against 6 h. Three installs let two overlap after a third has filled
the slot, and a slot one chunk larger than an image lets a foreign chunk run past its
end. Sequence numbers to 7 let the device change slots several times in both directions,
with the hook in between. Two identities are what it takes to see a second scheduler; a
third minute is only reached through the second, and setting the clock back is a step
from any of them. The lines of a crontab have every form of item with numbers at, inside
and past the ends of each field, and all pairs of a few items in the two fields for
days, which the code joins in a way of its own. A long value fits beside a short one and
not beside another long one, so that both ends of the limit are met. Two tasks are what
it takes to overtake a save, and the third restore point pushes out the first of two.
The FTP limits of 2 and 3 keep the order of the code's 3 and 6: a session ends before
the lock is reached, and a second session reaches it. Two uploads let two writers meet
over one target, or one of them be repeated. Seven wrong keys run through the delays of
1, 2, 4, 8 and 16 s and the first of 30 s, 61 s in all, and the clock counts one more.
Three events hold those of a stop and of the start after it, four those of a disconnect
and of two connects. Four buffers and three to start are the code's own numbers; two
samples are the least of which one does not fill a buffer.

`flash` does not check for deadlock: every install can be done, and then nothing has to
happen. Type invariants are proved and not run; so are `HashFollowsSlot`,
`PortHasTask`, `FileFits`, `FilterRuns` and `GuardedExclusive`, on which other results
rest.

## 5. Fairness

FreeRTOS schedules every ready task, so a task that can go on does (weak fairness), and
every wait below has a timeout in the code. It is never assumed that a user, a client or
the driver does anything.

- HeavyLock: an operation ends (HTTP timeouts), a waiter gets one of its two answers,
  the checker steps, and time passes. Time is strongly fair, because a tick waits
  whenever a step is due at this very moment.
- Cron: every scheduler task steps; that is, every script ends.
- SvcStore: a task that holds the mutex goes on.
- FtpServer: the task goes on once it is stopped, as its socket waits have timeouts
  (`SO_RCVTIMEO`, select with a timeout); before that it may wait for a client for ever.
  Rebinding is part of its loop.
- Hotspot: the same, for a task that is stopped and not overwritten.
- Router: event task, timer and DNS task are scheduled; a forwarded query waits two
  seconds at most. Joining is the driver's choice.
- KiwiSession: the background task steps and a send ends (5 s), the websocket client
  reports, and time passes (`Ages`). What the server and the user do is their choice.
- KiwiAudio: the background task steps and the speaker finishes what it plays.
  `SoundGoesOn` supposes in its own words that the server keeps sending.
- FirmwareFlash, BootControl, ConfigStore, FileReplace, Wifi: safety only.

## 6. The proofs

All theorems hold for every value of the constants that satisfies the named ASSUME of
its module; nothing else is assumed.

- **HeavyLockProofs.** `TypeCorrect`; `GuardCorrect`: a task is between its take and its
  release exactly when it is the holder. This is inductive with the type invariant, one
  step per action. `GuardsExclude` follows: the holder is one.
- **FirmwareFlashProofs.** `TypeCorrect`; `NoStreamLeak`: an open stream has a task at
  "stream" (inductive: each exit clears the flag, and only `Open` sets it);
  `HashCorrect`: cell by cell the hash is what was written, or the cell was erased or
  overwritten since; `InstallCorrect`, an action property: at the one step that reports
  success the hash is that of the job's own image, the slot holds a whole image, and by
  `HashFollowsSlot` it can be no other (`VerifiedImage`). `NameIsTrue`: while a name
  counts, in RAM or in the file, every task is idle or has not yet saved its clearing
  (`NameInv`), so the slot is erased only when no name is left in either place, wherever
  the power is cut; the new one comes after the image is verified. `UnsignedGoes`: an
  image that should not be kept is bootable only while the stream is open and its job
  runs (`ClosedInv`), because whoever closes the stream without a good signature erases
  the header. The end of a third-party install looks at no signature, so nothing of
  another's may be whole in the slot then: downloads are kept away by the heavy lock and
  new uploads by the hotspot's screen (`TurnInv`), and of an upload that was left behind
  the slot has since its erasure only chunks that came without a link, which are not all
  (`LateInv`).
- **CronProofs.** `TypeCorrect`; `NeverTwoSchedulers`, `StartIsKept`,
  `MinutesServedOnce` and `PassRunsAllDue`. The first two are inductive only together
  (`LoopInv`): a start creates a task only when there is no handle, which says that no
  task is alive only by the first; a task clears its handle under the lock in which it
  finds the flag down, which keeps the second. For the third: no minute was served that
  is later than the clock, and if the present one was, every living task remembers it
  (`ServedInv`). For the fourth, `PassInv`: until a reload meets the pass, what it ran
  is what is due among the entries it has looked at, each once and in order; between the
  look and the end of the script the entry looked at counts as run. `PassRunsDueJobs`
  names the entries by their places in the table and not by a filtered sequence, which
  would be a recursive function.

  Of CronSchedule `LinesAlwaysRunAsWritten`: a line is taken exactly when it makes sense,
  and is due exactly when its syntax says so, whatever its fields, numbers and the time
  are. The hard part is the loop that sets the bits of an item, a recursive function
  (`Steps`). A set of numbers given in closed form solves its equation (`Closed`), so
  the function is one that does (`Chosen`), and any two that do agree (`StepsAre`): of
  the distances from the end at which they differ there would be a least one
  (`LeastOne`), and one step further they agree. Induction is done by that least
  element, for a set and not for an operator; it comes from the library's theorem that
  strict inclusion of finite sets is well founded. The rest is one lemma for an item's
  bounds, one for its bits, one for a field, and one for the line with its two fields
  for days and the Sunday that is 0 and 7.
- **StoreProofs.** Of the services store `TypeCorrect`, `FileAlwaysFits`, and
  `Refinement`: `Spec => IsKeyValueStore`. The strengthening `IInv` says where in the
  rewriting the holder of the mutex is: nobody else is past `take`; its buffer holds
  what the file held before `build` and the assigned content after it; the temporary
  file is that content before the unlink, and before the rename it fits and the file is
  gone. A holder that could not read the file counts as one that found it empty
  (`blind`). Each step then maps to `Call`, `Apply`, `ApplyBroken`, `Return`, `Get`,
  `Fault` or a stutter; the linearization point is the unlink.

  Of the files `FilesTypeCorrect`, `TargetsAreWhole`, `MissingIsReported` and
  `TableIsReloaded`, from one invariant, `FilesInv`. None of the three properties is
  inductive. A whole target needs that the temporary file which is about to be renamed
  is its writer's own and closed (`TempIsClosed`); that in turn needs that what is being
  received is the writer's own (`NewIsOwn`), as the temporary names of the writers
  differ. A missing file needs that the content which waits beside it is not one that
  its writer has begun to overwrite (`Waits`). The table needs that an FTP command which
  has changed the crontab is still on its way to the reload (`TableKnown`).

  Of the configuration `ConfigTypeCorrect` and `StartAlwaysBringsBack`, an action
  property. What is due at the next start is what the file gives when it is read
  (`DueIsKept`); a text that was taken and not overtaken is the text of the record
  (`TextIsCurrent`), which makes the write of a save keep the first; before the boot is
  done no task but the user's is in a save (`IdleBefore`); and a restore point in the
  making has room (`MakingHasRoom`), on which the type of the list of points rests. What
  is saved and read again is the setting and the password as it was encrypted
  (`ReadStored`); the clock frequency is the default's.
- **BootControlProofs.** `TypeCorrect`, `ButtonBringsHome`, `UpStaysSelected`,
  `TrialEnds` and `SwitchAllOrNothing`. For `ButtonBringsHome` the strengthening says
  that in the bootloader, after the hook, with k85OS in one slot only, sector 0 selects
  that slot as valid and sector 1 is blank (so nothing is given up and nothing is on
  probation), and that from the boot menu on the running slot holds k85OS (so that an
  install, which writes the other slot, cannot make another one the only home). The
  other three rest on `OtaInv`: otadata is blank before the first confirmation, or one
  sector is the anchor, usable and naming a slot with k85OS, and the other sector is
  either passive (unusable, older or the same slot) or on trial, with the next number
  and the other slot. Every write goes to the sector that is not the anchor, so a cut
  leaves the anchor, and a confirmation moves it.
- **ServerProofs.** Of FTP `TypeCorrect`, `PortGoesWithTask`, `LoginNamesItsUser`,
  `TriesLimited`, `NoPortLost`. The strengthening relates the counters of the code to
  what has happened: before the lock closes both counts agree, and when it has closed on
  the last wrong password no other PASS is between its reads and its comparison.

  Of the hotspot `HotspotTypeCorrect`, `GuessesStaySlow` and `SessionsAreOfKey`. For the
  second (`SlowSoFar`): the time that has passed covers all wrong keys but the last, and
  with the delay that still runs the last one too. That the delays of the code add up to
  `Least`, and that neither shrinks once the shift is clamped, is `LeastGrows`. For the
  third (`KeyCompared`): the relation holds from the comparison on, not only when the
  session is there.
- **NetworkProofs.** Of the router `TypeCorrect`, `SharingIsReal`, `FilterIsThere`. The
  first needs what holds between the enabling of NAPT and the setting of the flag, the
  second that a handle without a task is that of a filter without a socket, and that the
  filter has no task only where none could be made (`noTask`).

  Of the station `WifiTypeCorrect`, `LinkIsAlwaysKnown` and `TrueAlwaysMeansJoined`. The
  first result is about an empty queue, so its invariant is about every other one
  (`LinkInv`): the last waiting event that says anything of the link says how it is, and
  with none waiting the flag does; a driver that is not started has no link. The other
  (`CallInv`): while a call waits, every address in the queue is one of the network it
  asked for, unless one was on its way when it began, and the bit is set only by such an
  address.
- **KiwiProofs.** Of the sound `TypeCorrect` and `RingIsSafe`, for any number and length
  of buffers. A buffer that is written is free or being filled; everything queued is
  marked as queued, and once only (`QueueMarked`); what the speaker has is the end of
  the queue (`SpeakerHasEnd`); and the task, which asks the speaker first and releases
  then, never releases more than it has finished (`HeardEnough`).

  Of the session `SdrTypeCorrect` and `TunedAlways`. A command that is being sent is of
  the frequency on the screen, or a change is asked for; a server that was set up and
  missed nothing is tuned to it, or a change is asked for or under way (`ChangeIsKnown`).
  This needs that flag, client and server agree but for what the handler has still to
  report (`FlagAgrees`, `EventTells`), and that no client outlives its session
  (`ClientOfSession`), since the next session's first flags would be taken for answers
  to the last one's client.

Every invariant and action property that a run checks is stated by a theorem. Only
model-checked is liveness, as fairness and ENABLED are out of the prover's reach:
`MutexComesFree`, `LockComesFree`, the two `StopEnds`, `FollowsAddress`, `HotspotStops`,
`FilterLeaves`, `UplinkRetried`, `UplinkShared`, `IsSetUp`, `SoundGoesOn`.

The five properties of section 7 are false of the code, so nothing is proved of them.

## 7. Where code and documentation disagree

Each is a run that ends in a counterexample, and a finding in PROJECT.json.

1. `heavy_lock_give_up`: the header says that a guard is refused because somebody has
   been busy for longer than the timeout. The checker holds the mutex while it sleeps,
   hours long, so operations are refused with nothing running.
2. `config_clock`: the header says that the configured clock frequency is applied at the
   start. The field is neither written to the file nor read from it, so a frequency that
   was chosen, and saved without a failure, is gone with the next start.
3. `cron_fresh`: the header says that a reload re-reads the crontab. Of two overlapping
   reloads the one that read the older file may install last.
4. `config_password`: a comment of `config.cpp` says that at run time the configuration
   always holds the WiFi password in plain text. It is encrypted when it is saved and
   copied as it is when it is loaded, because nothing calls the function that decrypts;
   after a restart the saved network cannot be joined.
5. `hotspot_stop`: the menu says that the hotspot has stopped while its task still
   serves a connection; the next start overwrites that task.

Weaker than one would like, and stated so by the properties: a power cut between unlink
and rename empties the services store (a `Fault` of KeyValueStore); a cut in the hook,
which erases both sectors, lets unconfirmed firmware run again (`hookCut`); a router
that is restarted within a forwarded query has no filter (`clean`), nor one whose filter
got no socket (`deaf`) or no task (`noTask`), of which nothing is noticed; a lost uplink
is not repeated any more after a timer could not be made or a connect failed without an
event, and an uplink is not shared after NAPT was refused until another address comes
(`cut`, `refused`); the name of the slot may be an old one after an install that is not
the package manager's, or a save that failed (`excused`); a new key may meet a login already compared (`late`); a save of
the configuration that fails or is cut leaves the defaults, and one that is overtaken by
another task's change may bring an old value back (`due`, `late` of ConfigStore); a
restore point is made also when the save before it has failed, of whatever the file then
holds; a web upload and a store download take a file for whole whose closing failed or
whose connection ended early (`AcceptsPart`); the job table is stale when something else
than FTP changed the crontab (`stale`); a connect may return the success of an attempt
that was under way when it began (`early`); a command that could not be sent to the SDR
server is not repeated (`lossy`). The UI deletes the SDR client when the task has not
left after three seconds, although `kiwisdr_client.cpp:69-72` says that only the task
may: what follows is undefined, and KiwiSession ends there with a restart.

## 8. What is not modelled, and why

Drawing, sound, sensors and radios: I/O without decisions that another task can disturb.
Cryptography: mbedtls and wolfSSL are taken to do what they say; a signature is a set of
jobs (`signed`). Parsing of HTTP, FTP and DNS: data that the properties do not tell
apart. Menus: one task in one modal loop, whose choices are the calls that the modelled
parts offer. Lengths of waits: only their order, except where a delay is the property
(Hotspot). Memory: `malloc` may fail where the code looks at it, and so may the calls of
the router whose result it ignores. The vendored libraries.

What PROJECT.json calls `not_modelled` gives its reason there, and `partly` what is
missing: the scan of WiFi, the lists of the router, the encryption key of the
configuration, the version comparison of the update checker. Of the SDR the spectrum and
the decoding are left out, of the shell everything but its calls.

## 9. The plan

Done: HeavyLock, FirmwareFlash, BootControl, Cron, CronSchedule, SvcStore with
KeyValueStore, ConfigStore, FtpServer, FileReplace, Hotspot, Router, Wifi, KiwiSession,
KiwiAudio.

Next, in this order:

1. Autostart: the boot task's wait for WiFi against the BIOS switch that disables it,
   composed with FtpServer's and Cron's starts.
2. Notifications (the ring, the lazy mutex), the router's lists, the shell's `at` task.
3. LockScreen and power; the input loop with its short and long presses.
4. The line editor; the script engine; the web radio's reader and player.
5. Games as pure functions: a move of 2048, the lines of Tetris.

They will share runs with the parts above, as these do with one another. The runs of
section 7 that show one race each stay as long as the code has it.

Proofs next: the type invariants and results of the parts above as they are modelled.
The least-element argument of CronProofs serves whatever else is a loop over data, as the
moves of 2048 are.
