# FanucTelegrafPlugin: specification, model checking, proofs

FanucTelegrafPlugin is a Go program that telegraf runs as a plugin. It reads data from Fanuc CNCs
through the vendor's FOCAS library (cgo), prints one JSON record per device and scan on standard
output, and optionally serves the same data through an OPC UA server of its own.

This directory holds TLA+ models of the program, the TLC configurations that check them on small
instances, and proofs that TLAPS checks for every size of the system. Every definition is
translated from the Go sources; `PROJECT.json` (`map`) names the lines each one stands for.

## 1. The system

| Component | Source | State | Operations | Module |
|---|---|---|---|---|
| Data collectors, one goroutine per device | `fanuc_data.go`, `fanuc.go` | local handle, retry counters, result channel, `handles[i]`, `running` (read) | `StartDataCollector`, `DataCollector`, `IsConnectAlive`, `GetHandleWithTimeout` | `Collector` |
| FOCAS handle table (external) | called in `fanuc.go` | which numbers are open, and where they lead | `cnc_allclibhndl3`, `cnc_freelibhndl` | `Focas` |
| Handle release and recovery | `fanuc_data.go`, `plugin.go` | list of unfreed handles, `non_free_handles.json` | `EndPlugin`, `FreeAllHandles`, `TryFreeExtraHandles` | `HandleRelease` |
| Process life cycle | `plugin.go` | `running`, `handles`, the wait group | `main`, the two listeners for the stop, exit, crash, restart | `Plugin` |
| Tag scan | `fanuc_data.go` | `tag_map`, `errors`, `protocol_error` | `GetFanucJsonData`, `GetPowerOffData` | `TagScan` |
| Getters of CNC data | `fanuc.go` | none | about 40 `Get...` functions | `TagScan`, `CncTime`, `AxisMaps` (partly) |
| OPC UA address space | `server_controller.go`, `server_extensions.go` | node values, `device_map`, `TagsPack` | `LoadTagPacks`, `CreateDeviceNodes`, `UpdateCollector`, conversions | `AddressSpace`, `AxisMaps` |
| OPC UA server set-up | `server_controller.go`, `server_extensions.go` | options, certificate files | `InitServer`, `Get...Options` | `ServerConfig`, `Startup` (partly) |
| Start-up checks, logs, panics | `plugin.go` | `log_buf`, the logger, the deferred functions | `main` up to the collectors, `InitCrashLog`, `InitLogFile` | `Startup` |
| Certificate generation | `generate_cert.go` | none | `GenerateCert` | one action of `Startup` |
| CSV export, vendored FOCAS files | `csv_maker.go`, `focas/` | none | | not modelled (section 8) |

How they interact. `main` reads the configuration, opens the log, checks the devices and sets up the server;
most of what can go wrong there is a panic that two deferred functions turn into a log. It then starts one
collector per device, the recovery and two listeners, all goroutines. They share `running` and `handles`
without any lock. A collector owns slot `i` of `handles`; `EndPlugin` reads all slots three seconds after it
has cleared `running`. `main` waits for the collectors only: when the last one returns, the process ends and
takes `EndPlugin` and the recovery with it. The recovery of the next process reads the file that
`FreeAllHandles` may have written. All of them call the library, whose handle numbers are shared by the whole
process and reused as soon as they are free.

What is hard in it:

* *Interleaving*: a free and the reset of the two variables that hold the number are separate
  steps, while others open and free numbers; `EndPlugin` works on handles that are in use.
* *Timeouts*: the call that `GetHandleWithTimeout` gives up goes on in the library.
* *Partial failure*: frees fail, scans fail in the middle, the record file can be torn.
* *Crash and restart*: the record file, the library's table and the three certificate files outlive the
  process; the files are written one after the other.
* *Liveness*: counted retries, polls of an unsynchronised flag, a recovery that retries for ever.

What makes each part correct: a collector uses only its own CNC's handle and tells the reader when
it leaves the device; the stop ends everything; a record of unfreed handles is not lost; a record
of a scan says of each tag what the library said of it; a node shows what was printed, of the axis it is
named for; a panic is reported, and a key never meets a certificate of another pair. `PROJECT.json` (`hazards`) lists every
hazard with its line and the properties that cover it.

## 2. Modules

```
Focas ── Collector ──────┐            TagScan     CncTime
   └──── HandleRelease ──┴─ Plugin    DeviceFeed  (abstract; Collector and each process
                                                   of Plugin implement it)
AxisMaps ── AddressSpace              ServerConfig ── Startup
CollectorProofs, PluginProofs, TagScanProofs, CncTimeProofs, AddressSpaceProofs, StartupProofs
MCCollector, MCPlugin, MCAddressSpace, MCStartup: instances for TLC
```

**Focas** is the external table of handle numbers: `conn[h]` is the CNC behind number `h`. The
library grants any unused number; a free succeeds, fails and leaves the handle open (`EW_BUSY`
stands for all such codes), or finds the number not in use (`EW_HANDLE`, which every caller takes
for success).

**Collector** has one control state `pc[d]` per device (its header lists the places) and one action
per step between two library calls or waits: `Start` (with the first power-off record), `Connect`,
`TakeGlobal`, `FreeOld`, `ClearOld`, `TakeAnswer`, `Timeout`, `Collect`, `Probe`, `ReadTag`,
`Publish`, `Release`, `Unset`, `Rest`; `GetHandle` and `LateAnswer` are the goroutines inside the
library, `Stop` is what `EndPlugin` does to the flag. The three counters of `DataCollector` are never
in use together and share `count[d]`. `answer[d]` is the result channel of the call under way,
`late[d]` says that calls given up earlier are still in the library (how many does not matter).
`machines[d]` records which CNCs answered in the scan under way, `power_on[d]` is the tag of the last
record printed. A scan is any number of `ReadTag` steps and a `Publish`, with or without a protocol
error; what happens inside is `TagScan`.

**DeviceFeed** is what a reader of the output may rely on: sessions begin after an "off", samples
appear only inside a session, and until the stop the end of a session is announced with it.
`ImplementsFeed` maps the collection loop to a session; `EveryProcessIsAFeed` says the same of the composed plugin,
process by process.

**HandleRelease** follows each `EndPlugin` through its sleep, the loop of `FreeAllHandles` with its
second read of the slice (`Record`), and the two steps of `os.WriteFile`; and `TryFreeExtraHandles`
from the stat to the removal, with every error that ends it early. The file is a sequence of numbers, `Absent`, or `Torn` (not valid JSON).
Working directory and plugin directory are separate constants, as in the code: with two directories
the recovery finds nothing.

**Plugin** composes both with `INSTANCE` and adds `Exit` (all collectors done), `Crash` (a panic in a
goroutine or a kill, at any moment) and `Restart`, where files survive and any part of the open
handles may. Order of devices: `Devices = 1 .. NumDevices`.

**TagScan** executes the loop of `GetFanucJsonData` tag by tag for an arbitrary `tags_pack`. A value
is only present or absent; a record that cannot be written as JSON is the empty one. `calls` is a history of the library calls of the scan, which the record
is compared with.

**CncTime** is the reading of `GetOperationTime` and `GetCuttingTime`: milliseconds and minutes in two
calls, with the clock of the CNC running on.

**AxisMaps** is what the twelve getters that return a map make of the buffer the library fills: which elements
they pass over, which characters of a name they keep, which of two elements with one key stays, and whether
they honour the decimals.

**AddressSpace** begins with `LoadTagPacks`, whose loops over maps take any order, creates the nodes, and
then lets the collector of each device put records into them one tag name at a time, in any order,
before the line is printed (`Fprintln`). A record is the power-off record or any the scan may return:
which tags have a value is left open here, since `TagScan` says so, and the maps are those of `AxisMaps` for
the buffers the CNC may report (`Buffers`; the history `reported` keeps them). With the tag `errors` in the pack a
scan also has the map of error codes (`ErrorsOf`). The record `{}` of a scan that has no JSON form is left out: it has no name,
and `UpdateCollector` panics on it. Conversions return the set of
possible results: a number outside of int16 or int32 gives an implementation-dependent value in Go,
and of two axis names that match a key in upper and in lower case either one is found. Numbers are
counted in units of 1/`Unit`, so that cutting off a fraction can be seen. `before` is a history: the
nodes as they were when the last line was printed. An empty tag name (a panic in `LoadTagPacks`) is
excluded by the assumption on the constants.

**ServerConfig** is how the lists of the server section become options: unknown and repeated entries are
dropped, what is left empty is replaced by a default.

**Startup** follows `main` from its first line to the collectors and through the two deferred functions. The
stack of deferred functions, the panic under way, the buffer and the two log files are variables, so that
the question whether a panic is reported is a question about the order of steps. `InitServer` writes
`cert.pem`, `key.pem` and `cert.der` in two steps each; a kill may come between any two, and while no
process runs the operator edits the configuration and removes certificate files. A key pair is a number, the
`generation` it was made in; `found` keeps the files as the process found them. `LoadX509KeyPair` goes on to the trusted
certificates and keys: each file that can be used is one more option, and the last of a kind is the one the server has
(`Added`).

Definitions that no action uses (`SilentRetry`, `UnsetLocalOnly`, `RemoveUnread`, ...) are faulty
variants of the definition that follows them: each property fails when the right one is put in
place of the original, so no property holds by the shape of the model alone.

## 3. Runs

| Run | Instance | Shows |
|---|---|---|
| `collector_safety` | 2 devices, 3 numbers, 2 attempts in each loop | `TypeOK`; `HoldsOwnHandle` and `RemembersOwnHandle` (numbers are reused, yet no collector uses or frees another's); `OffWhileAway`; `KeepsTrack` (where handles can be lost, and nowhere else); `WindsDown` (after the stop a collector only gets nearer to its end); `ImplementsFeed` |
| `collector_live` | 2 devices, 2 numbers, 2 attempts, fairness | `StopEnds`, `Recovers` |
| `plugin_restart` | 1 device, 2 numbers, one restart, crash and exit at any moment | `TypeOK`; `OwnUnlessStopped` while a recovery frees what is on record; `NothingForgotten`; `RecordIsKept`; `EveryProcessIsAFeed` (each process is a `DeviceFeed` of its own, also beside `EndPlugin` and the recovery) |
| `plugin_live` | 1 device, 1 number, 2 attempts for the handle, fairness | `StopIsFinal` (no step of anybody takes a collector away from its end again); `PluginEnds` |
| `tag_scan` | all packs of up to 3 tags over 2 known tags, one unknown and `errors` | `FlagIsFresh`, `ScanIsComplete`, `RecordIsHonest` |
| `cnc_time` | a minute of 4 ticks, 13 ticks | `TimeIsNotBehind` |
| `address_space` | 2 devices with different packs, one with a list of its own, an error code, buffers of 2 or 3 elements | `TypeOK`, `PacksAreLoaded`, `PrintedIsShown`, `AxisIsShown` (from the buffer of the CNC to the node) |
| `startup` | 11 configurations, 3 starts with kills, failed writes and removed files between them | `TypeOK`, `KeyFitsCert`, `PanicIsReported`, `LinesAreKept`, `ServerIsReachable` (and encrypted, where a known policy is configured), `ServerHasItsOwnPair`, `OwnCertLoads` |
| `collector_lost` | 1 device, 2 numbers | *violated*: `NoLostHandle` |
| `plugin_success` | 1 device, 2 numbers | *violated*: `SuccessLeavesNothing` |
| `tags_pack_replaced` | the instance of `address_space` | *violated*: `TelegrafTagsAreSelected` |
| `spindle_lost` | the pack of `plugin.conf`, spindles S6 and S11 | *violated*: `SpindleIsShown` |

Bounds. Two devices are needed for a number to change hands, three numbers for one to be lost, one to be
reused and one to be in use. A maximum of 2 in the counted loops gives "once more" as well as "give up"; the
code's 5 adds repetitions only, and the safety theorems hold for every maximum. `plugin_restart`
has one device, since what it asks of the record file does not depend on their number, and two numbers, one
of the earlier process and one of this; one restart gives a process that wrote and one that recovers, and
the end of the second is explored too. How two collectors share the numbers is the subject of `collector_safety`; that
`EndPlugin` and the recovery add nothing to it before the stop is proved for any number of devices (`OwnUntilStopped`). Symmetry is used in safety runs only. The eleven configurations of
`startup` are a good one, the same without a log file, without permission to make a certificate, with trusted certificates
and keys that are good or unusable, without a server and with lists of which nothing is left, and one for every panic of `main`; three starts give a
process that was killed while it wrote, one that finds what was left, and one after the operator has removed
files. In `address_space` int16 ends at 1 and int32 at 0, so that a value out of range, one in range and a
fraction all occur; one pack has maps in which an axis name has two forms or is missing, the other a text, a number
and the error code of a tag. The buffers have a gap before the axis that is asked
for, two spellings of one axis, decimals, and a flagged axis.

## 4. Fairness

`FairSpec` assumes weak fairness of each collector's own steps (`Step(d)`): goroutines are
scheduled, calls into the library return, timers fire. It assumes nothing of the library's
answers (`GetHandle` may never return; `Timeout` then fires), nothing of the outcome of a probe
or a scan, and nothing of the operator. `Recovers` therefore has the premise that failures stop from
some time on. In `Plugin` the exit of `main` is fair as well, `EndPlugin` and the recovery are not:
`PluginEnds` must not depend on them.

## 5. What the checks found

* **Lost handles** (`collector_lost`). "free handle" in `DataCollector` covers the handle of the
  activation only. A handle granted after the timeout goes into a channel nobody reads, and one that
  could not be freed is overwritten by the next. `KeepsTrack` shows that these two are the only ways.
* **Success before the end** (`plugin_success`). `main` logs success and ends the process while
  `EndPlugin` sleeps its three seconds; a handle that a collector could not free is then neither
  tried again nor recorded, although the slice and the file exist for it.

* **Spindle S11** (`spindle_lost`). `plugin.conf:71` has a key for it, but `GetSpindleLoad` never reads the third
  character of a name; the load lands under S1, and the node shows 0. `AxisIsShown` therefore asks for names
  the getter can tell apart (`ToldApart`), and shows that this is the only way in which a name goes wrong.

* **A tag list that is replaced** (`tags_pack_replaced`). `plugin.conf:167-170` offers the device parameter `tags_pack` to
  select the tags for telegraf. `LoadTagPacks` stores the tags of the server's pack into the very same slice, for every
  device and for every pack of the configuration, so with a server and any pack in it the list never takes effect; a device
  that names no pack reads nothing. `PacksAreLoaded` is therefore about devices without such a list.

Seen on the way; only the first of these is at odds with a text of the repository, and has no run of its own, since the list
of policies is a constant of the code that a run would only look up:

* Aes128_Sha256_RsaOaep stands twice in the list of policies and Aes256_Sha256_RsaPss, which `plugin.conf:97`
  offers, not at all: as the only policy it leaves the server with None, without a word in the log. `ServerIsReachable`
  counts it among the policies the plugin does not know.
* `trusted_certs` and `trusted_keys` add server certificates and keys after the own pair (`server_controller.go:303-323`),
  and the last one is the server's: a trusted certificate of a client replaces the server's own, and its key stays. Hence
  the premise of `ServerHasItsOwnPair`.
* A JSON number outside of int16 or int32 is cut without a check, and a client sees some other number.
* A 0 that stands for an axis the machine has not reported looks like a reading.


* After the stop `EndPlugin` frees handles under their collectors, and a number that is reused then leads a
  collector to another CNC: `OwnUnlessStopped` ends at the stop. A record that names a number twice, or one that
  the library has given up since, lets the recovery free a number of the new process: hence `outdated`.
* The recovery removes the file by name, after the stop possibly the record that `EndPlugin` has just written.
  A torn file is never removed by the recovery, only overwritten.
* A tag that is missing from a record keeps its value in the address space, so after a power-off record every
  node but the default tags shows the last session (`PrintedIsShown` states it), while an axis that is missing
  from its map is set to 0.
* The getters that return integers ignore the decimals of an element, the others honour them. The getters that take one
  character give two axes X1 and X2 one key.
* A kill between two certificate files leaves a set that the program never repairs: a certificate is made only
  if all three are missing (`OwnCertLoads` states when the next start fails on it).
* Endpoints are compared as host and port written one after the other, so host1 with port 4840 and host with port
  14840 count as one and only the first is opened.
* A server that cannot listen panics in its own goroutine, which no deferred function of `main` sees.

## 6. What is proved

`CollectorProofs`, for any finite or infinite sets of devices and handle numbers and any maxima, from
`FocasAssumption` (`NoHandle` is no handle, `NoDevice` no device) and `CollectorAssumption`:

* `TypeCorrect`: `Spec => []TypeOK`.
* `HandlesAreOwn`, `RememberedHandlesAreOwn`: from the inductive invariant `IInv == TypeOK /\ OwnInv`.
  `HoldsOwnHandle` alone is not inductive. `OwnInv` adds where the number comes from: what waits in the
  result channel and what rests in the slice leads to the device itself (`OwnAnswer`, `OwnAtRest`), in
  use both variables agree (`OwnInUse`), and no number is left over in the local variable
  (`NoneLeftOver`). Nothing is claimed of the two variables between a free and their reset, where
  the number may be someone else's. A step of one device leaves the part of every other alone
  (`OthersUndisturbed`, `Frame`), because the library opens unused numbers only and a collector frees
  only a number of its own; a step of the device itself keeps its part (`OwnStep`).
* `TrackIsKept`: `Spec => KeepsTrack`, an action property, from the same invariant; the lemma `LetsGo` says
  that a device that lets go of an open number stands in `wait`.
* `ShownOffWhileAway`: from `FeedInv`, which relates the record shown with the place.
* `FeedIsImplemented`: `Spec => ImplementsFeed`, the refinement. `StepEffect` says in which five ways a
  step can change what the reader sees, `FeedStep` maps each to an action of `DeviceFeed` or to a stutter.
* `CollectorsWindDown`: `Spec => WindsDown`. This is the part of `StopEnds` that the prover can reach: after the stop
  each step descends in `ToGo`, counts one of a limited number of attempts, or reads one more tag. That a collector which
  can take a step takes one (fairness), and so reaches its end, is left to TLC.

`CncTimeProofs`: `TimeReadNotBehind`, for a minute of any length, from two facts on division.

`PluginProofs`, for any number of devices, handle numbers, attempts and restarts, from `FocasAssumption` and
`PluginAssumption` (the devices are numbered, every loop has at least one attempt). tlapm cannot cite a theorem of an instanced module, so the lemmas about one step of a
collector are proved again under the names they have here (`Collectors!...`).

* `PluginTypeCorrect`: with `PlaceInv`, which says where `EndPlugin` (nowhere before the stop, and with an index
  inside the slice when it records) and the recovery (`tried` and `extra` agree with the file) may stand.
* `RecordIsAlwaysKept`: an action property from `PlaceInv`: before the stop only `RemoveRecord` touches the file.
* `OwnUntilStopped`: from `RunInv`. For the collectors it says what `OwnInv` says above. For the recovery it adds
  that each number it has still to free is open (so that the library hands it to nobody), is in no variable of a
  collector, and stands on the record once (so that it is not freed a second time when someone else has it).
  `CollectorEffect` says which numbers a step can take and free, `RecoveringRuns` is the step of the recovery, and
  `RestartRuns` derives the start from `outdated = {}`.
* `NothingIsForgotten`: from `QuietInv`: in a quiet release nothing is opened any more, and every slot before `index`
  is free or on the list. The list is needed of both listeners at once, since each frees under the other.
* `EveryProcessFeeds`: from `FeedInv`, which relates what is shown with the place. `ShownStep` says what a step of a
  collector shows, `RestOfProcess` that every other step of a process shows nothing and at most clears the flag, and a
  restart leads to an initial state of `DeviceFeed`.
* `StopIsAlwaysFinal`: `Spec => StopIsFinal`, the part of `PluginEnds` that the prover can reach, from `NearerStep` (each
  step of a collector descends, as in `WindsDown`) and `RestOfProcess` (nobody else moves one or sets the flag again).

`TagScanProofs`, for packs of any length, over any sets of tags and codes:

* `FlagAlwaysFresh`: from `ScanInv`: while the loop runs, no call of this scan has broken the protocol, and the flag is
  what the last scan left until it is cleared.
* `ScanAsksForAll`: from `AskInv`: what was called is the known part of the tags the loop has passed, by rank
  (`KnownUpTo`); `KnownStep` is how the rank grows with the loop.
* `RecordIsAlwaysHonest`: from `HonestInv`: until `ClearErrors` `tag_map` has every tag that was called for, then those
  whose last call was good, and `errors` has the last codes. `LastCallStep` says how the last call of each tag changes with one more call.

`AddressSpaceProofs`, for any configuration:

* `EveryPackIsLoaded`, for devices without a list of their own: from `LoadInv`: the slice has the first parts of the names the loops have come to, each once,
  and is stored whenever the inner loop is at its end. The order in which a map is iterated does not matter.
* `NodesKeepTheirTypes`: a conversion gives nothing or a value of the type asked for (`ConvertedTyped`), and a type that it
  can give is one that nodes are created for (`ZeroTyped`).
* `NodesShowWhatIsPrinted`: from `Settled`: a node is as it was at the last line until the loop of the update comes to
  it, and agrees with the record from then on. It rests on three facts. What a record says is a text, a number, or a map
  of numbers, whatever is in the buffers (`RecordsHaveValues`, `MapsHaveNumbers`, `ErrorsHaveNumbers`). A number without its fraction is less
  than one away (`TruncNear`). A conversion gives nothing exactly when the record says nothing that the type takes
  (`PlainIsShown`, `AxisValueIsShown`).
* `AxesShowWhatWasReported`: from `Recorded`: the record of a device has, for every buffer that is kept in `reported`, the map
  its getter makes of it. `FullNameIs` and `KeyIsName` say when the getters keep enough
  of a name for it to be found, `MapShows` that the key then leads to the axis and to no other, and
  `Settled` takes the number to the node. The attempt to prove it corrected the property: a node of a
  type that `ConvertMapValueAtKey` does not know (an int32 node for an axis, say) keeps its zero, whatever is
  reported, so `AxisIsShown` asks for int64 or float64, which are the types `plugin.conf` gives to such nodes.

`StartupProofs`, for any set of configurations and any number of starts, kills and removals:

* `StartTypeCorrect`, `NoLineIsLost`, `EveryPanicIsReported`: from `LogInv` and `PanicInv`, which relate the buffer, the
  logger and the stack of deferred functions: `InitLogFile` sees a panic exactly when the buffer is empty.
* `KeyAlwaysFits`, `OwnCertIsLoaded`: from `CertInv` and `LoadInv`: while a pair is being written every file is missing,
  torn or of that pair, and outside of the writing nothing changes but by removal.
* `ServerIsAlwaysReachable`, `ServerAlwaysHasItsOwnPair`: from `OfferInv`, on what the options and the loaded certificate are
  at each place; `NothingIsAdded` is where the premise on the trusted lists is needed, and `CertInv` gives `cert.der`.

Only model-checked: the liveness properties `StopEnds`, `Recovers` and `PluginEnds`, which need fairness and ENABLED and
are out of the prover's reach. Every other property of a passing run is stated by a theorem.

## 7. Plan

Done: all modules and proofs above. Left:

1. The record file after the stop, when one `EndPlugin` rewrites what the other has written and the recovery removes it by
   name (`fanuc_data.go:68`): which of these steps may lose a number that is still open, as a property and a theorem.
2. `GetLoadExcess`, `GetShutdowns` and `GetFrame`, as soon as something says what they should return.

## 8. Not modelled

The program is the Go code of the repository's root, 2153 lines, of which the map names about two thirds. The C header
`focas/fwlib32.h`, by far the longest file, and the libraries beside it are vendored: declarations without any code
of the plugin. Of the header only what the code uses of it is translated: the return codes (`Focas`) and the
structure of an axis name (`AxisMaps`).

* `csv_maker.go` writes the address space to a file once.
* `generate_cert.go` calls crypto libraries and keeps no state; `Startup` has it as one action that may fail.
* What the OPC UA library does with the options is its own affair, and so is what clients do.
* The getters that return one number or text copy a field of a structure the library has filled. `GetLoadExcess`
  (which loses what it found out about the axes when there are spindles), `GetShutdowns` and `GetFrame` (which reads
  text and number in two calls) have no stated meaning a property could be about.
* Wording of the log is left out. `os.Executable` is taken to succeed; where it fails there is no `crash.log`.
* Time is left out: the three-second sleep, the ten-second pause and the timeouts may take any time relative to each
  other, which includes every order the real delays allow. `NothingForgotten` says what the sleep achieves when it is
  long enough, `SuccessLeavesNothing` fails because nobody waits for it.
* The data race on `running` and on the slots of `handles` is modelled by reads and writes that interleave freely but do
  not tear, since both are machine words.
* SIGINT closes the OPC UA server while collectors may still write to it, SIGTERM does not; what a write to a closed server
  does is the library's affair.
