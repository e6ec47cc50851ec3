# OTA update of an STM32 through an ESP32 gateway: TLA+ models and proofs

The system updates an STM32 over the air. An operator uploads a firmware image
to a Flask server; an ESP32 gateway polls the server, downloads what it
announces, checks a CRC-32 and programs the STM32 over UART through the STM32's
system-memory bootloader. The gateway also carries a WebSocket client that is to
report its progress. This directory models both paths, checks them with TLC
and proves their main safety properties with TLAPS.

Paths below are relative to the repository; `main/src/` stands for
`src/OTA_STM32/BootUART/main/src/`, and `esp_websocket_client.c` lies in
`src/OTA_STM32/BootUART/managed_components/espressif__esp_websocket_client/`.

## Inventory

| Component | State | Operations | Talks to |
|---|---|---|---|
| Firmware server, `src/web/webserver.py` | `firmware/latest.bin`, `firmware/version.json`; one thread per request | `upload_bin`, `get_firmware` | operators, gateways |
| Update loop, `main.c`, `state_control.c`, `control.c` | where `app_main` is; `system_status` | poll, start, resume, commit | everything below |
| HTTP client side, `http_connection.c` | `current_ver`, `update_ver`, `checksum_cal`, `checksum_get`, the handlers' static `FILE*` | `new_version`, `http_download_version`, `http_download_firmware`, two event handlers | server, SPIFFS |
| Files, `setup_SPIFFS.c` | `OTA0/firmware.bin`, `OTA1/rollback.bin`, `version.json`, `pending_version.json` | `setupSPIFFS`, `copy_file` | survive a restart |
| Flags, `nvs_control.c` | `in_progress`, `rollback`, `wifi_disconnect` | write, read | survive a restart |
| JSON, `json_control.c` | none | `dump_json_str`, `dump_json_int` | files |
| Wi-Fi, `wifi_setup.c` | event group, retry count | `event_handler` (event-loop task), `wifi_sta_init` | flags |
| UART link, `uart_command.c` | `stop_tasks`, `sema`, `event_group`, the driver's receive buffer and mutex, rx and tx tasks | `init_line`, `readout_unprotect`, `erase`, `write_flash`, `flash_firmware`, `rx_task`, `tx_task` | the STM32 bootloader |
| STM32 bootloader (external) | flash, protocol state | answers 0x7F, readout unprotect, erase, write | UART |
| WebSocket client, `websocket.c` | one client handle | `ws_client_init`, `ws_client_send`, `ws_client_deinit`: start, send_text, stop and destroy of the next row | nothing calls it yet |
| Vendored client, `esp_websocket_client.c` | `state`, `run`, `wait_for_pong_resp`, tick stamps, event bits, the mutex, the transport | its task; `start`, `stop`, `close`, `destroy`, `destroy_on_exit`, `send_*`, `abort_connection` | WebSocket server, event listeners |
| `Python/`, web page, scripts | | desktop experiments, presentation | |

What is hard here:

* *Crashes.* Programming takes minutes and the only record of it is one NVS
  flag; four files are replaced in place, none atomically.
* *Interleavings.* Uploads replace two files while a gateway reads them with two
  requests; two uploads share them; in the UART code up to five tasks share
  three globals and only delays keep them apart; the WebSocket client's task,
  its senders and whoever stops it share a state of which the mutex protects
  only a part.
* *Event counting.* The CRC is complemented once per `HTTP_EVENT_DISCONNECTED`,
  and how many of those come depends on how a request ends.
* *Time.* Every answer of the bootloader races a 5 s wait, a 1 s read, a 1.5 s
  sender and the delay at the end of each command; PINGs repeat while a PONG is
  awaited; a stop waits without limit.

What makes each part correct: the server's two files agree whenever it says an
upload succeeded; the gateway programs only what it checked, always finishes
what it began, knows what it installed and never loses the image it runs; the
link credits each answer to the command it belongs to, comes to an end, and
leaves no task behind that disturbs the next command; the WebSocket client has
one task at most, sends messages whole, closes what it opened, tells its
listeners the truth, and can be stopped but for two races of `start`.

## Modules

| Module | Models | Code it stands for |
|---|---|---|
| `Crc32` | images as sequences of chunks, CRC-32 with its two complements, the version record | `json_control.c`, constants and updates of `checksum_cal` |
| `FirmwareServer` | `upload_bin` as five steps (truncate, save, hash, truncate the record, write it), one process per request | `webserver.py` |
| `OtaGateway` | the gateway: one action per stretch of code between two points where a restart, an upload or a network event can be seen | `main.c`, `control.c`, `http_connection.c`, `setup_SPIFFS.c`, `nvs_control.c`, `wifi_setup.c`, `flash_firmware` |
| `OtaSystem` | gateway and server interleaved, the properties, fairness, and the strengthened invariants | |
| `BootLink` | the UART link with its tasks, in steps of 100 ms | `uart_command.c`, the order of commands in `control.c` |
| `FlashJob` | abstract: a flashing job (erase, every block once and in order, finished when all are there) | what `OtaGateway` and `BootLink` both have to do |
| `WsClient` | the WebSocket client: task, senders, the thread that starts and stops it | `esp_websocket_client.c` |
| `WsSession` | abstract: which sequences of events a listener may be told | `esp_websocket_client.h` |
| `MCOtaSystem`, `MCBootLink`, `MCWsClient` | instances for TLC | |
| `BootLinkInv` | the inductive invariant of `BootLink`, and what it needs of the bootloader | |
| `OtaSystem_proofs`, `WsClient_proofs`, `BootLink_proofs` | theorems | |
| `BootLink_lemmas`, `BootLink_tasks`, `BootLink_steps` | lemmas for `BootLink_proofs`: about the data; the steps of the tasks; those of `app_main`, of the bootloader and of the clock | |

`PROJECT.json` maps each definition to its lines.

### OtaGateway

`pc` names the place in `app_main`: `poll` and `decide` are `update_status` and
the branch taken on it; `getVersion`/`versionBody` are `http_download_version`,
called from two places (`caller`); `getFirmware` to `restore` are
`http_download_firmware` with its handler; `bootStart` to `clear` are
`uart_boot_firmware`; `commit`/`commitBody` are the `copy_file` after it.
`resumed` remembers which branch of `app_main` called. Files, flags and the
STM32's flash survive `Restart`; the rest is reset. Two variables are history:
`unfinished` (the flash has been touched and not yet programmed to the end) and
`struck` (the kinds of fault there have been).

Faults are a constant set of kinds and `MaxFaults` bounds how many strike:

* `power`: a restart at any step, with or without the STM32; a file that was
  being written keeps any prefix of it;
* `transfer`: a response breaks off while the server stays reachable;
* `outage`: the server or the access point goes away until `NetUp`;
* `storage`: an `fopen` or `fwrite` fails, at any of the places the gateway
  writes a file, or the `fopen` in `flash_firmware`, which goes on with NULL,
  panics and restarts the ESP32 alone (`FileUnopened`);
* `nvs`: an NVS call fails, which the code logs and ignores.

A property that one kind of fault defeats is stated until that kind has struck
(`Spared`), and for all others without limit. None of these exceptions is a
convenience: without it, and with the fault in the run, TLC violates the property.

`FirmwareServer` saves an image in one step, where `file.save` copies it buffer by buffer. A
gateway that reads a half-saved `latest.bin` gets an image that is not the one announced, as
it does when another release is saved under its download, which is in the model.

Assumptions about the parts outside `src/`. The ESP HTTP client dispatches
DISCONNECTED twice for a response read to its end (when it closes the finished
connection and when it is cleaned up) and once for a request that failed.
The shipped pair of files fits this: `version.json` holds the CRC that
`checksum_cal` has after an even number of complements. A server that serves a
file fixes the length of the answer when it opens it. CRC-32 has no collisions;
a truncated `version.json` does not parse.

### BootLink

The four command procedures follow one pattern (create the semaphore, send,
create a task, wait for a bit, take the semaphore, ..., set `stop_tasks`, delay,
delete the semaphore), so one set of actions models them and the operators
`Waits`, `Frame`, `Spawns`, `Lead` and `Linger` say where they differ. An
`rx_task` is a record with its place in the loop, a timer and the bytes of the
read; `mux` is the driver's lock inside `uart_read_bytes`. `Tick` lets 100 ms
pass when no task can run. `seen` is the value of `bits` in the code, `bits` the
event group. The bootloader answers each frame within `Latency`, may refuse the
frames in `Refusable` with NACK, and loses a frame that comes while it is busy.

After a NACK the code still sends the rest of the command. The bootloader is then
waiting for a command: it takes those bytes two by two, refuses each two that are no
command and keeps one left over as half of the next (`Garbled`). That is one NACK for a
global erase, two for an address, one or more for a block; a 0x7F too many is half a
command. Whether the two ends find together again is therefore a question to the model.
They do after a refused erase command, global erase or block. They do not after a
refused write command or address: `write_flash` goes on with an address or up to 254
bytes of data (`uart_command.c:406`, `430-432`), several NACKs come back, and
the one left over is taken for the answer of the repetition. With
`Refusable = {"write"}` or `{"address"}` and one refusal TLC violates `InStep`,
`AllProgrammed`, `JobSpec` and `Finishes`. `LinkInTime` and the proofs leave these two
frames out, by name, in `Refusable` and in `Punctual`.

`uart_read_bytes` is taken to return after 1000 ms without a byte, as the driver
does when the buffer does not fill; an answer is therefore seen a second after
it came.

### FlashJob, or how OtaGateway and BootLink fit together

`OtaGateway` programs an STM32 that obeys and looks at restarts, files and
flags; `BootLink` looks at one uninterrupted `uart_boot_firmware` and at what
each command goes through. `FlashJob` is what they have in common, and each is
shown to implement it under a mapping of its own: in the gateway the job is open
in `flash_firmware`, its blocks are the chunks in the flash and its total those
of OTA0; in the link the job is open between an accepted mass erase and the end
of the script, and its blocks are the write commands the bootloader accepted. So
what the gateway takes for granted (an erase before any block, each block once, no
end before the last one) is what the link delivers, refusals and repeated
commands included.

### WsClient

The task (`esp_websocket_client_task`): `Begin` is what it does before its loop,
`Loop` the test of `run`; `Connect`, `KeepAlive`, `Retry`, `Echo` and `Pass` are
the cases of the switch, which run under the mutex and therefore in one step;
`Wait` chooses what it blocks on; `Poll`, `Recv`, `Closing` and `Drop` are the poll,
`esp_websocket_client_recv`, the state it sets on a CLOSE, and the abort after an error;
`Sleep` the wait for half the reconnect time; `Shut` the second a server has to
close; `Finish` and `Leave` the last lines, before and after `STOPPED_BIT`.

A sender (`esp_websocket_client_send_with_exact_opcode`): `Send` asks whether the client is
connected, without the mutex; `Lock`, one `Written` per buffer, or `WriteFails`;
then `abort_connection` in two steps, `CloseSocket` and `TellLoss`, because between
its look at the state and its change of it other threads run. The thread `App`
calls `start` (`Start`, `Started`: the bits are cleared after the task is created),
`stop`, `destroy` (`AskToStop`, `Stopped`), `destroy_on_exit`, and `close` with and
without a time limit (`Close`, `CloseSent`, `Closed`, `CloseTimeout`).

A time-out is a member of `due`, which `Expire` may add at any moment at which the task
looks at its clock, and which setting the clock anew removes. `conn` is the transport: open, broken, the frames not
yet read, and three marks the properties need (a PING was sent on it, whose
message is incomplete, the server has sent its CLOSE). `ev` is the last event
of the session that was dispatched.

Modelled is what the firmware builds: no `CONFIG_ESP_WS_CLIENT_SEPARATE_TX_LOCK`,
no dynamic buffers, ESP-IDF 5.4. Of the options, `auto_reconnect` and
`close_reconnect` are constants.

`recv` answers a PING with a PONG without the mutex. That frame is not a write on `conn` in
the model: it is a control frame, which WebSocket allows between two buffers of a message, so
`WholeMessages` is about what senders write. `Begin` leaves out the way out for a client
without a transport (`esp_websocket_client.c:1066-1069`), which `start` has just created.

`start` shares two things with the task it creates and protects neither, and a `stop` may lose
its wait to both. The task sets `run` in its first lines, over what a `stop` has cleared
since (line 1059); and `start` clears `STOPPED_BIT` after it has created the task, which
may have ended and set it (line 1290). `missed` is history and tells which of the two has
happened in the session. `WaiterIsServed` and `ServedReturns` say that nothing else can keep a
waiter, with the firmware's options, on one core or two, whatever the order of the calls.
`StopReturns`, which does not except the races, fails in `WsStopLost` by the first. With the
firmware's options (`close_reconnect` off) it fails by the second too: a CLOSE of the server
ends the session before `start` goes on, `start` clears the bit, and the next `stop` waits
for ever; TLC finds this even with `Prompt`.

`Prompt` is a constant: no caller runs while a task is in its first lines (from
its creation to `INIT`) or in its last ones (from leaving the loop to its end). In
between, callers and task run side by side, on one core or two. On one core
`Prompt` follows from the task's priority (5, `app_main` has 1). This firmware's
`sdkconfig` has two cores and `xTaskCreate` gives no affinity, so there it says that the two
stretches are over before a caller comes to look, which is likely (a caller would have to
follow up a `start` or a `STOPPED_BIT` within microseconds, or the end of a session during
`esp_transport_close`) and **not** guaranteed. `WsDefault` runs without it, and `TypeOK`,
`OnlyAskedIsAwaited` and `WaiterIsServed` are proved without it. The others need it, as TLC
shows with `Prompt = FALSE`:

* `OneTask`: a second `start` before the task has set `state` creates a second task, with
  which `StoppedMeansClosed` falls as well;
* `WholeMessages`: a sender that takes the mutex after CLOSED and fails finds `UNKNOW` and
  leaves its message incomplete on the open socket.

`DestroyWaits` is about the task's last lines only, so under `Prompt` there would be nothing to
check; it is the run `WsDestroyEarly`, a violation. `WsDefault` has room for one task, so a
second `start` waits there until the first task has gone; two tasks on one client, which
it takes otherwise, also defeat `SilenceEnds` (not `ServedReturns`).

All three places of `Passing` are needed: without any of them one of these fails. Without
`AutoReconnect` an abort sets the state in which `start` creates a task while the first
one has not ended: `OneTask` and what rests on it need it.
`WsSession` allows one irregular event (`Stray`): a sender that had closed the socket
when the session ended tells its DISCONNECTED after FINISH.

Three things seen while modelling that no property states, because the firmware does not
meet them yet. A client that is stopped between a sender's two steps of `abort_connection` is
left in `WAIT_TIMEOUT` without a task: `start` then says "The client has started" and only
`destroy` helps. A `close` without time limit on a client that is just reconnecting sets
`CLOSE_FRAME_SENT_BIT` without a CLOSE and does not return as long as the client
keeps failing to connect. And `close` sets that bit after it gave the mutex back, so a
PING may follow the CLOSE.

## Runs

| Run | Instance | Shows |
|---|---|---|
| `OtaAllFaults` | 2 releases, all five kinds of fault, 2 of them, fairness | `TypeOK`; `UnfinishedIsRecorded`, `BootModeRecorded`: the flag that makes `app_main` take the work up again is set whenever the flash is half written or the STM32 in its bootloader; `InstalledImageKept`: backup and restore never lose the installed image between them; `JobSpec`: the gateway implements `FlashJob`; `PublishedAgree`: uploads that do not overlap leave the server's two files in agreement; `Converges`: the last release is installed in the end, unless there was an outage or a storage fault; `FlashGetsFinished`: what was begun is finished, until an NVS call fails |
| `OtaVerified` | 3 releases, overlapping uploads, 2 faults of power, transfer, nvs | `VerifiedFlash`, `InstalledAsAnnounced`: what is programmed is what was checked, although the server's files change under the download, and a flashing that was resumed unchecked records nothing as installed; `UpToDateIsTrue`, `NoNeedlessFlash`: comparing file names is enough as long as no name is used twice |
| `LinkInTime` | 3 blocks, 3 refusals (erase command, global erase, block), 0 or 1 stale byte, answers within 300 ms, mass erase within 3.8 s, fairness | `TypeOK`, `InStep`, `AllProgrammed`, `NeverPanics`, `TasksBounded`, `Finishes`; `Inv`, the inductive invariant of the proofs; `JobSpec`: the link implements `FlashJob` |
| `WsDefault` | 1 task, 1 sender, 2 starts, the firmware's options, no `Prompt`, fairness | `WaiterIsServed`, `ServedReturns`: a wait for the task ends, but for the two races of `start`; `OnlyAskedIsAwaited`, `SilenceEnds`: a silent server is given up, and only for a PING it was sent |
| `WsReconnect` | 2 tasks, 2 senders with messages of 2 buffers, every call, `close_reconnect`, 2 starts, `Prompt` | `TypeOK`, `WholeMessages`, `StoppedMeansClosed`, `OneTask`; `SessionSpec` (implements `WsSession`) |
| `OtaOutage`, `OtaUploads`, `OtaWithdrawn`, `LinkNack`, `LinkLate`, `WsStopLost`, `WsDestroyEarly` | see Findings | each violates one statement of the code |

Bounds. `NChunks = 2` is the least with a torn file that is neither empty nor
complete and with a file that mixes two images. Three releases allow an upload
during the download of the one before, on a gateway that has a first one
installed. Two faults are a fault and one in its recovery; the
proofs have no such bound. Refusals: one, one in the repetition, and one in a later command. Three blocks show
that tasks left over from one block do not add up over the next two; five slots
for rx tasks are one more than are ever in use. `LinkInTime` allows deadlock
because `app_main`'s script ends (`done`); `Finishes` says that it gets there.
Two senders with two buffers each are the least with one that could break into the
other's message; two tasks and two starts the least with a second task, or a second
session after a first; one unread frame of the server (`MaxInbox`) is enough because
the task reads one per round. The client may stop for good, destroyed or never
started again, so deadlock is allowed; that it does not stop in a wait is `ServedReturns`.

Fairness. `OtaAllFaults` assumes weak fairness of the gateway's own steps together
(`app_main` is one task that never stops), of an upload that has begun, and of
the return of the network. Faults, new uploads and broken transfers get none.
`BootLink` assumes weak fairness of `Next`: FreeRTOS runs a ready task and the
clock advances; that no task waits for another at the cost of a third follows
from `Tick` being enabled only when none is ready. `WsClient` assumes strong fairness
of each task, of each send that has begun and of a call of `App` that has begun, and weak
fairness of time: a FreeRTOS mutex goes to the thread that waits for it when it is given,
so a thread that finds it free again and again gets it. Nothing is assumed of the server, of the
network, or that anybody calls.

`LinkInTime` holds only because answers are early enough. With answers of 400 ms
and a stale byte `tx_task` has sent a second 0x7F before the first answer is
seen, which the bootloader takes as half a command; with two stale bytes the
first ACK is the third byte of its read, which nobody looks at. A mass erase
of 4 s is answered after the 5 s wait has given up, because of the second of
silence the read needs (`LinkLate`).

### Findings

* `OtaOutage`: a gateway that cannot reach the server passes the CRC check at
  the second attempt and erases the STM32. Each failed request complements
  `checksum_cal` (`http_connection.c:80`) without seeding it: 0, 0xFFFFFFFF, 0,
  and 0 is also what `dump_json_int` returns for a file that does not parse.
* `OtaUploads`: overlapping uploads leave a `version.json` that does not describe
  `latest.bin` (`webserver.py:36-46`), and both are told they succeeded.
* `OtaWithdrawn`: `app_main` resumes from `OTA0/firmware.bin` without checking it
  (`main.c:53`). Restart while v2 is being programmed; restart again just after
  the repeated download truncated OTA0; the operator puts v1 back; the poll sees
  no new version, the flag resumes the programming with an empty file, and
  `version.json` still says v1: an empty STM32 and a gateway that is up to date.
  With a name of its own for each release the next poll repairs this, which is
  what `OtaVerified` and `OtaAllFaults` show.
* `LinkNack`: a NACK to readout unprotect makes `app_main` wait for ever
  (`uart_command.c:323`): the timeout of the wait is not the timeout of the take.
* `LinkLate`: for the same reason an answer that comes late is counted as success
  even if it is a NACK (`uart_command.c:263`). In this instance `AllProgrammed`
  is violated as well: the refusal of a mass erase stays in the event group, the
  blocks are written to a flash that was never erased, and each answer is from
  then on credited to the part after its own.
* `WsStopLost`: `start` only creates the task, which then sets `run`
  (`esp_websocket_client.c:1059`); a `stop` between the two clears it in vain and waits for
  `STOPPED_BIT` for ever. It takes two cores, or a caller of at least the task's priority.
* `WsDestroyEarly`: `destroy` frees the client on `STOPPED_BIT`, which the task sets before
  it writes `state` and reads `selected_for_destroying` for the last time
  (`esp_websocket_client.c:1259-1261`). It takes two cores as well.

## Proofs

`OtaSystem_proofs` proves, for any images, versions, number of chunks, sequence
of uploads, set of faults and number of faults:

| Theorem | Statement | Which says nothing after |
|---|---|---|
| `TypeCorrect` | `Spec => []TypeOK` | - |
| `UnfinishedRecorded` | `Spec => []UnfinishedIsRecorded` | an NVS call that failed |
| `BootModeIsRecorded` | `Spec => []BootModeRecorded` | an NVS call that failed |
| `FlashIsVerified` | `Spec => []VerifiedFlash` | an outage, a storage fault |
| `InstalledIsAnnounced` | `FreshNames` implies `Spec => []InstalledAsAnnounced` | an outage, a storage fault; of a resumed flashing, also an NVS call that failed |
| `InstalledIsKept` | `Spec => []InstalledImageKept` | also a restart by a power loss |
| `GatewayDoesJobs` | `Spec => JobSpec` (refinement) | - |
| `SerialUploadsAgree` | `~Concurrent` implies `Spec => []PublishedAgree` | - |
| `UpToDateIsRight` | `FreshNames` implies `Spec => []UpToDateIsTrue` | an outage, a storage fault, an NVS call that failed |
| `NoFlashIsNeedless` | `FreshNames` implies `Spec => NoNeedlessFlash` | the same |

Four assume something of the constants: that uploads do not overlap
(`Concurrent` is false; without it the run `OtaUploads` violates the statement), or
that no two uploads have the same version name (`FreshNames`; the run `OtaWithdrawn`
shows what a name used twice does). Uploads may overlap where `FreshNames` is assumed.

`VerifiedFlash` and `InstalledAsAnnounced` admit one way past the check. A
`pending_version.json` that was torn does not parse and counts as checksum 0; if the
answer with the image then breaks off before its first byte, the seed is complemented once,
to 0. Two broken transfers, with no outage, thus erase the STM32 and program an empty file.
What the two say is that no other file gets past, and that the record committed after it does
not parse either, so that the next poll downloads anew.

`InstalledAsAnnounced` covers the resumed flashing (`main.c:53`) too, which programs
whatever OTA0 holds, checked or not. It cannot promise the image; it says that the record
that is about to be committed behind it does not parse, so that the gateway does
not believe to have anything. This rests on names of their own for the
releases: `app_main` resumes only if the announced name is the installed one or a record
did not parse, and while the flag is set the installed one is superseded. `OtaWithdrawn` is
the case in which that fails.

None of the invariants is inductive as it stands. `FlagInv` adds where the flag is set
(`enterBoot` to `clear`) and what is restored before it is cleared. `ImageInv`
adds how the file relates to the running sum while a body is received (the file
is the data summed so far and the sum has not been complemented), that a sum with
an even number of complements after it still describes the file, that
`checksum_get` belongs to `pending_version.json` from the moment it is parsed, and
that the flash is a prefix of the file while it is programmed. `checksum_get`
never has the complemented form except as `Zero`: that is why a broken download
(one complement) cannot pass behind a record that parsed, nor with a byte received
behind one that did not. `KeepInv` says at each place which of OTA0 and OTA1
holds the installed image; it rests on `ImageInv`. `JobInv` says that the flash is never
longer than the file it is programmed from. `SerialInv` follows the one upload in
flight: once it has hashed, its `sum` is that of `latest.bin`.

Why names are enough rests on the history of uploads, which three invariants
spell out. A record is `Published` once its upload is done, and `Superseded` when
the server has another one in its place. `RecordInv`: `srvMeta`, `pendFile` and
`verFile` only ever hold published records, the pending one no older than the
installed one, and `app_main` is in `http_download_firmware` only if what it has
installed is superseded. `CallInv` carries the versions `new_version` compares from
the reads to the branch, and the caller to the return. `InstallInv`: while the flag is
set, `version.json` names a superseded release (so the gateway is not `UpToDate`);
while it is not, the flash holds what `version.json` says or that release is superseded;
and a flashing is resumed only behind a record that did not parse.
With names of its own for each upload a superseded one is never announced
again, which is the step that fails in `OtaWithdrawn`.

Each strengthening is proved to
hold initially, to be preserved by every action (one step per group of actions,
with one below for each conjunct that needs it) and to imply its property; lemmas about
`struck` show that what is stated until a fault need not be shown after it.

`WsClient_proofs` proves, for any sets of tasks and senders, any number of buffers,
frames and starts:

| Theorem | Statement | Assumes of the constants |
|---|---|---|
| `TypeCorrect` | `Spec => []TypeOK` | nothing |
| `OnlyAsked` | `Spec => []OnlyAskedIsAwaited` | nothing |
| `OneTaskAtATime` | `Spec => []OneTask` | `Prompt`, `AutoReconnect` |
| `MessagesAreWhole` | `Spec => []WholeMessages` | the same |
| `StopClosesSocket` | `Spec => []StoppedMeansClosed` | the same |
| `EventsTellSessions` | `Spec => SessionSpec` (refinement) | the same |
| `WaitersAreServed` | `Spec => []WaiterIsServed` | nothing |

`TypeCorrect` needs `LeftInv`: a sender counts down only while there is a buffer left.
`LockInv` says who holds the mutex and that a message is incomplete only on an open socket.
`TaskInv` is the heart: a task at work has an active state, so `start` refuses;
`STOPPED_BIT` is set, and the socket closed, only with none at work. It is preserved
because with `Prompt` no caller acts between the task's creation and its first state, or
between the end of its loop and its own. `LockInv` and `TaskInv` need each
other (a task that closes the socket must not do so under a message, a sender that
aborts must leave an active state) and are proved together. `EventInv` ties the last event to the
task and the socket, for the refinement. `ServedInv` holds without any of them: either
`STOPPED_BIT` is set, or a task has it still to set, or `start` has cleared it behind one; and
while someone waits, `run` is only set again by a task that `start` has just created.

`BootLink_proofs` proves, for any number of blocks, slots, refusals, and any times of
the bootloader that fit:

| Theorem | Statement | Assumes |
|---|---|---|
| `Invariance` | `Spec => []Inv` | `Punctual` |
| `TypeCorrect` | `Spec => []TypeOK` | the same |
| `StaysInStep` | `Spec => []InStep` | the same |
| `EverythingProgrammed` | `Spec => []AllProgrammed` | the same |
| `PanicImpossible` | `Spec => []NeverPanics` | the same |
| `DoesTheJob` | `Spec => JobSpec` (refinement) | the same |
| `TasksFew` | `Spec => []TasksBounded` | also `EnoughSlots` |

`Punctual` bounds the bootloader: the 0x7F is answered within 300 ms, readout unprotect
within 2.9 s and any other frame within 3.9 s; at most one stale byte is in the buffer
at the start; and readout unprotect, the write command and its address are not refused.
`LinkInTime` is an instance of it; `LinkLate` and `LinkNack` drop one condition each and
fail, and so does a refused write command or address (see `BootLink` above). Which of the
other frames are refused, how often, in which of the ways of `Garbled` a frame out of place
is answered, and the `Latency` of each frame below those limits are arbitrary.
`EnoughSlots`: `Rx` is finite with more than four members, a bound of the model and
not of the code, which creates a task as long as there is heap.

The code has no state that says where an exchange is; delays stand for it. So `Inv`
has two halves. `MainInv` says for each place of `app_main` what the
bootloader expects, what it has heard and which bytes are on their way: the frame is
not yet sent, or with the bootloader, or its answer is coming back (`Coming`; two
answers for readout unprotect), or the answer has been posted. `Flow` is the
sequence of those bytes, wherever they are: at most one rx task has read some, and
what it has not yet looked at precedes what is in the buffer. `TaskInv` and `TxInv` say
that there is time: an answer that is on its way is handled before the wait ends
(`AnswerTime`), in `init_line` it and a stale byte before `tx_task` sends again
(`InitTime`), and the delay after `stop_tasks` is longer than what any task still has
to do that could give the semaphore (`LingerTime`). The exception, a task that waits for
the driver's mutex when its command ends, can outlive the command; it then reads
for the next one. That is why `write_flash`, with three tasks to a block, needs `CountInv`:
after each block one task at most is left, so they do not add up.
The two halves need each other and are proved together, one step per action: those
of the tasks in `BootLink_tasks`, those of `app_main`, of the bootloader and `Tick`
in `BootLink_steps`. The limits in `Punctual` are those the arithmetic of the proof needs:
the wait (5 s) less a read's second of silence less what is kept in `Reserve`.

Only model-checked, because liveness under fairness is beyond the prover: `Converges`,
`FlashGetsFinished`, `Finishes`, `ServedReturns`, `SilenceEnds`. Every invariant, action property
and refinement that a passing run checks is a theorem as well. The CRC is an
abstraction in the model; nothing is proved of its polynomial.

## Not modelled

Contents of frames and their XOR checksums, block addresses, GPIO levels other
than the boot mode they select, JSON text, heap use (`dump_json_str` leaks two
strings per poll), `read_state_rollback` and `read_state_wifi_disconnect` (nothing
acts on them), mounting and formatting of SPIFFS, Wi-Fi driver, web page, Python
experiments. `main/src/websocket.c` has no actions of its own: its three functions are
calls that `WsClient` has, in one order, and its handler only logs. Of
`esp_websocket_client.c`: the set-up of URI, headers, TLS and transports, which happens
before `start`; the data given to listeners and how a frame is cut into events; handlers that
call back into the client; `set_ping_interval_sec` and the like, which write one number;
what the transport makes of a PONG sent beside a message.

## Plan

1. `Crc32`, `FirmwareServer`, `OtaGateway`, `OtaSystem` with their runs; type
   correctness and the main safety theorems. Done.
2. `BootLink` with its runs. Done.
3. `WsClient`, `WsSession`, their runs and theorems. Done.
4. `FlashJob`, implemented by `OtaGateway` and by `BootLink` (checked and proved). Done.
5. Proofs: `BootLink` for any number of blocks; `UpToDateIsTrue` and `NoNeedlessFlash`
   for releases with names of their own. Done.
6. To do: the safety half of the liveness properties as theorems (which step is enabled
   at each place where `app_main` waits), and what `WsClient` keeps without `Prompt`.
