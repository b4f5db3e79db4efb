# A verification development for mammotion-rc

mammotion-rc drives a robot mower from a browser. A HaLow board in the garden
(the *HC33*, `src/firmware`) proxies one TCP connection to the mower's BLE GATT;
a web server (`src/web-server`) holds that connection, speaks the vendor's
protocol over it through a library (pymammotion) and serves a page with a
joystick. This directory has TLA+ models of the parts where things happen at the
same time or fail half-way, TLC runs over small instances of them, and TLAPS
proofs for instances of any size.

    page: stick ----WebSocket--> joystick_ws tasks -+
                                                    |   HC33 proxy transport
    page: buttons, -----HTTP---> handlers, ---------+-> (one socket, two locks)
      polls, camera              watchdog                   |  TCP, [len][frame]
                                    |                   HC33: TcpProxy
    login, roster <--- two files ---+                       |  calls, callbacks
                                                        BleCentral --GATT--> mower
                                                                               |
    internet <--- HaLow (association, TX pool) <--- softAP with NAPT <--Wi-Fi--+

Contents: [inventory](#inventory), [modules](#modules-and-the-code),
[runs](#runs), [fairness](#fairness), [what the code does otherwise than it
says](#what-the-code-does-otherwise-than-it-says), [proofs](#proofs),
[limits](#what-is-only-model-checked-and-what-is-not-modelled), [plan](#plan).

## Inventory

### HC33 firmware (`src/firmware/src`)

**TCP proxy** (`tcp_proxy.cpp`, `.h`). State: the accepted client, `ble_open_`,
the receive state machine (`rx_state_`, `rx_len_`, `rx_buf_`), the queue of
notifications, `last_rx_ms_`. Operations: one pass of `loop()` accepts a client
and has the BLE link opened for it, or drops an idle or departed client and the
link with it, moves bytes from the socket into a frame, writes a whole frame to
BLE or holds it while BLE refuses it, and drains the notifications to the socket.
Hard: three tasks (Arduino loop, NimBLE host, the network); fragments of any size;
backpressure; sessions that end in the middle of a frame; a link that is still
being torn down when the next client comes. Correct when: a client's frames reach
the mower whole, in order, once, over that client's own link; no link outlives
its client; notifications come in order and do not leak to the next session.

**BLE central** (`ble_central.cpp`, `.h`). State: the NimBLE client, the two
characteristics, the known address. Operations: `connect_mower()` (scan, connect,
one retry with a fresh scan, discover, subscribe), `disconnect_mower()`,
`write()`; callbacks of the host task. Hard: every step may fail and leaves its
predecessors' effects; it blocks the loop task; disconnecting is asynchronous.

**Main loop and task watchdog** (`main.cpp`). Calls `TcpProxy::loop()`, keeps the
softAP in step with the HaLow association, refreshes mDNS, feeds a 30 s watchdog
that panics. Correct when planned work fits the watchdog.

**HaLow TCP client and server** (`HalowClient.cpp`, `HalowServer.cpp` in the
overlay). One listening socket, non-blocking reads, writes that retry and may
return short, a connection state that learns of a FIN only by looking.

**Association and softAP** (`main.cpp`, `halow_init.cpp`, `soft_ap.cpp`). State: the
station's state, which changes under the loop task's feet; `last_state` of
`halow_softap_sync()`; `s_softap_up` and what of the AP really runs. Operations:
`net_connect()` with its attempts and reboots, `soft_ap_begin()` in six steps that
may each fail, `soft_ap_stop()`. Hard: the loop acts on edges of a polled state, and
polls it before a call that takes long; a failed start is not retried. Correct
when: the flag says "up" only if the AP serves, and follows the uplink.

**TX path** (`halow_tx_nonblock.cpp`; `mmpktmem_heap.c` in the overlay). State: the
number of packets on the heap, a flag that pauses the data path, two reserved
command blocks. Operations: allocate, free, and a link output that drops instead of
blocking lwIP. Hard: any task does any of it at any time, without a lock; count
and flag are atomic one by one only. Correct when: the pool is not overdrawn, and a
paused path is resumed.

**Rate limiter** (`tcp_rate_limit.cpp`): token buckets, disarmed in this build
(soft_ap.cpp:115-119). **UDP discovery, mDNS, configuration, statistics**: stateless
responders and start-up code; discovery reads the bonded name of another task
without a lock.

### Web server (`src/web-server`)

**HC33 proxy transport** (`hc33_proxy.py`). State: reader, writer, reader task,
availability, `_connect_lock`, `_send_lock`. Operations: `connect()`,
`disconnect()`, `send()`, and the reader task. Hard: `disconnect()` takes no lock
and awaits in the middle; a reader task looks its stream up at each read; a half
open socket counts as connected. Correct when: "connected" has a socket behind
it, a drop is reported, and nobody waits for ever.

**Link priority gate** (`_PriorityHC33Transport`, `app.py`). A count of the control
sends in flight, an event behind it, a bounded yield for all others. Correct when:
it is shut exactly while a control send is in flight and starves nobody.

**Watchdog and reconnection** (`app.py`). Per mower: the watchdog's last
observation, `auto_retrying`, `auto_gave_up`, `manual_op`. Operations:
`_build_and_connect()`, `_watchdog()`, `_auto_reconnect()`, `/api/reconnect`,
`_teardown_all()`, and any command that finds the link down. Hard: five kinds of
task on one transport, of which only some look at the others' flags; the flags are
kept by the mower's name, so that a task which outlives its roster has them in
common with the next one. Correct when: one retry sequence runs at a time and
everybody comes back.

**Joystick and dead man's switch** (`joystick_ws()`, `app.py`; `static/app.js`). Per
WebSocket: a mailbox of one command with an event, a sender task, `stopped`; per
mower: the time until which the stick counts as held. Hard: the receive loop, the
sender, other tabs, telemetry and cancellation, with a link that may stall
anywhere. Correct when: the newest command wins, a release is never lost, and
whoever drives and disappears gets the mower stopped, by a stop that comes last.

**Onboarding and persistence** (`app.py`, `persist.py`). State: the login captured for
the next save, `secrets.toml` and `mowers.toml`, the live roster with a transport,
a handle and a watchdog per mower. Operations: login, `onboard_save()`,
`_apply_mowers()`, `_teardown_all()`, the server's start. Hard: a save takes its
credentials from its body or from the login, writes one file after the other and then
rebuilds everything across awaits, while another save or login does the same; a crash
or a failed write may fall between the files; tasks that the teardown does not know
go on with the links it has torn down. Correct when: a roster never has older
credentials than its own beside it, is the one that is live, and no login is lost.

**Cloud session** (`app.py`): `state.http` and `state.cloud_client`, one made from the
other. Hard: a login falls into any await of a scan. Correct when: they are of one
account.

**Status, settings, diagnosis, camera** (`app.py`): views of the library's state and
single commands; the camera's start asks the cloud first and so is overtaken by a
later stop.

### Page (`src/web-server/static`)

**Joystick link** (`app.js`). State: the WebSocket and its generation, a retry timer
with backoff, a guard timer, the heartbeat, the stick's library. Hard: sockets
report late, and seven early returns decide whether there is a link at all.
Correct when: one socket is live, none is abandoned, and none is left with motion as
its last frame.

**Buttons.** State: `pending`, the armed confirmation of the blades. Hard: POSTs are
delivered late, reordered, or after the page has given them up. Correct when: an
action is in flight once, blades need two taps on one mower, STOP stops.

**Camera.** State: the Agora client, a start with its generation, stops. Hard: a switch
of mowers falls into any await. Correct when: the camera is the mower's on the
screen, and no client is left in a channel.

**Readouts.** State: a poll chain each for status and heading, the controls that both
user and telemetry write. Hard: late answers, a switch and back, a hidden page.
Correct when: polling goes on and nothing of another mower is shown.

### Tools

**Add-on, installer, flasher, scanner, `wifi_over_proxy.py`**: packaging and one-shot
tools. The HaLow driver overlay is vendored but for the TX pool, `HalowClient` and
`HalowServer`.

PROJECT.json lists every component with its files and status, and every hazard at
the line where it bites with the properties that would catch it.

## Modules and the code

| module | models | state <-> code | steps <-> code |
|---|---|---|---|
| `FrameFormat` | the wire format of `send_frame_()` and `poll_socket_()` | | `Encode`, `Header`, `HeaderLen` |
| `BleCentral` | `ble_central.cpp` | `link`, `write_char_`, `subscribed`, `addr_known_`; `at` is where the blocking `connect_mower()` is, `spent` what the watchdog has seen of this pass | one action per outcome of each step; `LinkDown` is the host task |
| `TcpProxy` | `tcp_proxy.cpp` on top of it, with the HaLow socket | the members by their names, `wire` and `backlog` for the socket, `pc` for the place in `loop()`; `sent`, `taken`, `back`, `silent` are history | one action per branch of `loop()`, `on_client_connected_()`, `poll_socket_()`, `try_write_pending_()`, `drain_notify_queue_()`; `HostNotify`/`HostPush` are the two halves of the notify callback |
| `FramePipe` | no code: what the HC33 promises | an owner, what was sent, what went through | `Take`: the owner's next frame, whole |
| `SendGate` | `_PriorityHC33Transport.send()` and `HC33ProxyTransport.send()` | `phase` per task, the lock with its FIFO queue, the counter and its event | `send` is the call, one action per await that ends, `Unwind` every way out |
| `Joystick` | `joystick_ws()` and the watchdog's probes, on `SendGate` | the locals by their names, one each per WebSocket | the receive loop, the sender, the `finally`; browsers send, close and vanish |
| `Hc33Transport` | `connect()`, `disconnect()`, `_reader_loop()` | the attributes by their names; sockets and reader tasks are numbered; `call` is where a caller awaits | one action per stretch from await to await |
| `Reconnect` | the tasks of `app.py` that use it | the flags by their names, `at` per task; `survivors` are the tasks of the roster before | one action per stretch from await to await; `SurvivorEnds` is what the end of such a task does to the flags |
| `Uplink` | `net_connect()`, `soft_ap_begin()`, `soft_ap_stop()`, `halow_softap_sync()` | `sta`, `last_state`, `s_softap_up` by their names; `ap` is what really runs; `at` is where the loop task is, `polled` the state it read before a long call | one action per step of the two calls, one per edge in the sync; the association changes in between |
| `TxPool` | `mmpktmem_heap.c` and the link output | `allocated`, `paused` are the atomics, `packets` the packets on the heap, `task` where each task's call is, `told` what the driver was last told | one action per access to an atomic |
| `BrowserLink` | the joystick's link and stick in `app.js` | `ws`, timers and guard by their names; per socket its readyState, whether handlers are attached and current, and the last frame sent | one action per callback |
| `Controls` | `runAction()`, STOP, the blades' two taps; `post_action()` | `pending`, `armed`; per POST where it is and whether it is still awaited; `broken` is history | one action per callback, one for the delivery |
| `Camera` | `startCamera()`, `stopCamera()`, and their endpoints | `agora`, buttons, and a record each for the start, each stop and each Agora client | one action per stretch from await to await |
| `Readout` | `pollStatus()`, `pollHeading()` and their timers, headlight, height slider | the page's variables by their names; `lightOf`, `heightOf`, `compassOf` say whose value is shown | one action per callback or stretch between awaits |
| `Onboarding` | `onboard_login()`, `onboard_save()`, `_apply_mowers()`, `lifespan()`, `persist.py` | `disk` is the two files; tables and links by their names; `run` is where each request is, `held` a link that a task which outlived the teardown still has | one action per stretch from await to await, `WriteFails`, `Crash`; `ConnectsAgain` and `LetsGo` are those tasks |
| `CloudSession` | `_ensure_http()`, `_cloud_mowers()`, the camera's use of them, the login | `http`, `cloud_client` as the accounts they are of | one action per stretch from await to await |

In `Reconnect` the transport is reachable from `Registered` on, before the first
connect has returned and before the watchdog is armed, to the end of the teardown;
a command that took the handle earlier sends even later. The rebuilding is the same
module's next behaviour: it starts with `Survivors`, any retry sequences and
reconnects that the teardown before it did not end. Those have the old transport
in their hands (app.py:318) and the new roster's flags, which are keyed by name, so all
they do to the new transport is to end: `auto_retrying` or `manual_op` goes down,
whoever put it up. What they do to the old transport is `TornDownStaysDown`'s
question there, and `ConnectsAgain`'s in `Onboarding`, where a link is one bit. Saves
that overlap are in `Onboarding` only.

`TcpProxy` EXTENDS `BleCentral` and `FrameFormat` (one board, one address space);
`Joystick` EXTENDS `SendGate`; `Reconnect` EXTENDS `Hc33Transport`. The two sides of
the TCP connection are modelled apart: `TcpProxy` has clients that send, close and
vanish at any time, `Hc33Transport` a peer that closes or is lost at any time, and
each is a superset of what the other does. Likewise `Joystick` has browsers that
send, close and vanish at any time, which is what the page of `BrowserLink` does.

`MCBoard`, `MCPage` and `MCServer` put modules that share no state into one run:
`part` says which of them a behaviour is of, so their states add up instead of
multiplying. `MCServer` also looks at `Onboarding` twice, each time with other
bounds, and `MCReconnect` at `Reconnect`. Where the code of one reaches into
another, both have their half of it: a switch of mowers is an action of each page
module; STOP is `Stop` in `Controls` and `Halt`, the end of the heartbeat, in
`BrowserLink`; a camera that comes and goes is `AgoraChanges` in `Readout`; the
hidden page is `PageHides` in `Controls` and an action of the link and the polls; a
login is `CaptureLogin` in `Onboarding` and `Login` in `CloudSession`, a save of its
credentials or of others `save_secrets` and `SecretsSaved`. That is sound because
each half leaves its occasion open: it may happen at any time, whatever the other
module's state.

Grain. On the HC33 an action is a stretch of a task between two places where
another task's effect can be seen; the host task interleaves everywhere. In the
server, asyncio switches tasks only at an await, so an action is a stretch between
awaits. A call that may finish without suspending has both outcomes (`Enter` goes
to the lock or into `connect()`; a lock nobody wants is taken in the same step). The
page is one thread of callbacks, so an action is a callback, or the stretch of an
async function between awaits. In `TxPool` a step is one access to one atomic;
the driver's reading of the flag in its call-back is taken as one step with what
it concludes.

Operators named `X_Y` just above an operator `X`, and marked as bugs, are variants
of `X` with a plausible mistake (a guard dropped, a reset forgotten, an order
swapped). No specification uses them: each is there to show that a property fails
when `X` is replaced by it. PROJECT.json pairs every property with one.

## Runs

All runs set CHECK_DEADLOCK FALSE: clients, frames, sockets and commands are
bounded, so that a behaviour may end when they are used up.

| run | question | instance | distinct states |
|---|---|---|---|
| `proxy_frames` | are frames lost, repeated, reordered or written to another client's link? does the HC33 implement `FramePipe`? | 2 clients, 6 bytes each, frames of 0, 1 and 2 bytes and one over the limit | 2.72 million |
| `proxy_live` | does a vanished client lose the link, a dead link its client? do notifications keep order and session? | 2 clients, 3 bytes, 2 notifications, fair | 1.08 million |
| `proxy_watchdog` | *violation:* planned operations outlast the task watchdog | as above | |
| `proxy_short_write` | *violation:* a frame to the client is cut short | short writes on | |
| `joystick` | mailbox, cancellation, gate, final stop | 2 WebSockets with 3 and 1 frames, one round of 2 or 4 probes | 5.04 million |
| `joystick_live` | is the mower stopped in the end? | 2 WebSockets with 2 and 0 frames, fair | 136 thousand |
| `reconnect` | are connections reported, single and finite? | 2 retry sequences and a left-over task, 2 sockets, 2 attempts, 1 manual reconnect, 1 command, 1 teardown, fair | 242 thousand |
| `reconnect_torn` | *violation:* a torn-down transport connects again | 2 sockets, 2 attempts | |
| `board` | does the softAP serve when it is flagged up, and follow the uplink? is the TX pool overdrawn, or paused for ever? | 3 attempts; 6 blocks, 1 command block, 4 tasks; fair loop task | 350 thousand |
| `page` | one live link, never abandoned, never left moving? STOP, two taps? the right mower's camera and readouts? | 3 sockets, 2 mowers; 3 POSTs; 2 Agora clients, 2 stops; 2 mowers viewed | 1.44 million |
| `server` | do files, login, live roster and cloud session agree? | files: 2 accounts, 5 kinds of body, 2 saves, 1 mower, 2 links; roster: 2 rosters of one and two mowers, 5 links; 2 accounts, 2 scans | 700 thousand |
| `stop_reach` | *violation:* a STOP is dropped | 3 POSTs, 2 mowers | |

Why the bounds are enough. *Proxy.* Two clients are what the code can confuse: one
being served or torn down and the next; a third would meet the state a second one
meets. Six bytes are two frames of one byte, or three empty ones, or a frame of two
and an empty one, so that a header is split across reads, a frame and the next
header arrive together, and a frame is refused with another behind it. A limit of
two makes the over-long frame short; the length's two bytes are real base-256
arithmetic. Time is in units of 5 s (scan 15 s = 3, GATT connect 10 s = 2, watchdog
30 s = 6); the idle timeout is one tick because only "expired or not" matters.
Clients are symmetric, and so are the ids of the page's camera and of the server's
accounts and saves, and of its links the first free one stands for all; the symmetry
is used in safety runs only. *Joystick.* Three frames are one in the sender's hands,
one in the mailbox and one that supersedes it, the most that can be in play at once;
the second WebSocket gives a second control sender and a second final stop.
*Reconnect.* Two sockets let the reader task and the closing of the first outlive
the opening of the second; two attempts are one that fails and another. The retries'
real number, five, changes nothing but the count. Without a left-over task there is
never a second sequence (`OneSequence`), so a behaviour of the run has either the
manual reconnect and the command, or a left-over task and two sequences. (Run once
with all of them at once, the invariants held in 2.24 million states as well.)
*Board.* Attempts only count up to a reboot. Six blocks put the pool's thresholds
(full, pause, unpause) at three different counts, and leave two for four tasks at
once in the race window; four tasks are one that allocates, one that frees, one
whose call-back is under way and one that overtakes it. *Page.* Three sockets are
one that closes, one that connects and one for the next attempt; an id is used again
when its socket is gone, so the number of attempts is not bounded. Three POSTs are
one for each action with a rule of its own; two Agora clients are one that leaves
and one that joins, two stops overlap. Runs are otherwise unbounded: any number of
switches, presses, polls and reconnects. *Server.* Two saves overlap, and the
server's start is a third run; bodies have no credentials, those of either account,
or an email alone that is completed with the login's password. What the files and
the login go through does not depend on the mowers, so that part has one. The part
for the live roster has one and two mowers, and five links: two of the roster being
built, two of the one before and one that is still held of the one before that; its
saves come one at a time, which is what `LiveIsSaved` is about, and without
credentials. The proofs need none of these bounds.

What the properties say, beyond their text in the modules:

- `NothingLost` relates socket, buffer and mower: at any moment of a session, what
  the client sent is what the mower got, then what is held, then what is unread.
  `LosslessInOrder` is its consequence for sessions that are over.
- `WritesOnOwnLink`, `OwnedLink`: BluFi numbers the frames of a link, so a client's
  frames on a link opened for another would be dropped by the mower.
- `AtMostOneStale`: clearing the queue on disconnect races with a callback that
  has decided to push; one notification can slip through, never two.
- `OneStale`: the price of sending outside the receive loop is one command, the
  one in the sender's hands, never a backlog.
- `StoppedMeansStopped`: the sender skips a stop only if the last command written
  was no move, whatever was cancelled or failed in between.
- `StopIsLast`, `DeadMan`: the stop after a disconnect comes, and comes last.
- `ConnectedHasWriter`, `DropIsReported`: what the status page shows is neither a
  connection that does not exist nor, for ever, one that has gone.
- `UpMeansServing`, `FollowsTheLink`: the flag the loop keeps is the truth about
  five parts that are started one by one, and no edge of the association is missed
  although it is only polled.
- `PauseEnds`, `ToldTheTruth`: of two tasks that pause and unpause at once, one is
  late; the flag and the driver's view of it must still agree with the count in the
  end, or the uplink is dead for good.
- `OneLiveSocket`, `NeverAbandoned`: the two ways a retry scheme fails, one socket too
  many and none at all.
- `StopIsOut`: whatever ends the motion (release, failsafe, hiding, a reconnect), the
  server's last frame on an open socket says so.
- `StopCutsBlades`, `TwoTapsOneMower`: over a network that reorders POSTs and a user
  who switches mowers in the middle.
- `LiveIsSaved`, `RosterHasItsAccount`: relate memory to disk, and the two files to
  each other, at every point where a crash or a failed write may fall.
- `HeldUntilSaved`: a login is not lost by the saves around it.

Some properties have an exception built in, for what the code really does; the
variable that carries it is named in the property: `cleared` (a task of the roster
before cleared the flag of a retry sequence that runs), `cut` (a save was cut short
between its two files), `overlapped` (two saves at once), `late` (a login during a
save), `own` (a save with credentials in its body since the login), `held` (a link
that a task which outlived its roster still has), `crossed` (a login, or a save of
other secrets, during a request that logs in), `lateStop` (a stop of the camera that
ends late), `stopped` (a STOP that found no blade command of its mower under way),
`begun = "failed"` (a softAP start that failed). `broken` is no exception: it says
that something came between the two taps, so that they must not start the blades.
Each exception is listed below under other behaviour.

## Fairness

Weak fairness, on the program's own tasks only. *Proxy:* the loop and host tasks
run (what blocks the loop task beyond 30 s is rebooted), time passes, a termination
asked for completes. *Joystick:* the event loop runs what can run; a yield is
bounded by `_CONTROL_YIELD_S`, and a `drain()` ends, because the HC33 reads again or
drops the client, or else with the TCP connection. *Reconnect:* likewise, and a
socket being closed is lost in the end, by TCP's retransmission limit if not
before; `wait_closed()` has no timeout of its own, so `CallersReturn` rests on
that. *Board:* the loop task runs, which the task watchdog enforces. Nothing is
assumed of browsers, clients, the mower, the radio, the association or the peer:
they may stop for good at any time.

The page and the server's onboarding are checked for safety only. `NeverAbandoned`
and `PollingGoesOn` say as invariants what a liveness property would be about: that
a timer is due or a request is under way that will arm it. That a due timer fires
is the browser's part.

## What the code does otherwise than it says

Each is a run that must find the property violated; PROJECT.json has the quotes.

1. `proxy_watchdog`: connect, rescan and second connect in one pass of `loop()` take
   35 s, 50 s with a first scan; main.cpp says that planned operations fit 30 s.
2. `proxy_short_write`: `send_frame_()` ignores what `write()` returns.
3. `reconnect_torn`: `_teardown_all()` does not cancel a retry sequence under way,
   which then connects the discarded transport and takes the HC33's only client
   slot from the new one.
4. `stop_reach`: `pending` is keyed by the action and not by the mower
   (app.js:1258). A STOP just after a switch of mowers finds the other mower's
   blades-off still pending and posts none to its own, where app.js:1209 says that
   an emergency control never stops accepting presses.

Other behaviour that the models have, and that no property forbids:

- *Proxy.* The idle clock restarts when a frame has been written to BLE, not when it
  has been received, so a client may be dropped that has just sent.
  `connect_mower()` returns true on a link that is being terminated and has no
  characteristics; no write of the new session can succeed, and only the link's
  end, which drops the client, gets it out. What a failed `connect_mower()` has
  delivered stays in the notification queue for the next client.
- *SoftAP.* A start that failed is not retried before the next edge, and may leave
  the AP on the air without an uplink. A new lease does not change the resolver
  that was offered to the mower.
- *Server.* The sender may send one command that a newer one in the mailbox has
  superseded (`OneStale` bounds it). The second to fourth probe of a round are sent
  even if the stick has been taken up since, and a tab that releases its stick lets
  probes in while another one drives. `disconnect()` resuming from `wait_closed()`
  clears a newer connection's references without closing its socket. A drop during
  `handle.start()` or while a flag suppresses the watchdog is never retried. A retry
  sequence that outlives its roster ends by clearing `auto_retrying`, which is kept
  by the mower's name (app.py:339), also if it is the next roster's sequence that
  has set it; the watchdog, which by its docstring (app.py:358-360) skips while one
  is running, then starts a second one at the next drop, and the two disconnect and
  connect one transport in turns. The final stop is sent once: `DeadMan` holds of a
  stop that the link refuses as well. A save that dies, or fails to write, between
  its two files leaves the earlier roster beside the newer credentials, until the
  next save; the order of the two writes excludes the reverse. Two saves that
  overlap may end in a RuntimeError or leave a transport of the older roster
  connected. A retry sequence, a command or the joystick's final stop that outlives
  the teardown (app.py:398, 3078) connects the discarded transport again and keeps
  it beside the new roster's. A login that comes during a save loses its credentials
  unsaved, and so does one after which a save brings credentials in its body: those
  are written (app.py:2910-2911), and the login's cleared all the same
  (app.py:2918-2920). A login that comes during a scan may leave the gateway of the
  account before it in the cache, and so may a save whose body has another account's
  credentials, while a request logs in with the old ones.
- *Page.* A blades-on POST that is delayed past STOP is carried out after it. The
  close of a superseded socket clears the guard timer, which may be its successor's
  (app.js:895-897): that connect then has no deadline of the page's and ends with
  the browser's own, against app.js:781. A `stopCamera()` that ends late enables
  Start while a camera is being started. A heading that arrives after
  `stopCompass()` is painted on the hidden compass. A poll that finds another in
  flight is dropped, and the one in flight arms the next. Readouts that only
  telemetry writes (battery, blades) keep the last mower's values after a switch
  until the next status answer.

## Proofs

Eight modules, all theorems of the form "every behaviour of the specification
satisfies ...", for instances of any size:

| module | theorems | for any |
|---|---|---|
| `TcpProxyProofs` | `TypeCorrect`, `LinkIsOwned`, `WritesStayOnOwnLink`, `NoByteIsLost`, `MowerGetsAPrefix` | clients, frames, limit, timeouts |
| `ProxyPipeProofs` | `NotesComeInOrder`, `OneNoteIsLeft`, `ProxyIsAPipe` | clients, notifications, frames, limit, timeouts |
| `BoardProofs` | `UplinkTypes`, `SoftApServes`, `NoApWithoutUplink`; `PoolTypes`, `PoolHolds`, `NoPauseForEver`, `LastWordIsTrue` | number of attempts; blocks, command blocks, tasks |
| `JoystickProofs` | `JoystickInvariant`, `JoystickTypes`, `GateIsRight`, `OneTaskWrites`, `AtMostOneIsLate`, `StoppedIsTrue`, `TheStopIsLast` | WebSockets, frames, probes |
| `ReconnectProofs` | `ReconnectInvariant`, `ReconnectTypes`, `ConnectedIsTrue`, `OneRetrySequence`, `OneCallerOpens`, `NeverOpensOver` | sequences, left-over tasks, sockets, attempts, reconnects, commands |
| `ServerProofs` | `OnboardTypes`, `RosterKnown`, `LoginIsHeld`, `LiveIsAlwaysSaved`; `SessionTypes`, `SessionsAlwaysAgree` | accounts, rosters, bodies, links, saves, scans |
| `BrowserLinkProofs` | `BrowserTypes`, `OneSocketLives`, `LinkIsMinded`, `NoMotionAtRest` | sockets, mowers |
| `PageProofs` | `ControlsTypes`, `EachAwaitedOnce`, `TapsMeetOneMower`, `StopCuts`; `CameraTypes`, `CameraFollows`, `NoneForgotten`; `ReadoutTypes`, `ChainsHold`, `NothingCrosses` | mowers, POSTs in flight; clients, stops |

With them every invariant and every action property that a passing run checks is
the statement of a theorem, and so is the refinement of `FramePipe`.

Each rests on the named assumption(s) of the modules it is about (`BleAssumption`,
`ProxyAssumption`, `UplinkAssumption`, `PoolAssumption`, `GateAssumption`,
`JoystickAssumption`, `TransportAssumption`, `ReconnectAssumption`,
`BrowserAssumption`, `ControlsAssumption`, `CameraAssumption`, `ReadoutAssumption`,
`OnboardAssumption`, `CloudAssumption`), which TLC evaluates in the runs. Most of them
say that a dummy value is none of the real ones, or that two tasks are not the
same; the others are named below. One theorem has a hypothesis of its own,
`DistinctNames` of `LiveIsAlwaysSaved`, explained with it.

### The proxy

`TcpProxyProofs` proves, for any clients, frames, length limit and timeouts, that
every behaviour of `TcpProxy!Spec` satisfies

- `TypeCorrect`: `TypeOK`, and with it that a frame never outgrows its buffer;
- `LinkIsOwned`, `WritesStayOnOwnLink`: `OwnedLink` and `WritesOnOwnLink`;
- `NoByteIsLost`, `MowerGetsAPrefix`: `NothingLost` and `LosslessInOrder`.

`BleAssumption` and `ProxyAssumption` say that the limit fits 16 bits, that payloads
are byte sequences whose length fits 16 bits, and that times are naturals; the
instance's bounds on bytes and notifications are left open.

The argument, in the order of the file:

1. *Wire format.* Two bytes and the number they stand for determine each other
   (`TwoBytes`, `HeaderLenType`), and a sequence can be cut anywhere (`SplitAt`).
2. *Types.* `TypeOK` alone is not inductive: when a client has been accepted, the
   actions index arrays with `client_`. `Serving` adds that polling and connecting
   happen only with a client, and that `silent` never runs ahead of `quiet`. One
   lemma per group of variables.
3. *Ownership.* `OwnedLink` is not inductive either: a link that is found closing by
   the next client was opened for the last one. `LinkInv` adds that such a link has
   no characteristic to write to, that `loop()` accepts only with no session
   open, and that while `connect_mower()` runs the link is its caller's.
   `WritesOnOwnLink` follows at the step that writes, which needs a characteristic.
4. *Bytes.* `ConnInv` says which connections may still have an effect: only the
   present client is active, the backlog holds the waiting ones once each, a socket
   that was stopped has nothing more to read. `ByteInv` then says that nothing has
   been read of a waiting client, that what was taken is the beginning of what was
   sent, that a frame about to be written is complete, and `NothingLost`. The
   work is in the reading and writing steps: a read moves bytes from `wire` to the
   held frame, a write moves the held frame to `taken`, and the concatenation
   stays the same.

### Notifications, and the frame pipe

`ProxyPipeProofs` goes on from the proxy's invariants, with `Outgoing`, the queue
followed by what the callback is about to push: a push does not change it.

- *`NotifyOrder`* is not inductive. `OrderInv` adds that `Outgoing` rises too, and
  that all of it is later than what any client already has; a note that the host
  task gets is the newest of all.
- *`AtMostOneStale`* is not inductive either: the notification that slips through
  may still be in the callback when the queue is cleared. `FewLeft` counts in
  `Outgoing`. That none can follow it takes `SessionInv`: the mower speaks only over
  a subscription, which goes with the characteristic, which only a link of the
  present session has.
- *`ProxyIsAPipe`*: the initial states map to initial states (`Pipe!Init`) and every
  step to a step of `FramePipe` or to a stutter, one lemma for each kind of step.
  Accepting is `Pipe`'s opening, the end of a session its closing, a client's bytes
  its sending. The work is in `PipeWrite`: that the frame written is the owner's
  next whole one follows from `ByteInv` (what the client sent is what was taken,
  then what is held, then what is unread) and `NextFrame`; that it is not over the
  limit from `FrameInv`, which holds for the frame from the moment its header has
  been read.

### The joystick, its gate and the lock

`JoystickInv` is one invariant for the gate, the lock and the stick, since each
leans on the others.

- *Gate.* `GateTellsTruth` counts the control sends in flight. `GateInv` has also that
  they are finitely many, without which a cardinality says nothing; each step
  adds one task to them, takes one away or leaves them.
- *Lock.* `LockInv`: the queue holds each waiting or writing task once, and the one
  that writes is at its head. A task that is cancelled leaves from any place
  (`RemoveFirst`), so the lemmas say what is left of a sequence without its k-th
  element. `RemoveFirst` is defined with a minimum, whose existence is an
  induction; `LeastElement` takes it from the library's theorem that `<` is
  well-founded on the naturals. `OneWriter` follows.
- *Stick.* For each WebSocket, `TasksInv` says which positions of the receive loop and
  of the sender go together; `StopInv` what the last command written is when either
  is in `drain()`, and that a sender with a move in its hands does not believe that
  nothing moves; `StaleInv` that the mailbox holds the newest frame, and
  that as long as an older command is unwritten none has been written late. `OneStale`,
  `StoppedMeansStopped` and `StopIsLast` each follow from it: in particular a
  sender is always cancelled before the final stop is sent, so that no move of it can
  join the queue behind that stop.

### The transport and what reconnects it

`ReconnectInv` is a conjunction besides the types of these parts. `ConnectLock` is
the lock as above. `NeverOver` says that whoever is in `open_connection()` found no
connection, and that none has come since. `Awaiting` and `Draining` type what a
caller waits for. `InStep` ties a task of app.py to its call of the transport;
`Building` says that nobody but the task that builds the link runs before it is
registered, and no more than that: commands and reconnects meet the first connect
and the teardown. `Retrying` says that, while the watchdog looks at it and unless a
left-over task has cleared it, `auto_retrying` is set from the first step of a
sequence to its last, so that this look is enough for `OneSequence`. The teardown
clears it too, but the watchdog is cancelled before. `disconnect()` takes no lock
and may clear a newer connection's references; `ConnectedHasWriter` stands all the
same, because the availability is set in the same step.

### The other modules

In each the invariant that is proved inductive is a conjunction of named parts,
one lemma shows that the initial states have it and one lemma per action or group
of actions that it is kept; the theorems follow from it.

- *Uplink.* `UplinkInv` adds to `UpMeansServing` what holds at each step of
  `soft_ap_begin()` (`StepsDone`: the steps before it have been done), that it runs
  only with the flag down (`BeginsWhenDown`), that `setup()` runs once
  (`SetUpOnce`), and what the loop knows when it is back (`LoopKnows`: an AP on
  the air with the flag down is one whose start failed).
- *TxPool.* `Ledger` says that the counter is the packets on the heap and the
  tasks that have added to it and not yet made or given back a packet, and that no
  command block is lost. Sets of tasks are counted, so the lemmas are about the
  cardinality of a set that one task joins or leaves. `PoolAssumption` is that
  two blocks are left when every task holds one; `NoPauseForEver` needs it, since a
  pause must leave a packet behind whose return ends it.
- *BrowserLink.* `LinkOK` strengthens `OneLiveSocket` by the handlers of the live
  socket, without which its failure would go unnoticed; `Minded` is what
  `NeverAbandoned` asks for, `Quiet` what `StopIsOut` asks for, each as an operator on
  the sockets, so that a teardown followed by a connect in one callback can be
  composed.
- *Controls.* `OneOrNone` has the one awaited POST of an action in place of the
  cardinality of `OneAwaited`; `OnlyOffs` says that after a STOP with nothing
  under way all blade POSTs to that mower turn the disc off, which is
  inductive where "the disc is at rest in the end" is not.
- *Camera.* `StartKnows` says what a start has made at each await and what it
  may find there; `OfferedAtRest` that Start is offered only with nothing running,
  unless a late stop did it; with them `HeldIsHere` and `NoClientForgotten` are
  inductive.
- *Readout.* `TicksAsk` (a poll that will arm the timer is one under way) makes
  `PollingGoesOn` inductive; `ShownIsThisMowers` is inductive over the types.
- *Onboarding and cloud.* `TakesTheLogins` says where a save that is about to write
  has its credentials from, `SecretsFirst` that a save at its roster has them on
  disk, and with them that a roster which is written never meets older ones;
  `OnDiskOrLate` that a save past its files has the login's on disk, or one of the
  exceptions of `HeldUntilSaved` has come; all of that whatever overlaps it.
  `ConnectsAMower` types a link that is being connected. `LiveIsSaved` is about the
  end of a save that is alone; `LiveInv` says what such a save, or the server's
  start, has done at each of its awaits: `AsListed` before the teardown; `InLoops`
  that no watchdog is left and that every link still connected is yet to be met by
  the loop over the transports, whose tables keep their size, or held; `Serves` is
  what one link owes to the table at any of these places, and it is what a left-over
  task, which may connect any link it holds at any moment, leaves alone; `InConnect`
  that the first mowers of the new roster, and no others, have their links.
  `LiveIsAlwaysSaved` assumes `DistinctNames`: the page sends one row for each mower
  of the account, by its name. onboard_save() (app.py:2886-2921) does not check
  that; of two rows with one name, the second would take the first one's place in
  the tables and leave its transport connected. In the cloud session `OneAccount` is
  about the locals of the requests: with no login crossing them they are all of one
  account.

## What is only model-checked, and what is not modelled

Model-checked only: the liveness properties (`SafetyStop`, `DeadLinkDropsClient`,
`DeadMan`, `ReleaseStops`, `DropIsReported`, `CallersReturn`, `FollowsTheLink`), since
fairness and ENABLED are beyond the prover. The four runs that must find a
violation are TLC's alone by their nature.

Left out of the models:

- *BLE.* Which advertiser a scan prefers; MTU and the inner BluFi fragments.
- *Time.* Writes to the client's socket take none, so a drain that blocks is not
  counted towards the watchdog; a hold, a tick or a delay of the server or the
  page may end at any moment, so nothing is said of how long things take.
- *Rate limiter.* `tcp_rate_limit.cpp` is not armed in this build
  (soft_ap.cpp:115-119), so no state of the program depends on it.
- *Server.* What `DeviceHandle` does inside `start()`, `stop()` and `send_raw()` is
  the library's: an await that may succeed or fail. `wait_for`'s own races, and
  cancellation of a handler by the server's shutdown. Settings, status and the
  diagnosis page are views of the library's state and single commands to it;
  network discovery and the parsing of credentials keep no state.
- *Joystick.* Frames that are no valid JSON end the handler as a disconnect does.
  The connection under the lock is not shared with `Reconnect`: a send connects, or
  fails, freely.
- *Page.* Layout, the map, the log, the diagnosis page, readouts that only
  telemetry writes, and the reaction time of a press.
- *Tools.* `wifi_over_proxy.py`, the HaLow scanner, the flasher, the installer and the
  add-on are one-shot programs; mDNS and discovery answer without state.

What share of the code this is. Of the repository's 74 implementation files the
largest are not this program: vendored headers and driver sources of the HaLow
overlay (`mmwlan.h`, `crypto_mbedtls_mm.c`, `mmosal*`, `mmipal*`, `mmhal*`,
`halow_config.h`) and a copy of lwIP's options are declarations, constants and glue
around a binary library, some 13 thousand of 21 thousand lines. Of the rest,
`app.py` is for the most part read-only formatting of telemetry and single
commands. The map covers the code that keeps state two tasks can disturb, and the
share of all lines stays low for that reason.

## Plan

Done: the proxy with its abstract pipe and its proofs; the joystick with the gate;
the transport with everything that connects it; the uplink and the TX pool; the
page's link, buttons, camera and readouts; onboarding and the cloud session; a proof of
every safety property that a run checks.

Left, in this order:

1. An abstract specification of the whole drive path, from the stick to the frames
   on the HC33's socket: `BrowserLink`, `Joystick` and `Hc33Transport` in one
   behaviour, with a zombie socket's late frames and final stop meeting the new
   one's.
2. The diagnosis page's lock and its trace, and the readback after a setting.
3. The rate limiter as operators with 32-bit wrap-around, if a build arms it.
