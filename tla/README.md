# RemoteDog in TLA+

RemoteDog is a remote-access gateway: a Rust server (axum, SQLite) opens SSH,
local-terminal, RDP and VNC sessions on behalf of a browser, and a single page
(`frontend/app.js`) shows them in panes. This directory holds TLA+ models of
its parts, TLC configurations that check them on small instances, and proofs
(TLAPS) of their safety properties for instances of every size.

File names below are relative to the repository; `ssh.rs`, `rdp.rs` ... are in
`src/protocols/`, `server/mod.rs` and `db/mod.rs` in `src/`.

## Inventory

| Component | State | Operations | Talks to |
|---|---|---|---|
| Terminal gateways: `ssh.rs`, `local_pty.rs` | queue of 256 chunks, stop flag, mutex around the one libssh2 channel (SSH), child process (PTY) | set up; reader thread, sender task, main task; teardown | WebSocket, remote shell |
| RDP gateway: `rdp.rs` | event queue of 64, WebSocket queue of 512, cached frame, size last announced, stop flag | output loop (coalescing, tile diff, errors), writer, reader, teardown | IronRDP thread, WebSocket |
| VNC gateway: `vnc.rs` | RFB stream, queue of 512, stop flag | handshake, reader thread (rectangles, requests), sender, main (input), teardown | VNC server, WebSocket |
| Remote mouse and keyboard: `app.js`, `rdp.rs`, `vnc.rs` | button mask, last packet, throttle timer, focus; in the gateway the previous mask and position | canvas handlers, six-byte packets, mapping to RDP events or RFB messages | page, gateway, desktop |
| Panes: `app.js` | per pane: connection, socket, body, title, latency badge | connect, reconnect, clear, onopen, onclose | WebSockets |
| Accounts and tokens: `server/mod.rs`, `db/mod.rs`, `auth/mod.rs` | users table; claims inside tokens | login, create, update, delete, OIDC login and provisioning, seeding | database mutex, identity provider |
| Connection directory: `server/mod.rs`, `db/mod.rs` | connections table | create, update, delete | database mutex |
| Tunnel admission: `server/mod.rs`, `db/mod.rs` | none of its own; reads accounts, connections, permissions and groups | token, account, connection, permission list, dispatch | accounts, connections, gateways |
| Transfers and SFTP: `transfer/mod.rs`, `server/mod.rs`, `ssh.rs`, `app.js` | staging directory, remote files, the drawer's staged files and listing | upload, push to a host, list a directory | page, SFTP server |
| Groups, audit log, settings, status | single rows | single statements | database |

How they interact: `ws_tunnel_handler` admits a request, using the accounts and
the connection directory, and hands the WebSocket to one of the gateways. A
gateway splits the socket between its tasks, which share a stop flag and a
bounded queue. The page's pane owns the other end; its handlers outlive the
session they were made for. The file drawer belongs to the page, not to a pane:
it lists the host of whichever pane is active.

What is hard, and what makes a component correct:

* *Terminal gateways.* A blocking thread and async tasks share a channel, a
  flag and a queue; `abort` does not stop a thread that has begun, and a write
  to a shell that does not read blocks. Output must arrive complete and in order,
  the channel must never be used by two tasks, and everything must end after a
  hangup.
* *RDP gateway.* Frames are dropped (coalescing) and sent in part (tiles), so
  the cached frame has to be exactly what the canvas shows. Four parties can end
  the session in any order.
* *VNC gateway.* The stream is a byte stream without resynchronisation, updates
  come only when asked for, and a CopyRect is right only on top of exactly the
  rectangles before it.
* *Mouse and keyboard.* The page throttles and sees only what happens over the
  canvas and with the focus; RDP takes changes, so a lost one stays.
* *Panes.* `close()` is asynchronous: the end of one session is reported when
  the next is already displayed.
* *Accounts and connections.* The database mutex is held per statement.
  Handlers read a row, edit a copy and write it back, and overlap.
* *Tunnel admission.* Three reads, between which the account, the connection and
  the permissions change; deleted rows take permissions with them.
* *Transfers.* Uploads, pushes and listings overlap, fail half way, and outlive
  the page that asked for them; a push cuts the remote file off before it writes.

## Modules

| Module | Models | Read it for |
|---|---|---|
| `Pipe` | abstract specification of a terminal tunnel: numbered chunks, each received once, in order, and all of them while the pipe is up | what a tunnel promises |
| `TerminalTunnel`, `TerminalTunnelProofs` | `handle_ssh_session` and `handle_local_pty_session`; `kind` says which | three tasks with program counters; `PipeRefined` maps it to `Pipe` |
| `Display` | abstract specification of a remote desktop session: pictures of the desktop, shown in order and never mixed, of which some may be skipped and parts may be blank after a resize | what an RDP session promises its user |
| `RdpFrames` | `process_and_send_frame` and the canvas, as operators | tile diff, batches, full frames |
| `RdpSession` (extends `RdpFrames`), `MCRdp`, `RdpSessionProofs` | `handle_rdp_session`: client, output loop, writer, reader, browser | how a session ends, coalescing, the cache; `DisplayRefined` maps it to `Display` |
| `VncSession`, `VncSessionProofs` | `handle_vnc_session` and an RFB server that answers requests | picture path and teardown |
| `RemoteInput`, `MCInput`, `RemoteInputProofs` | canvas handlers, packets, `map_mouse_events`, the input branches of both gateways | input path |
| `Pane`, `PaneProofs` | `connectToTarget`, `disconnectPane`, socket handlers | stale onclose |
| `Roster` | abstract specification of the accounts: ids, roles given, enabled flag, claims, deletion | what the accounts promise to the rest |
| `Accounts`, `MCAccounts`, `AccountsProofs` | users table and its handlers, split at each database call; `RosterRefined` maps it to `Roster` | overlapping requests |
| `Connections` | connections table and its handlers | upsert, COALESCE |
| `Admission` (extends `Connections`, composes `Roster`), `MCAdmission`, `AdmissionProofs` | `ws_tunnel_handler`, `list_connections_for_user`, permissions and groups | changes between the reads of one request |
| `Transfers`, `MCTransfers`, `TransfersProofs` | uploads, staging directory, SFTP pushes and listings, file drawer | requests cut off and answered out of order |

A task is a program counter (`rd`, `snd`, `mn`, `lp`, ...) whose values are the
places where it may be suspended: each await, lock, blocking read or send, and
each store to a flag that another task reads. An action is what the code does
from one such place to the next. The three "tasks" of a terminal session are
the threads and futures the handler spawns plus the handler itself.

In `Accounts`, `Connections`, `Admission` and `Transfers` a request is a record:
`pc` says which database call, block or answer comes next, the other fields are
what the handler has in its hand (`row` is the copy it will write back).
Requests that are one statement, or whose checks do not depend on the table
staying as it is, are one action. A restart loses all requests.

Some variables and fields are history, which nothing but properties looks at:
`read` (the row as it was read) and `granted` in `Accounts`; `gave` and `read` in
`Connections` (the secret a save was given, and the one it read); `ever` and
`always` in `Admission` (whether the connection was there and the right to it held
at some, and at every, moment of the request); `alone`, `settled` and `promised` in
`Transfers`; `stale` in `RdpSession` (the canvas was erased, the cached frame kept);
in `RemoteInput` the fields of `history`, of which `beside` also says which buttons
the user holds that he pressed where the page does not look.

How the accounts are composed: `Admission` does not repeat the handlers of
`Accounts` but takes every step `Roster` allows, which is more than the handlers
do. `Accounts` implements `Roster` (checked by the run `Accounts`, proved by
`AccountsAreARoster`), so what holds of `Admission` holds with the real handlers
in `Roster`'s place.

Operators whose comment says `mutant` are plausible bugs (a dropped guard, a
forgotten reset, an unbounded queue); no specification uses them. Putting one in
the place of the definition it varies makes the property named for it in
`PROJECT.json` fail, which shows that the property depends on that code.

### What is abstracted

* Chunks and packets are numbered or are sets of coloured cells; their bytes
  are not modelled. A VNC rectangle is the set of cells it paints.
* Colours are two values, tiles two pixels, screens up to six pixels in the
  runs; the proofs have no such limits. Tile and batch arithmetic (number of
  tiles, narrow edge tiles, 40% rule) is kept.
* Between a terminal's gateway and its shell there is room for a number of
  keystrokes (`InRoom`) and of chunks (`OutRoom`), for the bytes that the PTY's
  buffers or the SSH windows hold. A write that does not fit waits, on either side:
  the handler in its `write_all`, with the mutex in SSH, the shell in its own. It
  ends when there is room, when the transport breaks, and in a PTY also when the
  shell ends. A change of the window (`request_pty_size`, `resize`) always returns.
* `flush` is part of the write. A write is whole: what a broken transport took of it
  is not told apart from nothing.
* Input to a VNC server does not block: the pointer, key and refresh branches of
  its main task (`vnc.rs:411-491`) write under the mutex `stream_write`, which the
  reader's update request takes too, and `VncSession` leaves them out, as it does
  the wait of that request. This assumes that the server goes on reading. One that
  stops reading while it sends nothing would keep both tasks waiting for it.
* Coordinates are points; clamping to the desktop and `view_only` are left out.
  The events of one pointer packet are one change of the desktop, since they all
  carry the packet's position and concern different buttons.
* The client thread of IronRDP and the RFB server are environments: they emit
  what their protocol allows. A client that has been asked to close does so.
* Setup (DNS, TCP, TLS, authentication, handshakes) is one step that may fail.
* Terminal resizes, pings and clipboard text in a terminal are messages that
  take the same path as keystrokes. The VNC clipboard messages and the VNC
  `refresh` message, which the page never sends, are left out.
* Passwords, signatures and expiry of tokens are left out: a token in `tokens`
  is one the gateway accepts.
* `connection_permissions` and `user_groups` are only read by the program, so
  their rows come from outside (`GrantsChange`) and go with what they refer to
  (`ON DELETE CASCADE`). Of the permission columns, the list sets `can_connect`
  on every row; the others are only displayed and are left out.
* A block of a file says which file it is of. Subdirectories of a host,
  downloads of staged files (one read), and `sftp_download_file` and
  `delete_staged_file`, which nothing calls, are left out.

## Runs

Capacities are one or two, so queues do get full, and every counter of the
environment is bounded by a constant named in the module (`MaxOut`, `MaxIn`,
`MaxFrames`, `MaxOthers`, `MaxPings`, `MaxChanges`, `MaxWire`, `MaxTurns`,
`MaxSockets`, `MaxGrants`, `MaxLists`). `Accounts` and `Admission` have a
constraint `FewTokens` in their MC modules: at most two tokens and three roles
given (in `Admission`, roles and memberships together), no step after a
tunnel request has been answered, and no secret in any row while one is under way:
its three reads look at none.

| Run | Instance | Question |
|---|---|---|
| `Tunnel` | both kinds, queue of 1, room for 1 keystroke and 1 chunk before and behind the shell, 2 chunks, 2 messages and a close | Does output arrive in order and complete, is the channel used exclusively, is the flag cleared before an end of the queue is dropped, do the tasks end after a hangup if the shell reads, in which ways can they and the shell wait for each other, is it a `Pipe`, and is every keystroke of a PTY session written? |
| `TunnelKeystroke` | SSH, 1 chunk, 1 message | Is a keystroke written while the shell is silent? No, see below. |
| `RdpFrames` | 3 frames of 4 pictures in 3 sizes, two of which (5 x 1 and 1 x 5) have the same number of pixels, 1 other event, queues of 1; the browser may leave and the session end at any point | Is the cached frame what the canvas shows, but for what a resize left black? Is the last frame shown? Is the session a `Display`? |
| `RdpSession` | 2 frames, 1 other event, 1 ping | Do the tasks ever wait for each other alone? Does every session end and release the RDP connection, and is an error queued for the browser? |
| `Vnc` | 2 cells, 2 colours, queue of 1, every first screen, 1 change of it, one update answering several requests | Is the picture in step, is an update always asked for, is the stream read in step, does the last picture arrive, do all tasks end, do tasks and server ever wait for each other alone? |
| `Input` | 2 positions and outside, 2 buttons, pressed over the canvas or beside it, 1 extended key, 2 packets under way, 1 turn of the wheel, both protocols | Do buttons, pointer, wheel and keys of the desktop follow the user's? |
| `InputKeysym` | VNC, one key | Is the keysym right? No. |
| `Pane` | 2 connections, 4 sessions | Is no session leaked, shown after its end, or hidden by anything but a late close? |
| `PaneReconnect` | the same | Is a running session always on the screen? No. |
| `Accounts` | 3 accounts, 2 names, 2 roles, 1 subject, 2 requests at a time, one update of each kind | Is it a `Roster`? Do subjects, the disabled state and names stay what somebody entitled made them? |
| `Admission` | 2 users, 2 roles, 1 group, 1 connection, 2 secrets, 1 permission, 1 update and 1 tunnel request under way | Is a tunnel request answered by what held during it? Does sight of a connection come and go only with the right to it? Do list and handlers agree? Does the creator survive saves, and does the secret become nothing but what was given or read? |
| `Transfers` | 2 hosts, an empty file and one of two blocks with the same name, 1 upload, 2 pushes, 2 listings | Is what the drawer offers staged whole? Does a completed push leave exactly the file? Is it in the newest listing? |

Why these bounds are enough: a queue of one shows both a full and an empty
queue; with two chunks one can be in hand and one queued, so that loss, order
and repetition differ; two messages are a keystroke that fits and one that waits
for the shell, and a close behind them is a hangup the handler does not see; three
frames are a cached one, a changed one and one that coalescing drops, or, after a
resize that keeps the number of pixels, one of the old shape, one sent in part and
one sent whole; pings, which show nothing, are left out of `RdpFrames` only to keep it small, and
are in its proofs; two
requests at a time are needed for an overlap, and no property mentions more than
two. In `Admission` the tunnel request overlaps an update, and an update
overlaps creations, which save at once: with two secrets, an update that read the
one may find the other in the row. Updates that overlap each other are left to the
proofs, which have any number. Four sessions of a
pane give an open one, two that are closing and one to come. A second push to
the same name is longer or shorter than the first; a listing may be answered
before or after a newer one. `CHECK_DEADLOCK FALSE` is set where a session that
is over, or a user who stops, leaves nothing to do. The names of the run
`Accounts` do not differ only in case; `Fold` is there for instances in which
they do.

`SYMMETRY` is used for ids, request slots and interchangeable values, in runs
that have no liveness property.

### Fairness

Weak fairness of each task: the tokio runtime and the operating system go on
running what can run. `SndDrop` has fairness of its own, because an aborted
future is dropped at its next await and not only when it has nothing else to do.
Start-up either succeeds or fails. Nothing is assumed of users, shells, desktops
and networks, which may stay silent for ever, with two exceptions: an RDP client
that was asked to close ends its connection (`ClientCloses`), and a VNC server
answers a request when it has something to answer (`ServerAnswers`, RFB's
contract). Mutexes are taken under weak fairness only: parking_lot promises
eventual fairness, but no property relies on it.

Nor is it assumed that a shell reads its input. Where that matters it is a
hypothesis of the property, `ShellKeepsReading` (time and again there is room for a
keystroke): of `HangupEndsTasks` and `KeystrokeWritten`, and, for SSH sessions, of
the fairness half of `PipeRefined`.

## What the runs show

Everything in the passing runs holds. `RestIsIdle` of `Tunnel` is as much a finding
as a promise: the tasks of a terminal session never wait for each other alone, but it
names the ways in which they wait together with a shell that does not read (the first
two of the disagreements below). The three violation runs are disagreements
between code and its own documentation:

* `TunnelKeystroke`: in an SSH session the blocking reader holds the channel
  mutex while it waits for output, so a keystroke waits until the shell says
  something by itself. `PtyKeystrokeWritten` shows that PTY sessions, with a
  writer of their own, do not have this.
* `PaneReconnect`: the `onclose` of the old socket replaces the body of the new
  session. `OnlyLateCloseHides` says that nothing else does.
* `InputKeysym`: the page sends scancode, flag and character where the gateway
  reads an RFB keysym.

### Other disagreements met

Seen while modelling, and part of the models' behaviour; the properties are
stated so as to say what does hold.

* The handler of an SSH session writes with the channel mutex held (`ssh.rs:206`).
  If the shell waits for its own output to be read, and therefore does not read, the
  write waits for the shell, the shell for the reader, and the reader for the mutex
  (`ssh.rs:166`). Nobody in the session can end this, a hangup neither, since the
  handler does not see it. `RestIsIdle` allows this wait in SSH only, and no other as
  long as the reader lives.
* In a PTY session a shell that reads nothing keeps the handler in `write_all`
  (`local_pty.rs:126`, `146`, `159`) once the PTY's buffer is full: it reads no
  Close and does not get to `child.kill()` (`local_pty.rs:168`). So does a shell
  whose output nobody reads any more, since sender and reader have ended with the
  connection to the browser.
  `HangupEndsTasks` is therefore about shells that read.
* "First frame or size changed: send full frame and cache" (`rdp.rs:516`) is tested
  by number of pixels (`rdp.rs:515`): a desktop turned from 5 x 1 to 1 x 5 is
  compared with the cache of the old shape, while the page erases its canvas. What
  counts as unchanged is not sent and stays black, until a frame is sent whole.
  `CacheIsShown`, `LatestFrameShown` and `Display` say exactly this: such parts may
  be missing, but nothing else is shown in their place.
* An error of the RDP client is queued for the browser, after which the handler
  clears the flag the writer looks at (`rdp.rs:371`, `733`) and aborts the writer
  (`rdp.rs:736`): the browser may never be told. `ErrorQueued` says that it is
  queued, and no property that it arrives.
* A pointer event queued behind the last RDP frame replaces it while draining
  (`rdp.rs:661`), against CHANGELOG.md:22. `LatestFrameShown` is therefore about
  clients that emit only frames.
* When a local shell exits, the main task keeps waiting for the browser
  (`local_pty.rs:123`), and the browser is told nothing, against CHANGELOG.md:67.
  `HangupEndsTasks` starts from the hangup.
* A profile save that read its row before an administrator changed it writes all
  its columns back (`server/mod.rs:553`): what was changed in between is lost, a
  disabled account is enabled again, an old role comes back. No property denies
  it; `RosterRefined`, `OnlyAdminsEnable` and `OnlyOthersRename` allow a handler to
  bring back what it read, and nothing that nobody gave.
* "When disabled, the account is immediately rejected" (CHANGELOG.md:102), but
  requests go by the claims of the token, and `api_update_user` does not look at
  `is_active` (`server/mod.rs:483`, `536-543`): an administrator who was disabled
  and still has a token can enable himself, and goes on changing others.
  `OnlyAdminsEnable` therefore speaks of claims.
* The OIDC callback looks for no `is_active` either (`server/mod.rs:305-363`) and
  gives a disabled account a token, against the same line; `api_login` does look. A
  tunnel is refused all the same (`UserRead`). Which tokens a disabled account may
  have is no property's subject.
* A row of the directory that an update has read carries the secret it had
  (`server/mod.rs:801-868`), which COALESCE (`db/mod.rs:738`) takes for one that was
  given: an update without a secret brings an old one back over a newer one.
  `SecretFollows` allows this, and nothing else.
* A POST with the id of a connection that is there saves over it (`server/mod.rs:713`,
  `db/mod.rs:732-747`), and nobody asks whose it is: an operator can replace the
  data and secret of another's connection ("isolated to the creator's workspace",
  ROADMAP.md:56), and takes a shared one from those it was shared with
  (`server/mod.rs:746`). `OwnerKept` says that it stays the creator's, and
  `RightsFollow` counts a connection that is no longer shared as a right taken,
  whoever took it.
* An update that read a connection before it was deleted inserts it again
  (`server/mod.rs:868`), since saving is an upsert. Its permissions do not come
  back (`RightsFollow`), but it does, as a new connection whose creator is the old
  one. For accounts, where it is an UPDATE, nothing comes back
  (`RosterRefined`, `DeletedForGood`).
* A tunnel is admitted on a connection row that was read before the permission
  (`server/mod.rs:1297`): connection and right need not have been there together,
  and `AnswerWithinRequest` says only that each was there during the request.
  Nothing takes a running session from a user whose right has gone.
* A permission's `can_edit` is displayed, but an update by anybody but the
  creator or an administrator is refused (`server/mod.rs:819`). `ShownIsTrue`
  states the direction that holds.
* A push's listing is asked for the pane that is active by then
  (`app.js:1602`), and a listing that was asked for earlier may overwrite a newer
  one (`app.js:1546`). `ReportedIsListed` is about the listing asked for last.
* Two pushes to the same name that overlap (`ssh.rs:298`) can leave a mixture of
  both files, and each is reported as a success. `CompletedIsCopied` is about a push
  that was alone on its target, after whatever others had left there.
* A failed push leaves the part it wrote on the remote host, and a failed upload
  of several files leaves those already staged, of which the page never learns.
  Nothing empties the staging directory: `auto_cleanup_hours` and
  `max_upload_size_mb` are read from the configuration (`config/mod.rs:43`) and
  not enforced.
* A button let go beside the canvas stays down on the desktop (`app.js:1261`,
  against CHANGELOG.md:29), and a key let go without the focus does (`app.js:1313`).
  `ButtonsFollow` and `KeysFollow` name exactly these. `KeysFollow` is about RDP: a
  VNC session is sent the character, so that a key pressed with shift and let go
  without it would stay down, and its keysyms are wrong anyway (`KeysymsAreRight`).
* A character without scancode is sent to RDP on keydown and again on keyup
  (`rdp.rs:447`), which the comment at `rdp.rs:254` says types it twice.

## Proofs

All proofs are for every value of the constants, under the named assumptions of
the modules (`TunnelAssumption`, `TileAssumption`, `SessionAssumption`,
`VncAssumption`, `InputAssumption`, `PaneAssumption`, `AccountsAssumption`,
`ConnectionsAssumption`, `AdmissionAssumption`, `TransfersAssumption`), which say
what kind of values the constants are. The theorems about frames
(`CacheShown`, `LastShown`, `SessionIsADisplay`, `ShowsWholeFrames`,
`ShowsSharpFrames`) have one hypothesis more, stated with them: `ExactScreens`, a
frame has as many pixels as its size says. Every invariant and every action property
of the runs is proved, and so are the three refinements, the fairness of `Pipe`
apart. Types and the bounds of the queues (`TypeOK`) are proved for every module; the
runs check them where they say something about references between tables.

*Terminal tunnel.* `TypeCorrect` is inductive. `StopFlag` strengthens
`EndsAfterStop` by where each task can be while the flag is set: the handler's
abort cancels the sender only from a place after it has cleared the flag, which
`EndsAfterStop` alone does not say. `LockInv` says that the mutex is held exactly
where its holder uses the channel; from it follow `ChannelExclusive` and
`LockHeldOnlyInUse`. `FlowInv` describes the path from shell to browser position
by position: what the browser has is 1, 2, ..., the sender's chunk and the queue
continue the count, and the reader's chunk is the last one read. It is needed
because `NothingLost` speaks of a concatenation, which says nothing about its
parts; the lemma `CountOn` puts the parts together again. `TunnelIsAPipe` uses it
to show that each step is a step of `Pipe` or leaves it alone (`PipeSafe`).

*Rest and progress.* The three gateways have the same two theorems. `RestsIdle`
says what can be the case when no task has anything to do (`AtRest`): nobody waits
for another task alone, and what does wait waits for the desktop, shell or browser
that the property names. In a terminal session a handler in its write is at rest as
long as nothing is read from what it wrote (`Accepts`), and so the theorem says also
with whom the mutex is then, and that a shell that waits for its output to be read
waits in vain only in SSH, or when the reader has ended (`ShellStuck`). `AtRest` is
written out as the guards of the tasks (`ReaderReady`, ...), which `StepsAreReady`
ties to the actions: a task that steps was ready. Its invariant `RestInv` follows each flag and each end of a queue from
the place where it is set to those who wait for it: a reader that is gone has left
its queue to the sender, a handler that is past its abort has no sender, a page's
close is the last message of its inbox. `EveryStepCounts` says that each step of a
task uses up a number (`Rank`) that only the outside can raise, so that tasks left
alone come to rest after that many steps at most. The number counts, for each
task, the places left on its way, and for each chunk, event or message not yet
handled the steps it still costs. In VNC it is a pair compared in order, what
the server may still answer (`Left`) and what of its answers is not yet read, since
an answer may be of any length. Together they are the safety half of the liveness
properties: these add only that tasks which can run do.

*Messages that arrive one after the other.* Three properties are about what will
be when everything on its way has arrived: `CacheIsShown`, `PictureInStep` and
those of `RemoteInput`. The models compute that with a recursive function
(`After`). The proofs use instead that there is a sequence of states from the
present one to the last (`Film`, `Leads`): a message sent adds one at its end
(`LeadsOn`), a message taken removes its first (`LeadsFrom`). `FilmIs` shows
that this is the same thing; it compares the two sequences at the smallest place
where they differ (`Smallest`), which takes the place of induction.

*RDP.* The arithmetic is proved first: a pixel has one index (`IndexOne`), is in
exactly the tile the code computes for it (`TileCovers`), and a tile, the narrow
ones at the edges too, lies on the screen (`TileInside`). `ProcessIsExact` follows:
whatever is sent for a frame (nothing, a batch, the whole) turns a canvas that shows the
cache into one that shows the frame; `ResizeIsExact` says the same of the first
frame of another number of pixels. `Typed` has the types and the bounds of both
queues. `PrevInv` says that the cache has as many pixels as the size last announced,
except between the announcement and its frame. With it `CacheInv` is inductive: the
canvas leads to a picture that agrees with the cache, cell by cell, or, while
`stale`, is black where it does not. `stale` begins when the canvas is erased and the
cache is kept, and ends with the next frame sent whole; a batch in between makes the
picture agree where it paints and leaves the rest as it was. `LastInv` follows the
last frame from the queue into the loop's hand and into the cache.

*RDP as a Display.* `Due` is the sequence of what each message and event under way
will show: of the messages before the browser the pictures of the film
(`OnTheWay`), then of the event in the loop's hand (`InHand`), then of those queued
(`Waiting`); `{}` stands for what shows nothing. `SessionDisplays` goes through
all steps. The client adds a picture (`Paint`); the browser takes the first
(`Show`); the loop drops the one in its hand for the next, inserts a blank before a
frame of another size or finds a frame equal to the cache (`Skip`); and when it
sends a batch of tiles the sequence is the same as before, because what the batch
makes of the picture before it is the whole frame, or, while `stale`, that frame with
parts still black (`Fade`). This last step needs `CacheInv`,
and everything else how the three parts of the sequence grow and shrink
(`PicturesOn`, `PicturesFrom`, `WaitingGrows`, `WaitingShrinks`, `SkipIs`).
`SessionIsADisplay` follows, and from it, by an argument about `Display` alone,
`ShowsWholeFrames` (no canvas is a mixture of two frames) and, for sessions in which
`stale` is never set, `ShowsSharpFrames` (the canvas is a whole frame or blank).

*VNC.* `FlagInv` says where each task can be once the stop flag is cleared; from
it follows that the rest of an update stays unread only where the queue is closed
(`NeverOutOfStep`). `PictureInv` has two layers: within an update the canvas and
the packets lead to the picture after it (`Leads`), and the updates still in the
stream lead on from there to what the server believes (`Runs`).

*Mouse and keyboard.* `Inv` says of the page that its mask is what the user pressed
over the canvas and holds and what of that was let go unseen (a button pressed beside
it never gets there), and that what it sent last carries that mask; and of
the state in the end (`Ends`) that it is what was sent last. `Ends` also has the
gateway's previous mask, because RDP takes changes: `PointerOnTop` shows that a
packet on top of it brings the desktop to the packet's own state, and that the one
packet that makes no event (`Silent`) is the second of a turn of the wheel.

*Panes.* `Inv` says that sockets are opened in turn, and that what the body shows
as running is the pane's own socket. `OneSession`, `EndedCleared` and
`HiddenOnlyByLateClose` follow.

*Accounts.* The invariant says of the table that its roles were granted and its
subjects are unique, of each request that the row in its hand has a role that was
granted to its account, and of each token the same. The second part is needed
because a request writes its copy back at any later time. `UpdateKeepsTable` and
`InsertKeepsTable` are the two statements all handlers use. `RolesGranted`,
`OneAccount` (the UNIQUE constraint decides the race) and `DeletedForGood` follow.
`StepRefines` uses the same invariant to show that each handler's step is one of
`Roster` (`InsertEnrolls`, `UpdatePuts`, `Gives`) or leaves it alone, which gives
`AccountsAreARoster`. `AllAccounted` says of every request in flight that the name
and the enabled flag in its hand differ from what it read only where an
administrator asked for it; an UPDATE writes what is in the hand, so
`EnabledByAdmins` and `RenamedByOthers` follow for the step that writes.

*Connections and admission.* The invariant of `Connections` is that the table and
the rows in hand are typed, and that a row in hand carries the secret that was given
with it or else the one that was read (`Carried`); one lemma (`Step`) shows that a
save replaces one row, keeps its creator, and explains its secret (`Explained`), from
which the two action properties follow.
`AdmStep` shows that the whole drives the directory only by steps of `Connections`
(so `AdmSpec` implies `Connections`' `Spec`, and the two properties hold in the
whole as well), and that `AdmInv` is kept: permissions refer to what exists, the
roster is in order, and what a tunnel request has noted (`Watched`) is about the
whole time since its first read. `AnswerFits` compares each answer with the notes;
`StepFollows` goes through the steps of all parties for `RightsFollow`.

*Transfers.* The invariant has three layers, each proved on top of the one before:
`StagedInv` (uploads only add to the staging directory, and only whole files are
offered or pushed), `RemoteInv` (a push that is alone on its target has written
exactly the first blocks of its file, and a settled target is what it should be),
and `DrawerInv` (the newest listing was read after everything reported for its host).

### Only model-checked

Every liveness property and the fairness half of `PipeRefined`, which are beyond
the prover: `HangupEndsTasks`, `PtyKeystrokeWritten`, `SessionEnds`,
`ErrorQueued`, `LastPictureShown`, `HangupAndEofEndTasks`. That `AtRest` names
exactly the states in which no task is enabled is half proved: `ENABLED` is
beyond the prover too, so `StepsAreReady` says that only ready tasks step. The
other half was compared with `ENABLED` in TLC on the instances of the runs.

## Not modelled

* Groups, audit log, settings and status are single statements without state
  beyond the row; what a membership lets a user see is in `Admission`.
* The OIDC code exchange is HTTP whose result is an input of `OidcRead`.
* Configuration is read once; seeding is in `Restart` of `Accounts`.
* The rest of the page (login form, connection manager, clipboard drawer, users
  dialog, terminal rendering, layout) displays what the API answers.
* Blocking a runtime worker on the channel mutex (`ssh.rs:206`) is a question of
  how many workers there are, which the models do not count.
* What passes through the tables of keysyms (`rdp.rs:133`) is data that no property
  tells apart.

## What is left

1. `VncSession` as a `Display`: its updates are sets of rectangles, so the canvas
   does show mixtures within one; only whole updates would map.
2. Runs for names that differ only in case, and for a second key.
3. Terminal resizes that change the shell's window, the VNC clipboard, and VNC
   input that waits for a server that does not read.
4. A model of the runtime's worker threads, for the blocking lock of SSH sessions.
