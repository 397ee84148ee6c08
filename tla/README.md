# A TLA+ verification of mission-control

mission-control shows, in a browser, the coding-agent sessions (Claude Code,
Codex, Gemini) that run on many machines. An *agent* on each machine discovers
sessions and reports them over a WebSocket to one *server*; the server keeps a
live index per tenant (*org*, "workspace"), stores history in SQLite or
Postgres, and streams a snapshot and diffs to *dashboards*. This directory
models the parts of that system whose correctness depends on interleavings,
lost messages, restarts and stale reads. TLC checks the models on small
instances; TLAPS proves the safety properties that the passing runs check for
every size (section 4).

Source paths below are relative to the repository's root.

## 1. Inventory

| Component | State it keeps | Operations | Hard behaviour |
|---|---|---|---|
| WebSocket hub (`internal/hub`) | `clients`, `agentsByID`, per-client `send` channel | register, unregister, broadcast to an org, send to one agent | a hub goroutine, two pumps per client and every handler share a lock and channels; slow readers; a reconnect overlaps the old connection |
| Live state manager (`internal/state`) | machines, sessions, recent events per org | upsert, remove, heartbeat, snapshot | changed under a lock, broadcast after it |
| WebSocket handlers (`internal/server/ws.go`, `agent_handler.go`) | none of their own | `handleWS`, `onAgentHello`, `onAgentMessage`, `onUnregister` | snapshot against registration; a late disconnect against a new connection |
| Agent runtime and connection (`internal/agent/runtime.go`, `wsclient.go`) | known sessions, the current connection | discover, heartbeat, dial, hello, send | messages are lost when there is no connection; loops send before the hello |
| Dashboard store (`apps/dashboard/src/store/live.ts`, `packages/shared/src/ws.ts`) | copy of the index | connect, apply a message, hydrate | replays a stream that may have a gap |
| Machine deletion and reassignment (`handlers.go`, `admin_handlers.go`, `internal/store/tenancy.go`) | rows, live index, keys | several store and memory steps per request | the agent goes on reporting between the steps |
| Enrollment and agent keys (`internal/server/enroll.go`, `internal/store/enrollment.go`, `server.go`, `middleware.go`) | tokens, keys, the key set in memory | create, revoke, consume, prune, reload | concurrent requests, isolation level, ignored errors, restarts |
| Blocked-session notifier (`blocked_notify.go`) | when a session was first seen blocked, whether it was notified | scan, reconcile, notify | one tracker for all orgs; time |
| Web push (`internal/push`, `internal/store/push.go`) | subscriptions | subscribe, delete, send | dead subscriptions are pruned while notifying |
| Users, roles, invites (`auth_handlers.go`, `admin_handlers.go`, `tenancy.go`, `internal/auth`) | users, invites, JWT claims | register, approve, reject, invite, change role, remove | claims outlive the role they state; several administrators |
| Terminal relay (`internal/server/terminal.go`, `internal/agent/terminal.go`) | PTY id -> dashboard; the agent's PTY table | open, input, resize, output, exit, close | ids are chosen by the browser; either side may vanish |
| Commands (`handlers.go`, `runtime.go`) | none | send, act, record | `SendToAgent` against unregistration; sent before it is recorded, never retried |
| Log and transcript tailing (`internal/provider/*/`, `runtime.go`) | file offset, channel, sequence number | backfill, poll, emit, forward | partial lines, truncation, a full channel, restarts of the stream, a page read while lines arrive |
| Session providers, tmux, git | what the host shows | list sessions, derive a status | reads of processes and files |
| Activity timeline (`internal/agent/events.go`, `internal/server/events.go`, `state`, `store`) | the agent's copy of each session, the ring, the rows, the list on the screen | diff, report, record, prune, seed, show | three unlocked steps per event in many goroutines; reports lost or sent on two connections; restarts |
| Published files (`files.go`) | rows with content | publish, list, download | the file and its event are two steps |
| Rest of the history (session rows, metrics), configuration, user interface | rows | single-statement reads and writes | none that another part depends on |

How they interact: an agent's message enters the server in the *read pump* of
its connection, which runs `onAgentMessage`: change the index (state lock),
save a row (error ignored), broadcast (hub read lock). A disconnect is handled
by the *hub goroutine*, which runs `onUnregister` and so broadcasts itself.
HTTP handlers run concurrently with both. Dashboards are fed from per-client
channels by *write pumps*.

What makes each part correct:

- hub: the route of a machine is its newest live connection; nobody sends on a
  closed channel; a client that stays connected misses nothing and sees only
  its org; dead connections are forgotten.
- index: lists a machine's sessions only while it is attached; converges to
  what runs on the machine.
- dashboards: once caught up, show the index, however they were seeded.
- logs: a stream keeps the order of its file and stores no line twice; what is
  whole reaches the server, which stores it unless the store refuses it, and the
  screen.
- timeline: in order, without duplicates, complete and backed by the database;
  a session's events form one chain; commands and files leave a trail.
- notifier: once per blocked episode, not early, and in the end.
- enrollment: a token mints one key; a machine is in one workspace; the keys
  accepted are those of the store.
- terminal: once nothing is under way, panel, router and PTY table agree; what
  the agent runs is in its table, where a close finds it.
- accounts: a workspace keeps an administrator; nobody gets in unapproved; an
  invite makes one account.

## 2. Modules

| Module | Models | Checked with |
|---|---|---|
| `Hub` | `internal/hub/hub.go`, `client.go`, the client-creating part of `handleWS` | `MCHub` |
| `OrgFeed` | the abstract specification of the hub | refined by `Hub` (`ImplementsFeed`) |
| `HubProof` | theorems about `Hub` | TLAPS |
| `LiveIndex` | agent -> server -> dashboard for one org, with deletion, REST hydration and restarts | `MCLiveIndex` |
| `LogStream` | a session's file -> tail -> agent -> server and store -> dashboard | `MCLogStream` |
| `Timeline` | activity events from poll, command or upload to ring, database and screen | `MCTimeline` |
| `BlockedNotify` | the notifier loop, its tracker, push subscriptions | `MCBlockedNotify` |
| `Enrollment` | tokens, keys, cache, deletion, reassignment, connections | `MCEnrollment` |
| `Terminal` | the terminal panel, the server's router and relay, the agent's PTY table and streams | `MCTerminal` |
| `Tenancy` | accounts, approval, roles, invites, start-up, claims | `MCTenancy` |
| `TenancyProof` | theorems about `Tenancy` | TLAPS |
| `EnrollmentProof` | theorems about `Enrollment` | TLAPS |
| `LiveIndexProof` | theorems about `LiveIndex` | TLAPS |
| `BlockedNotifyProof` | theorems about `BlockedNotify` | TLAPS |
| `TerminalProof` | theorems about `Terminal` | TLAPS |
| `TimelineProof` | theorems about `Timeline` | TLAPS |
| `LogStreamProof` | theorems about `LogStream` | TLAPS |

**Hub.** A section under `h.mu.Lock` is one action that needs no reader
(`HubRegister`, `HubUnregister`); a section under `h.mu.RLock` is a call in
progress that delivers client by client (`FanOut`, then `Deliver`), so readers
interleave. `SendToAgent` releases the lock before it sends, and so does the
model. `Register`'s unbuffered send, the lock and the two `go` statements are
separate steps. A panic in an HTTP goroutine is recovered by the router; in a
read pump or in the hub goroutine it ends the process (`Crashed`). Frames carry
their goroutine and a per-topic number, which is all that the properties tell
apart.

**OrgFeed.** Per org and role a lossless feed: a subscriber reads, per sending
goroutine, the messages after the one that was last when it subscribed, one by
one, until its subscription ends for good.

**LiveIndex.** `out[g]` is what goroutine `g` has changed in the index and not
yet broadcast: the window every handler has. A connection is a slot with a pipe
of messages; `Break` loses a suffix of them. The hub's own steps are `Hub`'s
business: here a broadcast reaches each registered dashboard in one step and a
full queue closes its connection. `ReadFleet` and `HydrateFleet` are the REST
answers a page load merges into the copy. `gap` and `raced` are history variables
that record the three races in which a dashboard's copy can differ from the
index. `plan`, chosen at the start, says what may happen in a behaviour
(`Plans`): faults, deletion, a dashboard, its hydration. A run names the
combinations it explores.

**LogStream.** One session. A line of its file is three units (first part, rest,
newline), so a reader can meet a line that is not finished and an offset can lie
inside one; offsets are computed as the code computes them. `reader` is the way
of the provider: Claude's scanner adds a newline to every line it returns, also
to one that has none yet (`ScannerEnd`); the readers of Codex and Gemini stop
after the last newline but ask for the size only after the backfill is sent
(`TailFilled`). The tail is a program counter (backfill, send, wait, `Stat`,
read, send), its channel bounded; the forwarder numbers the lines and sends them
on the current connection or loses them. A poll that misses the session cancels
the forwarder and the next one starts a new stream from number 1. The server
saves and broadcasts: the store may refuse the row, which nobody looks at and
nobody tries again, and the line is broadcast all the same (`ServerReads`). Rows
leave with the retention time (`Prune`) and with their machine
(`DeleteMachine`). The dashboard merges by number what it is sent and the page it
reads once. History variables name what was read by the server (`heard`) and the
exceptions: `torn` (a reader took an unterminated line), `skipped` (before the
backfill, or written while it was sent), `lost`, `gap`, `absent` (lines that
the store did not have when the page was read).

**Timeline.** An event is its place in the history `log`, which is its id and
its time. `Discover` compares what a poll sees with the agent's copy and reports
the difference; the copy advances whether or not the report can be sent. Every
goroutine that records an event (a read pump, the hub goroutine in
`onUnregister`, an HTTP handler) goes through `Steps`: save, ring, broadcast, with
anything in between. `SendCommand` and `Publish` create their events after the
command is on the connection and the file is saved. `ServerRestarts` seeds the
ring from the newest rows, of which any number may belong to other orgs. A report
that a loop sends on a new connection before the hello is there makes the server
close it (`AcceptFails`). The deletion of a machine removes its rows as `Prune`
does. Which attribute of a session changed is abstracted to its status: each is compared and
reported in the same way.

**BlockedNotify.** Time is the time since an instant, capped at the threshold,
because the code only asks whether the threshold has passed. `Tick` copies the
sessions, then each listed org is reconciled in any order with the one tracker,
while sessions change.

**Enrollment.** A request is a program counter over the store calls its handler
makes; others run in between. `mode` selects the deployment: whether requests
overlap, whether the store serialises transactions (SQLite) or runs them at
READ COMMITTED (Postgres's default), whether store calls may fail. The code
ignores most store errors and the model follows it. The save of a machine's row
by a hello, a heartbeat or a disconnect is one step with the read of the index
that precedes it.

**Terminal.** Four queues (dashboard to server and back, server to agent and
back), the read pumps in between as program counters, because `bind` and
`forwardToAgent`, `forwardToOrgAgents` and `release`, `BroadcastOrg` and
`release` are separate critical sections, and the agent's goroutine per stream
(`StreamEnds`, `StreamRemoves`, `StreamExits`). An id is of one of two kinds: a
PTY the agent starts and kills, or a capture of an existing tmux pane, which
never ends by itself and reports no exit. `overlap` is a history variable: an id
was used while an earlier use of it, or one by another dashboard, was not over.

**Tenancy.** `claims` is the set of tokens in use: what they say does not change
when the account does, and every handler decides by them. Handlers that make one
conditional statement are one step; `handleAcceptInvite` is three, and a start
may come in between. Three history variables name the exceptions that the code
really has: `outdated` (members changed with claims that were no longer true),
`torn` (an invite accepted twice at once, or whose mark was lost), `let_in` (who
was approved, invited or created at a start).

## 3. Runs

Passing runs:

| Run | Checks | What it shows |
|---|---|---|
| `hub_route` | `TypeOK`, `RouteIsNewest`, `FanOutIsSafe`, `DeadIsReaped` | two connections of one machine that overlap in every way: `agentsByID` follows the newest, a broadcast never meets a closed channel, a dead connection leaves the map and both its pumps end |
| `hub_stream` | `NoGap`, `NothingMissing`, `SnapshotFirst`, `ImplementsFeed` | a dashboard whose two-place buffer fills up while an HTTP goroutine and an agent's read pump broadcast to two orgs reads a contiguous stream of its org after its snapshot, or is cut off |
| `index_safety` | `TypeOK`, `ViewExact`, `NoOrphans` | with overlapping connections, lost messages, deletion and restarts, a machine without a connection is never listed online and lists no session; a caught-up dashboard shows the index unless one of three named races happened |
| `index_rebuild` | `IndexConverges` | the index converges to what runs on the machine |
| `logs_tail` | `TypeOK`, `StreamInOrder`, `NothingLost`, `EventuallyStored` | both kinds of reader, a file that grows in parts and is truncated, a channel and a connection that fill up, a stream that restarts, a store that refuses rows, retention and deletion: order within a stream, nothing whole lost on the way to the screen, everything read by the server in the end and stored unless refused or removed, with the exceptions below |
| `timeline_events` | `TypeOK`, `ShownOnce`, `ShownIsStored`, `ShownIsComplete`, `TimelineOrder`, `ChainIsWhole`, `AuditTrail` | four goroutines record events while connections overlap, processes restart, rows are pruned or refused and a dashboard reconnects |
| `notify_one_org` | `TypeOK`, `OncePerEpisode`, `NeverEarly`, `EventuallyTold` | one org with a session that never ends: once, not early, in the end |
| `enroll_keys` | `TypeOK`, `OneKeyPerToken`, `OneWorkspace`, `CacheCurrent` | enrollment, deletion, reassignment and restarts between any two steps |
| `terminal_relay` | `TypeOK`, `SettledAgrees`, `OwnsLivePtys` | two dashboards, one id, any number of uses, a failure anywhere: panel, router and PTY table agree when nothing is under way; what runs is in the table |
| `tenancy_roles` | `TypeOK`, `AdminRemains`, `NoAccessBeforeApproval`, `InviteOnce` | accounts come and go under tokens that stay: an administrator remains, nobody gets in unapproved, an invite makes one account |

Runs that refute what a comment or a document says:

| Run | Property | What happens |
|---|---|---|
| `hub_panic` | `NoPanic` | `SendToAgent` finds a client, the hub closes its channel, the send panics |
| `notify_two_orgs` | `EventuallyTold` | each org's `reconcile` erases the other's timers; a blocked session may never be notified |

Some properties hold only under a condition, and the condition is part of them;
without it TLC finds the race:

- `ViewExact`: a diff broadcast between `Snapshot` and `Register` reaches
  neither (`gap`); two goroutines that change one entry may broadcast in the
  other order, and a REST answer may be older than the diffs it overwrites
  (`raced`). Upserts are repaired by the next report; a removal lost so is not,
  until the dashboard reconnects.
- `StreamInOrder`, `NothingLost`, `EventuallyStored`: Claude's reader that meets
  an unfinished line sets its offset past the end of the file. The next tick
  takes that for a truncation and sends the whole file again, or, when the line
  has grown meanwhile, its text is cut in two and neither half renders. The
  comment says "complete newline-terminated lines" (`transcript.go:148`). Lines
  written while Codex's or Gemini's backfill waits for room in the channel are
  never sent. A dashboard that loses its connection does not read its page again.
- `NothingLost`: `onAgentMessage` ignores the error of `AppendLog`
  (`agent_handler.go:47`) and never tries again. Such a line is on the screens that
  were open and on no page that is read later; the same holds of rows that
  retention (`server.go:242`) or a deletion (`tenancy.go:65`) took away. The
  property excepts a line of which that was so when the page was read
  (`absent`), and no other: without that exception TLC violates it in each of the
  three cases.
- `EventuallyStored`: where the store keeps what it is given (`StoreKeeps`), every
  line is stored in the end; where rows may be refused or removed, every line is
  read by the server in the end.
- `StreamInOrder` is about one stream: two streams of a session use the same
  numbers, and rows and entries are told apart by number only.
- `ChainIsWhole`: a report sent without a connection is lost for good, and an
  agent that restarts reports its sessions as new.
- `ShownIsComplete`: an event broadcast between snapshot and registration reaches
  nobody. The ring is cut by the order in which events enter it, the list by the
  order in which they arrive, and the two differ: with a list hardly longer than
  the ring (two connections, `RingCap` = 1, `MaxShown` = 2) TLC finds an event
  that is in the ring and was cut off the list. With 200 and 500 it cannot happen
  unless more than 300 goroutines record at once (section 4).
- `NeverEarly`, `EventuallyTold`: `AllSessions` leaves out an org without
  sessions, so the timers of its last session survive it. `Pinned` keeps one
  session in the org.
- `OneKeyPerToken`: at READ COMMITTED two overlapping requests may both read
  the token as active.
- `OneWorkspace`: the check precedes the transaction, and an error of its query
  is taken for a machine that is not bound.
- `CacheCurrent`: of two overlapping reloads the older read may be stored last;
  a reload that fails leaves the old keys.

- `SettledAgrees`, `OwnsLivePtys`: the id of a tmux attach is made from the
  session's id (`TerminalTab.tsx`), and that of a PTY is in the page's address.
  Two dashboards on one session therefore share an id: the second attach hides
  the first capture, which goes on polling tmux, and the first close ends the
  other's stream. Reopening the page of a PTY lets the goroutine of the first
  PTY remove the entry of the second. After a restart of the server a panel goes
  on showing "live" although its id is bound to nobody.
- `AdminRemains`: two administrators who each hold a token can demote each
  other; the second does it with claims that are no longer true.
- `InviteOnce`: `CreateUser` and `AcceptInvite` are not one transaction. The
  unique index on the email stops a second account only while the first exists.

Three more things the models show, which no property states because the code
does not keep them:

- `onUnregister` of an old connection marks the machine offline and drops its
  sessions while its new connection is served, although `manager.go:96` says the
  flag "reports whether a machine is currently connected"; the next heartbeat
  and poll repair it (`index_rebuild`).
- A machine that is reassigned while its agent is connected goes on reporting to
  the old workspace, and its heartbeats write the old org back, although
  `admin_handlers.go:161` says that "the agent's next messages route to the new
  workspace".
- `bootstrapAdmin` says it makes an existing account "a platform superadmin and
  active" (`auth_handlers.go:21`); an account that is pending stays pending, and
  if it is the only platform administrator nobody can approve it.

A document that contradicts the code: `docs/SAAS.md:23` says that
`POST /api/auth/register` "creates a new org + owner (self-serve signup)", and line
12 that a user is "belonging to one org". `handleRegister` creates neither an org
nor a member of one: it saves a pending account without an org
(`auth_handlers.go:108`), as its comment and the repository's README
("admin-approved signups") say. `tenancy_roles` shows what follows from the
code: `NoAccessBeforeApproval`.

A row that was deleted may also come back: a hello or a heartbeat between the
deletion of the rows and the reload of the keys saves the machine's row again.

### Bounds

- `SendBuffer` (256 in the code) is 1 or 2 and `MaxSent` is 1 or 2 per
  goroutine and org: a full buffer, and a frame behind one that is waiting, both
  occur. Nothing in the code depends on the size, and the theorems are for any.
- `Conns`: two connections of one machine are the overlap of a reconnect. In
  `LiveIndex` slots are used again, so the number of reconnects is unbounded.
- `PipeCap` = 1: a message waits behind none, but any number pass in sequence;
  losing a suffix of the pipe is losing the message or not.
- `QueueCap` is 1 or 2: the slow dashboard is cut off in every run with one.
- `MCSafety` explores three plans: the agent with overlapping connections,
  network failures and deletion (restarts of the agent add no state to it); an
  open dashboard with restarts of agent, server and its own socket, one
  connection of the agent at a time; a dashboard that is seeded over REST.
  `MCRestart` of `index_rebuild` leaves out the
  network failure: with it the behaviour graph is too large for TLC's liveness
  check; an agent restart breaks a connection as well.
- `LogStream_tail.cfg`: every limit of the code is scaled down so that it is
  reached: backfill (200), channel (128), send buffer, page (2000) and
  the dashboard's list. Each plan combines the events that act on one another
  (a page with refused and pruned rows, a page with reconnection, network,
  truncation with deletion, agent restart with an older file, a missed poll). A page
  with network failures and deletion, and a page with truncation and an older
  file, were checked for safety as well. A cancelled forwarder sends at most what its channel
  holds: the tail behind it, which the code leaks, is not followed.
- `Timeline_events.cfg`: four events, two connections, one restart of the server,
  a ring of two; enough for a ring that overflows, two connections that report at
  once, and an event cut off at each of its three steps. The plans pair the
  causes that meet in the code. The list is as long as there are events, so the
  run never cuts it; the theorem covers that case, and one connection with a ring
  of one, a list of three and four or five events, which is `Room` with nothing to
  spare, was checked as well.
- `Threshold` = 2 and `MaxLag` = 2: a session is seen blocked before, at and
  after the threshold, and a scan may come late.
- `Reqs` is 3 requests: two that race and one that observes. `MCModes` leaves
  out the overlapping deployments in which only the type invariant is claimed.

- `Terminal_relay.cfg`: `Cap` = 1 message in flight per connection, one id, two
  streams, so that an old and a new stream of the id meet; `MaxFaults` = 1, and
  `MCBound` follows a behaviour until both a failure and an overlap happened,
  because each property exempts one of the two. One dashboard with `Cap` = 2 was
  checked as well.
- `Tenancy_roles.cfg`: three ids for two emails (an account is removed and comes
  back), two tokens in use at a time, one invite and two requests that accept
  it. The theorems are for any number.

### Fairness

`Hub`: weak fairness for every goroutine that can run, as the Go scheduler
gives; a read or write on a closed socket returns (the ping ticker writes every
`pingPeriod`). No handler must call, no peer must misbehave. `LiveIndex`: agents
dial, poll and send heartbeats from tickers; strong fairness, because a send
waits while the connection is busy and is tried again each period. Faults,
sessions and operators owe nothing. `BlockedNotify`: the loop runs for ever and
a push returns. `LogStream`: tails and forwarders run and
the server reads its connections, all weakly fair; neither another poll nor another
connection is assumed, the tool need not write, nobody need open a page. `Enrollment`, `Terminal`, `Tenancy` and `Timeline` are
checked for safety only.

## 4. Proofs

The theorems hold for every value of the constants that satisfies the named
assumption of the module (`TenancyAssumption`, `TimelineAssumption`, ...): any
number of connections, machines, requests, events, any size of buffer. Each
module proves an inductive invariant, one step per action, and derives the
properties from it. The invariants were checked with TLC before they were
proved.

| Module | Proved | Inductive invariant |
|---|---|---|
| `HubProof` | `TypeOK`, `RouteIsNewest`, `FanOutIsSafe`; `SnapshotFirst`, `NoGap`, `NothingMissing`, `ImplementsFeed` | `RoutingInv`; `FeedInv` |
| `TenancyProof` | `TypeOK`, `NoAccessBeforeApproval`, `AdminRemains`, `InviteOnce` | their conjunction, strengthened (`AccessInv`, `InviteInv`) |
| `EnrollmentProof` | `TypeOK`, `OneKeyPerToken`, `OneWorkspace`, `CacheCurrent` | `ShapeInv`, `OneRuns`, `TokenInv`, `WorkspaceInv`, `CacheInv` |
| `LiveIndexProof` | `TypeOK`, `NoOrphans`, `ViewExact` | `OutInv`, `OrphanInv`, `ViewInv` |
| `BlockedNotifyProof` | `TypeOK`, `OncePerEpisode`, `NeverEarly` | `MarkInv`, `TimeInv` |
| `TerminalProof` | `TypeOK`, `OwnsLivePtys`; `SettledAgrees` | `OwnInv`; `AgreeInv` |
| `TimelineProof` | `TypeOK`, `ShownOnce`, `ShownIsStored`, `TimelineOrder`, `ChainIsWhole`, `AuditTrail`; `ShownIsComplete` | `FeedInv`, `AuditInv`, `ChainInv`; `ShowInv` |
| `LogStreamProof` | `TypeOK`, `StreamInOrder`, `NothingLost` | `OrderInv`, `FileInv`, `ScreenInv` |

**Hub.** That `agentsByID[m]` is the newest client is not inductive. The
unregister of a connection would have to be known to concern a client of that
very machine (`RouteOwner`), and registering a connection must be known to happen
once, before anything closed its channel (`Lifecycle`: a connection at an early
stage is not a client, has an open channel and no pumps; a client has an open
channel; the connection the hub goroutine handles has been handed over).

`NoGap` and `NothingMissing` speak of what was written last; a step that writes
needs to know everything that waits. `StreamInv` says it: for every goroutine p
the channel of an open connection holds exactly the messages of p after the last
one written, up to some number, in order, and for a client that number is the
last one sent. `CallInv` says that a broadcast in progress addresses only
connections of its topic that have been handed over, `SnapshotInv` that the
snapshot is the first frame and the only one of its kind.

That the hub implements `OrgFeed` follows from the same invariant. A subscription
begins when the hub goroutine takes the connection, a publication is the step
that numbers a broadcast, a read is a write of the pump of a frame that the
broadcast put there; `FeedSubscribes`, `FeedReads` and `FeedEnds` map these, every
other action leaves the mapped state alone (`FeedStutters`).

**Tenancy.** `AccessInv` adds that every account that could log in, and every
account an unfinished acceptance has created, was let in: the token is issued
later, from the row. `InviteInv` says of every invite that is not torn that at
most one request works on it, that none of its accounts exists before that
request creates one, and that an invite that is open and untouched has made none:
without it nothing excludes that an open invite was already used. The parts need
each other: that an invite is for an org that exists follows from the claims that
create it, which is part of `NoAccessBeforeApproval`, and that in turn needs
`TypeOK`. The heart of `AdminRemains` is that whoever changes members with true
claims is an administrator of that org and not the one changed. `StartRows`
states once what a start does to the rows, for all its paths.

**Enrollment.** `TokenInv` adds that a transaction which is about to save found
its token without a key and, without overlap, still does; `WorkspaceInv` that
after the check every accepted key of the machine is of the request's org.
`OneRuns` is why: requests that do not overlap run one at a time. `CacheInv` says
that memory is behind the store only while the reload of a request that changed
the store is still to come, and that a copy that was read is current until it is
swapped in.

**LiveIndex.** `OrphanInv` adds the one moment that matters: between marking a
machine offline and clearing its sessions only another connection makes it
online again. `ViewInv` is what "caught up" looks like before it is: for a
dashboard that missed nothing, every entry is touched by a diff that is yet to be
broadcast, or is right already, or the last queued diff about it makes it right
(`ComesRight`); and every diff yet to be broadcast still holds, because what would
outdate it sets `raced`.

**BlockedNotify.** Two theorems have a hypothesis that the code imposes, and
the `.cfg` of the run has it too. `OnceCorrect` assumes that one org has all the sessions
(`OneOrg`): the tracker is shared and `reconcile` drops what is not of the org in
hand, which is what `notify_two_orgs` shows. `NeverEarlyCorrect` assumes that
some session never ends (`Pinned # {}`): a tick that finds no session reconciles
nothing and the timers of the last episode survive it. The number of orgs does
not matter there.

**Terminal.** That what runs is in the table is lost when an open finds the
entry of its id taken. So every open on its way must find the id free, and so
must the next one, where it may be sent: `FreeAt` says when the messages before it
make it so. It differs for the two kinds of id, because a captured pane ends with
its close while a process outlives it and then removes the entry. `Exclusive`
says that no two dashboards have one id in hand, except behind a bind that will
refuse.

`SettledAgrees` speaks of the moment when every queue is empty; `AgreeInv` says
what that moment becomes of, as long as nothing has failed and for ids whose uses
did not overlap. It never lists a queue: of the messages about an id it is enough
to know whether there are any, which kinds, and the first and the last
(`FirstIs`, `LastIs`, `SameWords`). The requests of a dashboard alternate and the
last one matches its panel (`PanelInv`); a binding has exactly one user, which is
a dashboard whose open was read and whose close was not (`UserInv`); the last
message to the agent is the last one that user sent (`SentInv`). Once the open has
arrived the agent has answered in one of four ways (`AnswerInv`): it runs, it
failed, it is ending, it has exited, and what the panel will have read last says
so (`Told`). A process that exits by itself leaves one message and one release
(`OverInv`), and one whose use is over has been killed (`LeftInv`). With the queues
empty `Told` is the panel itself and the four cases are the four ways in which the
parties agree. It needs `OwnInv`: that what runs is in the table is why a close
finds it.

**Timeline.** An event has one place: it waits on the connection it was reported
on, or the goroutine of that connection records it, or it is past (`WireInv`,
`PastInv`). The goroutine is part of the event, so the order on the wire becomes
the order in which that goroutine records, and what is already in the ring or was
broadcast is not newer (`NewestOfAll`). `OrderInv` carries this through the
dashboard's buffer: a snapshot is the first message or none, and messages that
follow continue what is shown. `ChainInv` needs the whole log and not only what
the database has: while nothing was lost each event starts where the one before
it left the session (`LeftAt`) and is stored, being recorded or waiting
(`Placed`).

For `ShownIsComplete` the question is what can push an event of the ring off the
list. Everything in front of it on the screen is newer in the ring as well, of
which there are fewer than `RingCap`, or is *late* (`Late`): it entered the ring
before the event and was broadcast after it. A late event was between its last
two steps when the event entered the ring, so its goroutine was in the middle of
`recordEvent`; a goroutine records one event at a time, so the late events of one
event are of distinct goroutines and of none that recorded the event itself
(`LateAt`). `FrontFits` counts both kinds, and `Room` is what remains as a
hypothesis of `CompleteCorrect`: `RingCap + Cardinality(Goroutines) <= MaxShown +
1`. The code has 200 and 500 (`manager.go:13`, `live.ts:43`), which leaves room
for 301 goroutines that record at once: the hub's, and one per connection or
request (the model has a single one for requests). `ListInv` follows each event of the ring
to the screen: it is in the list, in the snapshot on its way, or among the
messages behind them.

**LogStream.** A line goes one way: from the file into what the tail holds, into
the channel, onto a connection, to the server. What the server has read (`heard`)
only grows, while rows may never be saved, or leave. `OrderInv` says that these
places continue each other: what is sent or was read by the server is below what is in the channel, that
is below what the tail holds, and all of it is behind the place where the tail
reads next (`Behind`), which a line that is written or a truncation does not
change. A stream whose scanner took an unterminated line is excepted: its offset
is past the end of the file, so the next `Stat` may start it over. `FileInv` is the
other direction: while nothing has damaged stream 1, every line that its tail has
reached (`Reached`) is in one of the places or skipped, and the scanner's offset
is at the end of a line. `ScreenInv` follows what the server has read to the screen: it is
shown, in the page that was read, or waits for the dashboard, or the store did
not have it when the page was read, unless the dashboard has a gap. It needs that no row replaces another in a merge, which holds while only one
stream has run (`OneRow`), and that a page holds no more than the dashboard keeps
(`PageLimit <= MaxLogs`, 2000 and 5000 in the code).

Only model-checked is liveness (`DeadIsReaped`, `EventuallyTold`,
`IndexConverges`, `EventuallyStored`): TLAPS does not do `ENABLED` and fairness
here. Every invariant that a passing run checks is a theorem, under the
hypotheses named above.

## 5. Plan

Done: the hub and its feed, the live index with REST hydration, the notifier,
enrollment, the terminal, the accounts, the log streams, the timeline with
commands and published files, and the proofs of section 4. Next:

1. `SessionStatus`: how the providers derive a session's status from a
   transcript, as operators against a reference definition.

## 6. Not modelled

- How providers recognise processes and derive a status, and what tmux and git
  print: readings of the host. The models see any set of sessions and any status
  (`WorldChanges`, `Discover`).
- A tmux pane as the source of a session's log: it has no file and no offset.
- Metrics: samples that nothing decides by. Session rows: written, never read
  back by the server.
- The length of the agent's backoff, which `wsclient.go:73` lets grow to 32 s and
  never resets, because `connect` never returns without an error: a delay only.
- Clocks: in `Timeline` the clocks of agents and server agree; with skew the rows
  of two machines are ordered by what their clocks say.
- Other orgs in `Timeline`, except for the places they take in the seeding query.
- Acknowledgements and results of commands, which the server ignores and logs;
  whether a signal reaches the process the copy describes.
- The content of files, passwords, keystrokes and terminal output.
- Configuration, installation and the React views, which have no state of their
  own that another part depends on.
