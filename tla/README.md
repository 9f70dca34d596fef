# A verification project for element-agent

`src/element-agent` lets people on a Matrix server mention agents that run on
other people's machines. A server process is an application service of the
homeserver (Synapse); a daemon on every client machine keeps a websocket to it,
runs a command for every mention of one of its agents, and sends back what the
command wrote. This directory holds TLA+ models of the parts where something can
go wrong in an order that nobody has written a test for (the repository has no
tests), the TLC configurations that check them on small instances, and theorems
about them that TLAPS checks for every value of the constants.

## The system

    Synapse --transactions--> server --job frames--> daemon --runs--> command
    Synapse <--replies, notices-- server <--result frames-- daemon <--.result--
    client init/register/deregister --HTTP--> server          command --curl--> daemon (loopback)
    client register/deregister --reload--> daemon             daemon --context_request--> server

| Component | Source | State | Operations | What makes it correct |
|---|---|---|---|---|
| Hub | `server/hub.go`, `clientapi.go`, `dispatch.go` | route of every agent, open jobs with their owner, a queue and a closed flag for every connection | hello, dispatch in three steps, result, context request, drop, the two pumps | a mention gets one answer at most, from the machine it went to, and never besides a notice; routes lead to connections that are alive; no dispatch blocks for ever |
| Name registry | `server/clientapi.go`, `state.go`; `daemon/store.go`, `cmd/client/*` | records in memory, `state.json` and its temporary file, the claim in every machine's `agent.json` | reserve, register, deregister, release, save, load, crash | who was given a name keeps it until it is released, also through crashes and failed saves |
| Appservice endpoint | `server/appservice.go`, `server.go` | cache of the last 1024 transaction ids | take up, acknowledge as duplicate, decode, handle, finish, restart | a mention is dispatched once, and the homeserver's queue does not stop |
| Context paging | `daemon/loopback.go`, `daemon.go`; `server/dispatch.go`, `matrix/rooms.go` | cursor of every job's token, the waiter of every job, requests and answers on their way | call, answer, time out, release | an agent that walks back leaves no message out |
| Daemon | `daemon/daemon.go` | session, two pumps, a lane for every agent, the queue of outgoing frames | connect, break, write, enqueue, run, refuse, reload, stop | an agent runs one job at a time and in turn, each job has one result, and the daemon can be stopped |
| Job execution | `daemon/exec.go` | `.result`, the child's process group and pipes | remove, start, kill, wait, read | an answer is that of the job's own command, and every run ends |
| Agent directory and reload | `daemon/store.go`, `daemon.go`, `server/clientapi.go` | `agent.json` files, the daemon's copy of them, hellos in queues and on the wire | save, list, reload, hello, connect, reconnect | claims are not lost, and routes end up at the machine that holds the name |
| Reconciler | `server/reconcile.go`, `matrix/admin.go` | room memberships, the offset of a listing | a pass over spaces and rooms, after a reservation and by a timer | every agent is in every room in the end, and in no direct message |
| Splitting and posting | `matrix/chunk.go`, `server/dispatch.go` | `Chunk`'s local variables for each answer, the chunks that are left | split line by line, search, cut, gather, send | the splitting ends, every event fits, and what the room has of an answer is its beginning, in order |
| HTTP client, authentication, command line, configuration | the rest | none of interest | | |

The components meet as follows. A transaction's handler (Appservice) calls
`dispatch` (Hub) for every mention of an agent that is serving (Registry) and
waits for it. A hello is accepted agent by agent by comparing claims (Registry)
and moves routes (Hub). The daemon's frames are the Hub's inputs, and the other
way round. Context requests pass through all of them: a running command calls the
loopback, the loopback asks the daemon, the daemon the server, the server the
homeserver.

What is hard in it: hub state is read under a lock and used after the lock is
released; results, takeovers and disconnections race; both processes have
bounded queues, one that blocks its senders (server) and one that drops frames
(daemon); names are looked up and taken in two steps with a request to the
homeserver between them; the state file is saved while requests go on and the
process may die at any point; the homeserver retries what it believes was lost;
answers to context requests arrive after the call that asked for them has given
up. `PROJECT.json` lists all of these at their lines under `hazards`.

## Modules

| Module | What it is |
|---|---|
| `Hub` | the server's hub and the goroutines around it; states its properties |
| `JobLedger` | what the server promises about one mention; `Hub` implements it under the mapping `fate` |
| `HubProof` | theorems about `Hub` |
| `Registry`, `RegistryProof` | who holds a name; theorems about it |
| `Appservice`, `AppserviceProof` | transactions and the cache of their ids; theorems about it |
| `Paging`, `PagingProof` | an agent's walk through the history before its mention; theorems about it |
| `Daemon`, `DaemonProof` | session, lanes and outgoing queue on a client machine; theorems about it |
| `Runner` | one agent's directory, commands and processes |
| `Directory`, `DirectoryProof` | claims on their way from the server to disk, to the daemon and back as routes; theorems about them |
| `Reconcile`, `ReconcileProof` | the passes that join agents to rooms; theorems about them |
| `Chunk` | how an answer is split: the steps of the loops, as operators |
| `ReplyStream` | what a room is shown of answers: a growing beginning of each |
| `Posting` | answers that are split by `Chunk` and posted event by event; implements `ReplyStream` |
| `AnswerProof` | theorems about `Runner`, which reads an answer, and about `Posting`, which shows it |
| `MCHub`, `MCRegistry`, `MCAppservice`, `MCPaging`, `MCDaemon`, `MCRunner`, `MCDirectory`, `MCReconcile`, `MCPosting` | instances for TLC: constant values and symmetry sets |

What one module takes from another is a property of that one. `Runner` executes one job
after another because `Daemon` has `OneAtATime`. `Appservice` dispatches a mention in one
step because `Hub` has `PushReturns`. `Hub` accepts any set of names from a hello, and
`Directory` says which ones. `Directory` has a reservation and a release in one step on
the server, and `Registry` has the steps.

Conventions. An action carries the name of the function it models; a function that
takes several atomic steps is several actions, and the comment over each says
which step it is. A critical section is one action. The variables under "history"
in a module record what has happened for the properties to talk about; no action
reads them. An operator whose comment begins with "Slip:" is not part of the
specification: it is the operator after it with a plausible mistake, and TLC finds
the corresponding property violated when it takes its place (`mutants` in
`PROJECT.json`), so that every property is known to depend on the code it is about.

### Hub

`route`, `table`, `served` and `send` are `hub.agents`, `hub.jobs`, `conn.agents`
and the channel `conn.send`. A dispatch is a program counter over `connFor`,
`addJob` and `push`, with `takeJob` after a failed push. `push` is a select over a
queue and a closed channel: `Queued` and `Rejected` are its branches, both are
enabled when a closed connection's queue has room, and it blocks when an open
connection's queue is full. The read pump is either reading or pushing its refusal.
Frames that nobody could have sent (a result for a job that its sender has never
been given) are left out; results on another connection than the job's, and of jobs
that are gone, change nothing and so are steps that stutter. A frame that cannot be encoded
is lost, and `writePump` goes on: `WriteFrame` may drop what it has taken. Which claims of a hello
are accepted is any set: `Registry` is about that. An `onResult`, an `onOrphan` and
a notice count as the message they lead to; whether the homeserver accepts it
is not modelled. `fate` maps exactly what has been posted about a job to `JobLedger`: a combination that
`JobLedger` does not know is mapped to `"muddled"`, which it can never reach.

### Registry

A request is a program counter over look-up, account, change, and the three steps
of `save` under the lock (`Locked`), for a release twice. `Crash` may come between any
two of them. A client's command is one request; the reply may be lost. `agent.json`
is `store`, and `Scaffold` replaces it in one step. Claims are minted from a finite
set, which bounds the number of reservations, and the slots in `Calls` bound how many
requests are under way at once.

### Appservice

The homeserver (external) sends transactions in order, one attempt at a time, may
give an attempt up while it goes on being handled, and repeats it until it is
acknowledged. An attempt that was given up may arrive late, but not by more than
`Lag` transactions: that twice `Lag` is less than the size of the cache is what
`OncePerLifetime` rests on, and with 1024 ids it is a safe assumption. Dispatching a
mention is one step here; that it ends is `Hub`'s `PushReturns`.

### Paging

One job and one room: cursors are keyed by the job's token and waiters by its id, so
jobs do not meet. A call reads the cursor, registers its channel in place of any
other, and waits; `deliver` gives an answer to whichever call is registered.
The homeserver's batches (external) may be shorter than the limit, or empty, and at the
beginning of the room it may or may not give a token for another one. A message that was redacted
has no text (`Blank`).

### Daemon

`out` is the queue shared by all senders, `pump` and `link` are the current session.
The model has no two write pumps at once: a pump whose session is over notices it
before it waits again, and the daemon waits at least a second (`minBackoff`) before
it connects again. A write that fails leaves the link `failing`: the socket cannot be
written to, so that no ping gets out and the read deadline of the session, which only pongs extend, ends it
within a minute. A frame that cannot be encoded ends the pump, and with it the pings, and is the same step
(`WriteFails`). `lanes` is the key set of `Daemon.queues`. Frames are handled until the connection is down, also while the
daemon is stopping.

### Runner

One agent, whose jobs come one after another. `cur`, `pc` and `status` are the worker's
progress through `execute` and `Run`; `file` is `.result` and `answer` what `os.ReadFile`
returned. `procs` are the processes of all commands: each may fork, leave the process
group (`setsid`), redirect its output, write `.result` at any time and in parts, or end.
`Cancel` is the kill of the group by `cmd.Cancel`; `Reap` is the point after which it
comes too late. `Wait` returns with success only when the pipes are closed, and without it
at the end of `WaitDelay`, at any time in the model. `Crash` leaves the processes alive.
That a command that exits with success has written its file whole is an assumption about
the agents (external). Of what is written only the writer is kept, and whether it is
blank, a part, or whole.

### Directory

`record` has the claims of the server, `file` those on disk, `copy` is `Daemon.agents`, `out` the
hellos in `Daemon.out`, `wire` those on a connection, and `route` is `hub.agents`. A command
is a program counter from its request or its look at `agent.json`, over the write of the file
(`BeginSave` empties it, `EndSave` fills it), the request to the server, and the daemon's reload with
its listing, storing, making and queueing of a hello, to the end. `LookUp` and `ServeLooked` are the two
halves of `onHello`; looking up the claims of one hello is one step. A connection is numbered when
it is made, and the server may go on reading an old one. Reading a directory with several files is one
step. The variables `mishap` and `late` name what the properties except: an `init` that was
interrupted or whose reply was lost, two commands about one name on one machine, two reloads at once,
a hello that was dropped, one of an old connection that was read after the new one's (all `mishap`), and a
name that was released between the look-up of its claim and its service (`late`).

### Reconcile

A pass lists the rooms (`Page`, by offset into a list that changes meanwhile), joins each agent
to each space and looks up its rooms (`Enter`), and joins it to them one at a time (`Join`). Every call may fail;
`Fault` bounds how often. An `Enter` that fails half way has joined the space or not. `Change`
is everybody else: rooms and names come and go. The order in which spaces and rooms come is left open.
Kicks and people leaving are not modelled, and neither is the paging of `Hierarchy`, which is
by a token of the homeserver's: it is one step. Several passes after reservations, and the timer's, run at once.

### Chunk and Posting

A body is a sequence of characters. What rendering does matters only as the size of an event, `Size`, a
parameter that need not grow with the body. `Chunk` and `longestFitting` are loops over local variables, and so is the
model: the record `Locals` has the variables, `Chunk` has what each step does to them (`takeLine`, `search`, `probe`,
`cut`, `gather`), and `Posting` has an action for each step and the place in the loops (`at`). The bounds of the
characters that `longestFitting` computes are the positions in the sequence. `Posting` has one goroutine for each
answer, as `onResult` has; an event that fails may have been posted all the same, and ends the goroutine. `shown` is what
the room has seen of an answer: it is changed where an event is added to `room`, and read by no guard.

## Runs

| Run | Bounds | Shows |
|---|---|---|
| `hub` | 2 agents, 2 connections, 2 jobs, queues of 1, symmetry | types and queue bound, `RouteIsLive`, `OneAnswerOrAbandonment`, `AnswerFromOwner`, and that `Hub` implements `JobLedger` (`LedgerSpec`) |
| `hub_live` | 1 agent, 1 connection, 2 jobs, queue of 1 | `PushReturns`, `LostJobSettles` |
| `hub_silent` | 1 of each | a job that is lost without a notice |
| `registry` | 2 machines, 2 names, 2 claims, 2 calls, symmetry | `GrantIsDurable`, `ReleasedStaysReleased`, `HolderKeepsNameInSequence` |
| `registry_held` | 1 name | two overlapping reservations that both succeed |
| `appservice` | 4 transactions, the first with 2 mentions, a cache of 3, 3 requests, 2 restarts, 2 failed attempts | `OncePerLifetime`, `AcknowledgedIsHandled`, `QueueDrains` |
| `paging` | 3 events, one of them redacted, batches of 2, 4 calls, 2 at a time, symmetry | `NothingSkipped`, `WalkInOrder`, `EndIsHonest` |
| `daemon` | 2 agents, 3 jobs, all queues of 1, 2 sessions | `OneAtATime`, `InTurn`, `Accounted`, `PostsWhatItCan`, `Stops` |
| `runner` | 2 jobs, 3 processes alive at a time | `OwnAnswer`, `KilledGroupIsGone`, `RunEnds` |
| `directory` | 1 name, 2 machines, 3 commands, 2 at a time, 2 claims, 2 connections, a queue of 1 hello | `ClaimIsKept`, `NoStealing`, `Converges` |
| `reconcile` | space `s1` with a channel and the space `s2`, and a direct message; 1 name, the timer's pass and another, pages of 2, 2 changes, 2 failures | `OneFailureSparesTheRest`, `NoDirectMessages`, `AllJoined` |
| `posting` | every body of up to 4 characters of 4 kinds for one answer, 2 bodies for another, budget 6 | `EventsFit`, that `Posting` implements `ReplyStream` (`StreamSpec`), `LoopsEnd` |

Why the bounds are enough to be interesting: two connections are a takeover or a
reconnection with a late disconnection of the old one; two jobs compete for a queue of
one, so pushes block; two claims are a release and a second reservation, or two
reservations that overlap; four transactions overflow a cache of three; with two calls
of which the waiters replace each other there are always two more to read what came of
it. Three processes are a command, one that it left behind, and one of the run before. Three commands are
a reservation, a release and a second reservation, or a reservation and two commands whose reloads
overlap. Four rooms on pages of two shift across the page boundary when one comes or goes. Budget 6
cuts a line of three narrow characters and any wide one, and a body of four has three lines at most, of which
one may render to nothing. Connections, transactions, jobs, commands and calls are used up in
a finite model, so it may come to rest: those runs have `CHECK_DEADLOCK FALSE`. `Registry` and `Runner`
never come to rest, and their runs check for deadlock.

The violation runs are disagreements between the code and its documentation, listed with both lines
under `findings` in `PROJECT.json`. For each a passing run shows what does hold: `LostJobSettles` for jobs that
were entered before their connection was dropped, and `HolderKeepsNameInSequence` for commands that do not overlap.

Some properties except a case in which the code does not do what one would wish. The exception is in each
a named variable or condition of the model, as narrow as it can be, and `hazards` says where it leaves
a hazard without a property:

- `OncePerLifetime`: a restart between the handling of a transaction and its acknowledgement repeats every mention in it, and
  docs/04-element-agent.md:291 speaks of one duplicate at most.
- `AcknowledgedIsHandled`: an id is remembered before its body is read, so that the retry of a body that was cut off
  is taken for a duplicate; and the handler of an attempt that was given up is cut short by a restart after its retry has been
  acknowledged as a duplicate (both `spoiled`).
- `WalkInOrder`: after a call has timed out its late answer is given to the next call, and one of the next may return the same batch
  again (`hurried`), where docs/04-element-agent.md:282 says that each call returns the batch before the last one.
- `EndIsHonest`: a batch of messages none of which has text, such as redacted ones, is taken for the beginning of the room (`hollow`).
- `PostsWhatItCan`: a result is dropped when the queue of outgoing frames is full (`spilled`). Its job then stays open at the server
  as long as the connection is up, which is why `Hub` promises an end only to the jobs of a connection that is closed.
- `ClaimIsKept`: an `init` whose reply is lost, or that is interrupted before the claim is on disk, leaves a name that
  nobody can serve or release; so may two commands about one name on one machine (`mishap`).
- `NoStealing`: a release leaves `hub.agents` as it is, so that until its new holder has said hello, the mentions of a name may go to the
  machine that gave it up, where docs/04-element-agent.md:248 says that it cannot be served from there (`heard`).
- `NoStealing`, `Converges`: a name that is released after a hello's claims were looked up and before
  they are served goes to the machine that gave it up, until the next hello of the new holder (`late`).
- `Converges`: after two reloads at once, a dropped hello, or a hello that is read late on an old connection, the
  daemon's agents stay without a route until it says hello again (`mishap`). A running daemon does not learn of a name
  that `init` reserves, only of one that is registered, turned off or released.

A job can get two notices, when its connection is dropped between `addJob` and a push that
fails: the room is told that the client disconnected, and `dispatch.go:54` does not look at what `takeJob`
returns before it says that it went offline. `JobLedger` has this as a step of its own, `RefuseLost`, so that `LedgerSpec` allows
the two in this order and nothing else besides.

### Fairness

`Hub`: goroutines that can run do. Pushes are strongly fair, since the Go runtime serves
senders that wait on a channel in the order in which they came, and the end of a closed
socket's read pump is too. Nothing else is assumed: clients need
not connect, connections need not end, hellos need not come, and neither need results, since a daemon
drops them when its queue is full. `Appservice`: the homeserver
goes on retrying, attempts it gave up are lost in the end, and handlers get on, by
`PushReturns`. `Daemon`: goroutines run, a job ends by its time limit, a frame that can be
written is written or fails to be, and a socket that cannot be written to is noticed.
`Runner`: the worker gets on, the time limit runs out and so does `WaitDelay`; nothing is assumed of the
processes. `Directory`: a daemon connects, writes its queue and notices the end of its connection, and the
server reads what has come, and notices the same; both are loops without conditions in the code. No command need
come or end. `Reconcile`: the timer ticks and a pass gets on, since every call has a time limit;
the failures are bounded, which is to say that the homeserver works in the end. `Posting`
has no fairness: that its loops end is an action property (`LoopsEnd`), which says that each step leaves less to do.

## Proofs

`HubProof` proves every safety property of `Hub`, and that it implements `JobLedger`, for
any sets of agents, connections and jobs and any queue capacity, from `HubAssumption`
alone. The properties are not inductive by themselves. The invariant `IInv` adds, for each
job, what its program counter says about the rest (`JobInv`: before it is entered it is in
no table, no queue and nobody's hands; once entered its owner is a connection; when it is
in the table the entry is its owner; a refused job has never been queued), and for each
queue that its job frames belong to jobs whose dispatch has queued them (`FrameInv`). That
is what makes "a refused job is never answered" hold: an answer needs a client that has
received the frame, and a frame that was queued is never the one that was rejected. The
refinement maps every action to a step of `JobLedger` or to a stutter: a result to
`Answer`, a drop to `AbandonAll` of the jobs it takes, a failed hand-over to `Refuse`, or to `RefuseLost`
if drop was faster. No behaviour reaches `"muddled"`: in whatever order results, drops and failed hand-overs come, a job is
answered alone or has each notice once.

`RegistryProof` proves the safety properties of `Registry` for any sets of machines, names
and claims, and any number of concurrent calls. Its invariant relates the claims of
requests, of machines, of memory and of the file: a claim is minted once, so two records,
two machines or a machine and an unfinished reservation never have the same one; what the
file has and memory has not is under way to being saved, or a save has failed; and as long
as no two commands for a name have overlapped, a command's view of the record is still true
when it changes it (`SequenceInv`). `TypeOK` says besides that `State.mu` has one holder, on which the order of
the steps of `save` rests.

`PagingProof` proves the safety properties of `Paging` for a conversation of any length, any
limit and any number of calls, also at the same time. The core of its invariant is `TokenInv`:
whatever token is in use anywhere, be it the cursor, a call's copy of it, a request or an answer
on its way or in a channel, the agent has already read every event up to it (`Seen`). An answer
can therefore be late, repeated or another call's, and the batch it brings still starts where
the agent has been. `Served` says what an answer may be: without a token it reaches the beginning of the room or has no text. `EndInv` draws
the conclusion for `exhausted`, and `OrderInv` follows a call that is
on its own from the cursor to its answer. `NoneAssumption` says that "nothing" is not a frame.

`DaemonProof` proves the safety properties of `Daemon` for any agents, jobs, queue depths and
number of sessions. Three parts carry it: a lane has no worker and no running job or exactly one
worker, and none unless it is in `lanes` (`WorkerInv`), no job is twice in a queue (`TwinInv`), and the places where a job can be
exclude each other (`PlaceInv`); `OnePlace` then counts the places.

`AppserviceProof` proves the safety properties of `Appservice` for any number of transactions and
requests, and any cache with `2 * Lag < Limit`. `CacheInv` says that the list has the ids of the
set, each once, in the order in which the homeserver sent them, but for at most `Lag`. What has been handled since
the last start is either still remembered or so old that no attempt at it can come (`Kept`): when the list is full,
it has `Limit` different ids, all but the last `Lag` of which are behind the first one by what `Lag` allows, so that by the pigeonhole
principle the homeserver is more than `Lag` beyond the one that is forgotten. `AckInv` says that whatever is
remembered, or is about to be acknowledged, is safe: each of its mentions was dispatched, is still to be by a handler, or the transaction is
spoiled. A handler has dispatched what it has passed (`PassedInv`), so that a mention stays safe while handlers go on and end, and a
restart, which forgets the handlers and the cache, spoils the transactions that had been acknowledged while they were handled (`SafeLasts`).

`AnswerProof` proves the safety properties of `Runner` for any number of jobs and processes. `AliveInv` says which processes
may be alive while a job is executed: its own, and those that were alive when `.result` was removed for it. So the file has
been written by one of them (`FileInv`), and once the command has reported success, what it wrote is whole until another process
writes. `KilledInv` says that no process of a killed group can be made, since only its members could fork one.

`DirectoryProof` proves the safety properties of `Directory` for any machines and names, and any number of commands,
reservations and connections. The properties compare what is at one end with what is at the other, so the invariant has to follow a
claim along the whole way. `Good` says what a machine can ever have as its claim on a name: nothing, or a claim that was
minted for this machine and is recorded for no other name. The files, the daemons' copies and queues, what is on the wire and has
been looked up, and what a command carries are all good for their machine (`DiskInv`, `DaemonInv`, `WireInv`, `CommandInv`), and stay so
when names are released and reserved again (`GoodGrows`). That a claim is served by its holder then needs only that what was looked up
has not been released since (`LookedInv`). For `ClaimIsKept` the invariant adds that a claim which is not saved yet is nowhere
else (`GrantInv`), so that nobody can release it, and that what a command has loaded or emptied is still so unless another
command is about the same name there (`SaveInv`).

`ReconcileProof` proves the safety properties of `Reconcile` for any finite set of rooms, any passes at once and any page
size. `AimInv` says that a pass only wants what is in a space, and wants nothing outside of its joining part; `OwedInv` says that what
it owes it still has to do. Most of the work is in `TypeOK`: the list of rooms stays one in which no room comes twice when a room is taken out or put in
anywhere (`RemoveFacts`, `InsertFacts`), so that by the pigeonhole principle
a page that is not the last ends before the number of rooms there can be, and so the offset of the next is below it.

`AnswerProof` also proves the safety properties of `Posting`, its action property and that it implements `ReplyStream`, for any texts,
any size and any budget, from two assumptions: an event without text fits and a newline is a character (`ChunkAssumption`),
and the notice for an empty answer is a text that fits (`PostingAssumption`). Both are far from the limit of 57344 in
the code. Nothing is assumed of `Size` besides. Texts are compared by positions: `Between(t, p, q)` is a part of `t`, and
`BetweenConcat` and `BetweenBetween` say how parts make parts. While an answer is being split, its chunks end at growing positions of it
(`Cuts`), what has been gathered, the segment and the rest follow one another after the last of them (`Place`), and what
has been gathered fits; in a search the bounds stay around what has not been looked at, and the
best prefix fits or is one character (`Bisects`). Each step of the loops has a lemma that says how the positions move, and that it
leaves less to do; the latter is `LoopsEnd`. While it is posted, what the room has seen is the answer up to
the position at which the first of the chunks that are left begins (`Continues`), so that a step of `Send` is
a `Show` of `ReplyStream`, and nothing is left only when all has been shown. Chunks are counted by a function of positions, so that the proof
needs no induction over a text.

The inductive invariants were first checked with TLC on the instances of the runs.

Proved and not run, since they are parts of an invariant that say little by themselves: `RefusedIsNeverAnswered`,
`FramesFollowOwner` and `DropSparesOthers` (`HubProof`), `DiskReadable` and `ReservedHasAccount` (`RegistryProof`), `WaiterWaits`
(`PagingProof`), `CacheAgrees` (`AppserviceProof`), `PTypeOK` (`AnswerProof`).

Only model-checked: all liveness, since it rests on fairness and `ENABLED` (`PushReturns`, `LostJobSettles`, `QueueDrains`,
`PostsWhatItCan`, `Stops`, `RunEnds`, `Converges`, `AllJoined`). Every invariant and every action property
of a run that passes is stated by a theorem.

## Not modelled, and why

- Rendering to HTML is a library's; its outcome matters as the size of an event, which is a parameter of `Chunk`.
- Bearer tokens and the loopback's job tokens are comparisons with a value; a call with a wrong one changes nothing.
- The command line, the configuration file and printing keep no state. `token.json` is written once by `login`.
- The HTTP client's failures are the outcomes of the steps that call it; retries it has none.
- The prompt, the environment and the arguments of a command are data that no property tells apart.
- Whether the homeserver accepts a notice is not modelled: `Hub` counts the attempt.
- `Hub`, `Registry` and the machines are not composed in full: `Directory` has what goes through
  all three, and takes their inner steps as done at once.
