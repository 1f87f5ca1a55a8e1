# Verification of the Lambda Runtime API Daemon

TLA+ specifications of [lambda-runtime-api-daemon](../src/README.md), their model
checking with TLC and proofs about them with TLAPS. The specifications are
translated from the Go code in `src/pkg`; where a document or a comment says
something else, the code is what is modelled.

## The system

Clients call the AWS Invoke API over HTTP. A **Lambda Runtime API Daemon** runs one
Function: it launches Runtime processes on demand, hands them invocations
through the Runtime API, and stops them when they are idle. A **Lambda Server** can stand
in front of many daemons and forwards invocations to them as AMQP-RPC.

    client --HTTP--> InvokeAPIServer --> RAPIInvoker --channel--> RuntimeAPI <--HTTP-- Runtime
                                            |  rapi.Init                |            /
                                            +--> ProcessManager <--SIGCHLD----------+
    client --HTTP--> InvokeAPIServer --> RPCInvoker ==AMQP==> RPCServer --> RAPIInvoker
                     (Lambda Server)        (messaging: Connection, Session, Consumer, Producer)

| Component | State | Operations | Interacts with | Hard behaviour |
|---|---|---|---|---|
| ProcessManager (`pkg/process/process-manager.go`) | table of managed processes, `sigchan`, the deadline of a shutdown | Start, Register, Unregister, TerminateAll, KillAll, HandleSignals | callbacks into RuntimeAPI; kernel | children die at any time; signals coalesce and are dropped; shutdown with children that do not obey |
| Launching (`rapi.Init`, `RAPIInvoker.init`) | `lambdaCount`, one `sync.Once` for each possible instance | Init, init, RegisterLambdaRuntime, UnregisterLambdaRuntime | invoke calls it; ProcessManager's callbacks change what it read | index read under a lock and used after it; a Once replaced while in use |
| RuntimeAPI (`pkg/runtimeapi`) | `pendingRequests`, the channels `Invocations`, `InitError`, `shutdown`, the idle timestamp | next, response, initerror, DeleteRequest | Runtimes over HTTP; RAPIInvoker over channels | late, double and missing answers; Runtimes that die with a request; idle timeouts |
| RAPIInvoker (`pkg/invokeapi/rapiinvoker.go`) | one Response channel and one context for each call | invoke, init | InvokeAPIServer or RPCServer above, RuntimeAPI below | three selects, each with a timeout that races with an answer |
| RPCInvoker (`pkg/invokeapi/rpcinvoker.go`) | `pendingRequests`, `replyTo` | invoke, rpcResponseHandler | broker | request sent before the channel is stored; unbuffered channel; reply queue with a new name |
| RPCServer (`pkg/invokeapi/rpcserver.go`) | a goroutine for each delivery | rpcHandler | broker, RAPIInvoker | redelivery, prefetch, acknowledgement after the reply |
| Messaging (`pkg/messaging`) | pools of connections and channels, barriers, `closed` flags | reconnect, Wait, closeListener, Producer.Send, Consumer.Consume | broker; RPCInvoker, RPCServer | transparent reconnection by several goroutines |
| ExtensionsAPI (`pkg/runtimeapi/extensionsapi.go`) | maps of Extensions by id, by process group and by address; event channels | register, next, Add, SendInvokeEvent, SendShutdownEvent | RuntimeAPI, ProcessManager | registration that races with the launch; unbuffered event channels |
| InvokeAPIServer, configuration, logging, commands | none that changes | one request to one call; parsing of the environment | | boundaries of MAX_CONCURRENCY |

What makes each of them correct:

- *ProcessManager*: every child is accounted for, every exited child is reaped, and
  a termination signal ends the daemon.
- *Launching*: never more than MAX_CONCURRENCY Runtimes, never an index out of
  range, and a pool that can grow again.
- *RuntimeAPI and RAPIInvoker*: a request goes to one Runtime at most, its answer is
  its own if ids are unique, a call that is not launching a Runtime returns, and no
  response handler blocks for ever.
- *RPC*: replies find their callers if ids are unique, requests are executed at least
  once while the queue lives, and neither the map of pending requests nor the prefetch leaks.
- *Messaging*: one goroutine reopens a destination, one dispatcher serves it, and
  the Session comes back or is given up. When the connection cannot be made again the
  program is told; when only the channel cannot, the Session is marked closed and nobody is.
- *Extensions*: an Extension belongs to one instance, gets its events and no others,
  each once; the exception are strays, see below.

## The modules

| Module | Models |
|---|---|
| `ProcessManager` | process table, SIGCHLD and termination signals, `HandleSignals` |
| `LambdaPool` | `ProcessManager` composed with `rapi.Init`, `once.Do` and `RAPIInvoker.init` |
| `MCLambdaPool` | symmetry for TLC |
| `LambdaPoolProofs` | theorems about `LambdaPool` |
| `InvokeService` | abstract: what an invocation may be answered, and when |
| `RuntimeAPI` | handlers next, response and initerror, and the map of pending requests |
| `RAPIInvoker` | `RuntimeAPI` composed with the calls of invoke; refines `InvokeService` |
| `MCRAPIInvoker` | correlation ids that are unique or shared, symmetry |
| `RAPIInvokerProofs` | theorems about `RAPIInvoker`, the refinement included |
| `RPCService` | abstract: what a request that was executed, refused or lost lets a call return |
| `RPCServer` | the broker's queues and the daemons that consume requests |
| `RPCInvoker` | `RPCServer` composed with the Lambda Server's calls and response handlers; refines `RPCService` |
| `MCRPCInvoker` | correlation ids that are unique |
| `RPCInvokerProofs` | theorems about `RPCInvoker`, the refinement included |
| `Destination` | abstract: how a destination is closed and opened again, without goroutines or locks |
| `Messaging` | a Connection, its Session, and one Consumer or Producer through reconnections; refines `Destination` |
| `MessagingProofs` | theorems about `Messaging`, the refinement included |
| `EventService` | abstract: to whom an instance offers its events, and how often; the Extensions of no instance (strays) |
| `Extensions` | the Extensions API with the launch of an instance, its next handler and its death; refines `EventService` |
| `MCExtensions` | two instances and a client that registers twice |
| `ExtensionsProofs` | theorems about `Extensions`: types, the maps, identifiers |
| `EventServiceProofs` | the refinement of `EventService` |
| `RegistrationProofs` | init waits for the Extensions it has started |

`PROJECT.json` maps each definition to the lines it stands for.

### How state and actions correspond to the code

**ProcessManager, LambdaPool.** `proc[p]` is what the kernel knows of a child;
`processes` is the key set of `pm.processes`. `handler` is where the goroutine in
`HandleSignals` is: in its select, in the Wait4 loop, or between a Wait4 and the
Unregister that follows it. A caller is a goroutine in `invoke`: it reads the
index under the read lock (`ReadIndex`), passes through or enters the Once
(`OncePass`, `OnceEnter`), forks (`CmdStart`), registers (`Register`) and
leaves the Once (`InitReturns`), and anything may happen between two of these.
A `sync.Once` is represented by two sets of indexes, `done` and `locked`; overwriting it
with a fresh value (`UnregisterLambdaRuntime`) takes the index out of both, and
leaving a Once whose mutex was taken away is the fatal error that Go makes of it.

**RuntimeAPI, RAPIInvoker.** A request is one call of invoke with the Response
channel that it makes. `conn[r]` is the handler that runs for Runtime `r`, and goes
on when `r` dies. `next` receives (`ReceiveInvocation`) and stores the channel
(`StoreRequest`) in two steps, since Extensions are told of the event in between;
`response` takes the channel out of the map (`PostResponse`) and sends
(`SendResponse`). `Send` is the rendezvous on the unbuffered `rapi.Invocations`.
Launching is abstracted to `Launch`, whose bound is what LambdaPool shows.

**RPCServer, RPCInvoker.** A handler is a goroutine with its delivery, and a delivery
carries the number of the connection it came on, since acknowledging on a connection
that is gone does nothing. It may hang (`Hangs`) in invoke, which has no timeout while
it launches a Runtime, and in Send, which may sleep in `Session.Wait`. `Send` and
`Store` are two steps, as in the code. `pendingRequests` maps a correlation id, `Cid[i]`
for request `i`, to the call whose channel it holds. The id is the one the client sends,
if it sends one, and a retry sends the same: `Store` then overwrites the entry of the
first call, and `CtxDone` deletes whatever is there. `arrived` and `sending` are the
response goroutines before and after they look up the channel, the latter with the call
whose channel they hold. The broker is external: the request queue is auto-delete (as
declared), so it goes with its last consumer; unacknowledged requests of a lost consumer
return to it; the reply queue is named by the broker, and each reopening of the consumer
gives it another name (`replyQueue`), while requests keep the first (`replyTo` is read
once). `fate` is a history variable: what became of each request, which no action reads.
`RPCService` needs it, since a request may be executed before or after its call returns.

**Messaging.** AMQP channels and barriers are numbered. `listener` is the
closeListener goroutine and the two `reconnect` methods that it runs. A worker is a
dispatcher or a goroutine in `Producer.Send`; `Loop`, `Lock`, `WaitClosed`,
`AcquireBarrier`, `WakeUp`, `WaitReturns` and `Reopen` follow the loop that opens a
destination again. The Consumer's dispatcher runs that loop itself; a Producer's
leaves it to the next Send.

**Extensions.** An instance is named by its process group and a group is used once. A
handle is a number, given by `Add`; handles are in order in every slice, so a slice is
the set of its handles, iterated from the least. `RAPIInvoker.init` is `CmdStart` (the
Runtime runs), `RegisterLambdaRuntime` (Register with its callback), `Stop`, a
`StartUnmanaged` and an `AddExternal` for each file, `AwaitExtensionRegistration` and
`Continue`: an Extension may register between any two of these, and one that comes
before its `AddExternal` is taken for an Internal one. A Runtime that dies before
Register is not found by Unregister (`ReapUnregistered`), and is registered after that
as a `"phantom"` whose entry stays. Whatever connects while its group has no entry in
the map, before Register or after Unregister, is mapped to pid 0 and so to the daemon's
own group: the Extensions added under it are *strays*, of all instances together.
`register` is a lookup (`Register`), then what it does to the handle, then the flag and
the answer, and two calls may be between these at once. `MapRemoteAddrToExtensions` is a
value copied when a connection opens (each `register` opens one, a Runtime calls next on
an old one or on a new one), so it may be out of date when `IndexedByAddr` returns it.
In the next handler `Announce` takes the slice, `Tell` is the rendezvous on an event
channel, and `AllTold` and `Kill` are what follows. `NoGroup` is pgid 0, and also the
daemon's own group: signals to either reach the daemon. SIGTERM and the SIGKILL after it
are one step. `got` is what each handle has received; it is also its timestamp, which is
set with every event. A Runtime calls `next` one call at a time. Waiting for an
invocation, and what becomes of it, are those of RuntimeAPI; here it is given to the
first that receives it.

## Runs

| Run | Shows |
|---|---|
| `pool_safety` | No interleaving of three invokes, child exits and a shutdown runs more than MAX_CONCURRENCY (2) Runtimes; children are accounted for; the index that is reset is in range; when no process is left, an instance can be launched unless a Cmd.Start failed or a child was reaped before its Register, and these two do keep a daemon without a Runtime |
| `pool_shutdown` | With a `sigchan` of one item, so that signals are dropped, and Cmd.Start free to fail, HandleSignals will hear of every exit, every zombie is reaped and a queued termination signal ends the daemon |
| `pool_slot_loss` (violation) | Below MAX_CONCURRENCY the daemon may be unable to launch |
| `invoke_safety` | Two calls, two Runtimes that crash, post late or twice, time out or are shut down: `InvokeService` is implemented, a waiting caller can be reached, and no handler blocks |
| `invoke_returns` | The same with one id used for both calls and one instance at a time: one sender for each Response channel, `InvokeService` is implemented (a call may get the answer to the other, and to nothing else), and a call that is not in `rapi.Init` returns |
| `invoke_retry` (violation) | With an id that is used again, the end of a cancelled call makes its retry unreachable |
| `rpc` | Two calls with ids of their own, two daemons whose handlers may hang, one fault: replies find their callers, entries do not leak, requests are executed at least once, a daemon has no more handlers than one prefetch for each connection it has had, every unacknowledged delivery has its handler, the broker gets rid of what no hanging handler keeps from it, and `RPCService` is implemented |
| `rpc_reply_queue` (violation) | After a reconnection of the Lambda Server replies go to a queue that is not there |
| `messaging` | One dispatcher, one reconnecting goroutine, `Destination` is implemented; who sleeps will be woken; the Session and the destination come back or are given up, for waiters that do not oversleep |
| `messaging_oversleeps` (violation) | A waiter can sleep on a Session that is open |
| `extensions` | Launching, registration, events and deaths at MAX_CONCURRENCY 2, with connections made before Register: the maps agree, an identifier has one owner, a Runtime waits for its Extensions, and `EventService` is implemented |
| `ext_kills` (violation) | A handler can signal process group 0, that of the daemon |

### The violations

Each is a disagreement between the code and what a comment says of it.

- `pool_slot_loss`: two invokes, A launching under index 0, B reading index 1 after
  A has registered. The first Runtime dies before B registers: Unregister resets
  index 0 and the count is 0. B registers: count 1, but index 1 is done, and
  only the next death frees index 0. Every later invoke waits for the one instance.
  The same line can overwrite a Once while init runs in it, since a Runtime may die
  after Register and before init returns; LambdaPool models that too, with the
  fatal error that may follow.
- `invoke_retry`: SDKs send the same `Amz-Sdk-Invocation-Id` with each attempt, and
  a redelivered AMQP message has the id it had; `pendingRequests` is keyed by it. The
  Lambda Server's map is keyed in the same way and loses a retry's entry in the same way.
- `rpc_reply_queue`: `invoker.replyTo` is the name the broker gave to the first
  queue. `Consumer.open` parses the address `""` again and gets another.
- `messaging_oversleeps`: `Wait` tests `IsClosed`, then takes the barrier. A
  reconnection in between replaces it, and the waiter holds `dst.m`.
- `ext_kills`: with MAX_CONCURRENCY 1, once an Extension has registered, the Runtime
  dies while its next waits and is reaped: Unregister empties
  `eapi.extensions`. The handler then finds its context done, IndexedByAddr
  returns `nil, 0, 0`, and `kill(-0, ...)` goes to the daemon's own group.

### Bounds, and why they are enough

- `pool_safety`: three callers and three pids for MAX_CONCURRENCY = 2, so that the
  bound could be exceeded; one more would only repeat a role. A pid is reused
  after it is reaped, so runs are unbounded in length. `MaxTerms` = 1: a second
  termination signal takes the same branch. `SigCapacity` is 2 where the
  capacity does not matter and 1 where dropping does (128 in the code).
- `invoke_*`: two requests are what it takes for one to disturb another, two
  instances for one to answer while another dies. Each call is made once.
- `rpc_*`: with a prefetch of 1 and two requests it binds; a fault is the loss of a
  connection, of a daemon or of a message, after which a request can be executed
  twice on two daemons. A second fault repeats one of these. The two calls have ids of their
  own (`OwnCid`), without which `WaiterReachable` fails; the proofs of the rest need no such assumption.
- `messaging`: two closes reach a close during a reopening; each reopening starts
  a dispatcher, so three identities are needed for two closes. Two senders contend for the lock.
  Two connection attempts distinguish a failed one from the last.
- `extensions`: two instances, for events or identifiers to go to the wrong one;
  one Extension in the first that calls `register` twice, so that the two calls race with
  each other and with `AddExternal`; one call lists both events, which an Internal
  Extension is refused, the other only INVOKE; and none in the second, where its start fails.
  Two handles are what the race makes. One process of the first instance (`Frail`) exits unbidden;
  shutdowns at the idle timeout are not bounded. The second Runtime (`Eager`) may call next
  between Cmd.Start and Register, and then tells strays; otherwise next is called once init
  has stopped the Runtime and resumed it. The proofs allow any `Eager` and `Frail`. `ext_kills` is the same at
  MAX_CONCURRENCY 1, without `Eager` Runtimes and with either instance frail.
- `CHECK_DEADLOCK FALSE` everywhere: the daemon exits, calls are made once, faults
  are bounded, so every model may stop where the system may.

### Fairness

- LambdaPool: the relay goroutine of `os/signal` and the goroutine in
  `HandleSignals` are scheduled (weak). `Timeout` is strong: when a signal and the deadline
  are ready, Go's select picks at random, so a deadline that stays ready is taken.
  Callers and children owe nothing. `LoopEnds`, the premise of both
  liveness properties, says that children do not exit as fast as Wait4 reaps them.
- RAPIInvoker: a call that can go on does, and its timer fires. `rapi.Init` owes nothing:
  it waits without a timeout for Extensions, and for a Once in which another call does so.
  Hence the premise of `ReturnsUnlessInInit`. Runtimes and their handlers owe nothing.
- RPCInvoker: a handler that does not hang goes on, a consumer is opened again, and the
  queue is first in first out, hence strong fairness of the delivery of each request. No
  handler is assumed to get past invoke or Send, since either may never return. The Lambda
  Server owes nothing. `QueueDrains` says
  that a request the broker holds, in the queue or unacknowledged, it does not hold for ever,
  unless its handler hangs, or every connected daemon has its prefetch full of handlers that do.
- Messaging: goroutines that can go on do, dialling returns, and locking is strongly fair
  since `sync.Mutex` does not starve a waiter.
- Extensions: none. That a handler goes on depends on Extensions that listen, which nothing
  makes them do.

## Theorems

For every value of the constants that satisfies the ASSUMEs of the modules.

**LambdaPool** (`LambdaPoolProofs`): type correctness, `InstancesBounded`,
`ResetIndexInRange`, `Accounted`, `Capacity`. The bound is not inductive: what keeps it
is `Capacity`, that registered processes and inits that may still register one are paid
for by indexes that are done or locked, together with `Accounted`, that every process is
registered or held by its caller. An unregistration gives up one index and removes one
process; entering a Once takes a fresh index. `StuckOnlyByFault` is proved with
Cmd.Start free to fail: while nothing is registered, whoever uses up index 0 has yet to
register, or its start failed (`failed`, a history variable); and a daemon that has
entries but no process has that of a child reaped before its Register, which nobody
removes. `ExitsNoticed` is inductive and holds for any capacity of `sigchan` above zero:
a signal is dropped only when others are queued, and one that is queued leads to the
Wait4 loop or to a deadline. It is the safety half of `ZombiesReaped`.

**RAPIInvoker** (`RAPIInvokerProofs`): type correctness; `OneSender`, that the right to
send on a Response channel is in one place, for any reuse of ids; from it
`ResponseChanNeverBlocks`; and that the daemon implements `InvokeService`, also for any
reuse of ids. The invariant of the refinement adds that each handler
and each map entry belongs to a request that was delivered exactly once, and that what a
handler posts goes to a call with the id of the request it was given. From `InvokeService`
alone it then follows, when ids are unique, that a call never returns the answer to
another (`AnswersOwn`). With unique ids,
too, `WaiterReachable`: no step but its own takes from a waiting call all the places
that may hold its channel.

**RPCInvoker** (`RPCInvokerProofs`): type correctness, `NoStaleEntry`,
`OneResponder`, `WaiterReachable`, `InFlightBounded`, `AtLeastOnce`. The first two, for
any reuse of ids, need one more fact, that a goroutine that sends took the entry of a call
that had come to wait: so no `Store` of that call comes after it. `WaiterReachable` is proved
for ids that are unique (`UniqueCids`), as no other call then stores or deletes under the
id. `InFlightBounded` counts handlers, but
what the code bounds is `unacked`, and a lost connection empties that while its
handlers go on. The invariant therefore says: a delivery has one handler; those of
the present connection are unacknowledged; and the requests that the handlers of each
connection work on number at most the prefetch, whatever became of it. That a new
delivery has no handler yet follows from `HeldOnce`: a request is in the queue or
unacknowledged on one connection. The comment at rpcserver.go:98-103 says that the
handlers in flight are bounded to the prefetch; that holds until the first connection is lost.
`AtLeastOnce` holds of each step given the types.
`UnackedHandled` is inductive: a delivery and its handler start together, and a handler
ends with the acknowledgement. `ImplementsRPC` maps a call to what the client sees of
it; what makes it inductive is `FateAgrees`, that the broker's queues, the handlers, the
replies and the goroutines of the Lambda Server hold only what the fate of their request
allows (a reply only of a request that was executed, a return only of one that was returned),
and a goroutine only a message with the id of the call it sends to. From `RPCService`
alone it follows, when ids are unique, that a call returns nobody else's answer (`AnswersOwn`).

**Messaging** (`MessagingProofs`): type correctness, `OneDispatcher`, `OneReconnects`. These
two together are inductive, given that the present reconnect has attempts left: the
right to have a dispatcher passes from the dispatcher that runs to the flag `closed`, from the
flag to the worker that has waited under `dst.m`, and from it to the next dispatcher.
The second look at `closed` under the lock keeps a worker that was late from taking it twice.
`ImplementsDestination` rests on them and on `SessionAgrees`: a reconnection runs only while
the channel is closed, and a Session is given up only by a closeListener that has stopped, so that
it stays so. `SleepersAwaited` follows from `ListenersLast`: the closeListener stops only
when it gives the Session up, and nobody holds a barrier that is yet to be made.

**Extensions** (`ExtensionsProofs`, `EventServiceProofs`, `RegistrationProofs`):
type correctness and, each with what it adds to make it inductive:

- `MapsAgree`, with `Unknown`: before its Runtime is registered nobody knows of a group, so
  the entry that RegisterLambdaRuntime makes takes no handles from another.
- `OwnIdentifier`, with `Owned`: from the moment `awaitRegister` of a handle is
  closed until the handler returns, the handle is the caller's already; two
  calls that found the same handle are told apart by the panic of the second close.
- `ImplementsEvents`, with `Connected` (what a connection maps to, though out of
  date, are members of the caller's instance, or strays) and `Fresh` (an invocation is received
  once; once a member has been told to shut down, its Runtime makes no further call; a stray
  may be told so by several Runtimes).
- `RuntimeWaits`, with `Launching`: while an Extension runs that init has started, or a call of
  register is under way that found no handle, there is or will be a handle
  of that name under the pgid, and `Add` comes before init takes the slice it waits for.

The last two are proved for MAX_CONCURRENCY > 1, and so is the clause of `OwnIdentifier` about
the process group. Where it is 1, IndexedByAddr returns any entry of the map: after an instance has
died, an Extension of it that survives can register with the handle of the next
one, and init does not wait for the right one.

Only model-checked: all liveness properties, since the provers do not treat
fairness. Every safety property of a passing run is proved.

## Assumptions and what is not modelled

- A pid is not handed out again while a table entry or a caller refers to it.
- The exit of a daemon is one step: the process is gone, with all its goroutines.
- `Size` and `pm.Lock`: Register and Unregister run with their callbacks under
  the lock, and are one step each.
- ExtensionsAPI: the file that disables Extensions, requests with bad bodies (refused
  before anything is read), the text of events, Close. The init error and exit
  error handlers are empty in the code.
- Correlation ids: `WaiterReachable` and `AnswersOwn`, of the daemon and of the Lambda
  Server, assume that clients use each id once. Retries do not; what then happens is
  in the models, and in `invoke_retry`.
- Waiting for Extensions has no timeout: an Extension that never registers, or that was taken
  for an Internal one because it came before `Add`, keeps init, and every later
  invoke on its index, waiting for ever, although rapiinvoker.go:115-116 says that invoke
  ends at the full timeout. `Extensions` has these behaviours; no property excludes them, and
  `ReturnsUnlessInInit` and `QueueDrains` exempt the calls that wait there.
- An Extension that stops listening holds up the handler that tells it, without a timeout.
  `Extensions` has this too, and no property excludes it.
- In Messaging: pools larger than one, Return receivers, address parsing and the declarations
  of `open`, Close. In RPC: Close, and the exit of the Lambda Server.
- Configuration, HTTP translation, logging and the two `main` functions.
- Hazards without a property, with the reason, are listed in `PROJECT.json`.

## Plan

Done: (1) ProcessManager and launching, (2) RuntimeAPI and RAPIInvoker with
InvokeService, (3) RPC over the broker with RPCService, (4) reconnection with
Destination, (5) the Extensions API with EventService, with their runs and the
theorems above. Left:

1. Messaging: pools and their queue, Close and cancellation, the Return receivers,
   the declarations that `open` makes.
2. `RPCService` composed with `InvokeService`, where each execution of a request is a call of
   invoke in a daemon.
3. Configuration as pure functions (integers of the environment, AMQP credentials),
   checked against a reference definition on bounded inputs.
