# wpa-ctrl-py in TLA+

`wpa_ctrl` is a Python package that talks to `wpa_supplicant` over its control
interface: a pair of Unix datagram sockets on which a program sends commands,
gets one reply to each, and receives unsolicited events mixed among the replies.
This directory models the package, checks the models with TLC and proves the
most important properties with TLAPS. Line numbers below are those of
`src/wpa_ctrl/`.

1. [The system](#1-the-system)
2. [The modules](#2-the-modules)
3. [The runs](#3-the-runs)
4. [Where code and documentation differ](#4-where-code-and-documentation-differ)
5. [The proofs](#5-the-proofs)
6. [What is left out, and the plan](#6-what-is-left-out-and-the-plan)

## 1. The system

### Components

| component | state it keeps | operations | correct when |
|---|---|---|---|
| connection (`client.py`: `WpaCtrl`) | `_attached`, `_events` (a list), the transport | `open close request command try_command attach detach pending next_event fileno` | a request returns the reply to its own command; no event is lost, repeated or overtaken; every call returns |
| transport (`transport.py`: `CtrlTransport`) | the socket, the local address it is bound to | `open close send receive pending` | it raises the package's errors and leaves nothing behind |
| table walks (`client.py`: `iter_bss iter_stations iter_p2p_peers`) | the last key, the keys seen | one `FIRST`/`NEXT-` request to each entry yielded | every entry that stays is yielded; never back; ends whatever the daemon answers |
| network paging (`client.py`: `iter_networks`) | the command to send next (`LAST_ID=` in its text), the ids seen, the rows of the page | `LIST_NETWORKS [LAST_ID=]` | every network that stays is yielded once, in order; no page but the last is for nothing |
| command wrappers (`client.py`, some eighty methods) | none; the program keeps the ids they return | add, remove, use, ask | a call says what the daemon did; an id is what was allotted |
| wpa_cli front end (`compat.py`) | `_clients`, a dictionary shared by all threads | `execute_command close_all get_client` | one client to an interface; each caller told of its own command; no exception |
| discovery (`discovery.py`) | none | `find_interfaces control_sockets wireless_interfaces is_wireless have_sysfs` | what is there is found, what is not is not |
| event messages (`events.py`) | none | `parse_event parse_params`, typed views | an event's variables are what the daemon wrote |
| reply parsing (`replies.py`) | none | `parse_table parse_variables`, typed records | so are a reply's |
| SSIDs and secrets (`ssid.py`) | none | `printf_decode from_config config_value quote psk_value` | the same octets in every spelling, and a secret arrives as what it is |
| security flags (`security.py`) | none | `parse_security`, predicates | what is advertised, and a secured AP is never "open" |
| DPP parameters (`dpp.py`) | none | `dpp_channel dpp_configurator_params format_params` | the channel the frequency stands for |
| errors and package surface (`errors.py`, `__init__.py`) | none | exception classes, re-exports | - |

### How they interact

`WpaCtrl` calls `CtrlTransport`, which makes one system call to each operation;
the daemon is on the other side of two kernel queues of limited length. The
wrappers and the walks call `request()` or `command()` and parse what comes
back; the parsers are pure functions. `compat.py` keeps `WpaCtrl` objects in a
dictionary threads share. `discovery.py` uses one short-lived `WpaCtrl` on the
global socket, the file system and sysfs. There are no callbacks and no locks.
A connection serves one thread at a time (`transport.py:57`), which `compat.py`
does not enforce.

### What is hard about it

* **Replies carry no number.** The interface pairs reply and request by position
  alone, so whatever upsets the position upsets every reply after it: a reply
  that comes after its request has timed out, a reopened connection at the same
  address, a full queue, a restart of the daemon.
* **Two doors for events.** `request()` sets events aside while it waits for its
  reply; `next_event()` reads first those and then the socket.
* **Deadlines** are looked at between steps and inside `recv()`; a timeout of
  zero turns `recv()` non-blocking, and where datagrams never stop coming no
  `recv()` times out at all.
* **Tables change under a walk**, which is a generator its caller may pause.
* **Threads** share a dictionary and the connections in it, and a connection made
  later may have the address of one that is gone.
* **An event loop sleeps on a descriptor**, which says nothing of events that
  `request()` has taken off the socket already.
* **The daemon answers to an address**, which on some systems is a file that
  outlives its process, with a name that comes again.
* **Each system call of a search sees another world.**
* **Texts quote, escape and separate**, and an SSID is chosen by a stranger.

`PROJECT.json` lists these one by one under `hazards`, each at its line with the
properties that watch it.

## 2. The modules

| module | models | composed of |
|---|---|---|
| `EventStream` | the abstract promise: accepted events are handed over one at a time, oldest first, at most once, and only a tail of them is ever discarded | |
| `WpaCtrl` | one connection, its transport, both kernel queues and the daemon | implements `EventStream` |
| `EventLoop` | programs that drive a connection by its descriptor | extends `WpaCtrl` |
| `Address` | the address of a transport's own socket: `open()`, `close()`, `_unlink()` in threads and processes | what `WpaCtrl` takes for granted |
| `KeyedWalk` | `iter_bss`, `iter_stations`, `iter_p2p_peers` | |
| `NetworkWalk` | `iter_networks`, `list_networks` | |
| `Commands` | the wrappers, and the ids a program keeps through them | rests on what `WpaCtrl` says of replies |
| `Compat` | `execute_command` and `close_all` in threads | the same |
| `Callers` | a program that walks entries, one that pages networks, one that keeps ids, each on a connection of its own | extends `KeyedWalk`, `NetworkWalk`, `Commands` |
| `Discovery` | `find_interfaces`, `wireless_interfaces` | |
| `Ssid`, `WireText`, `Security`, `DppChannel` | the decoders, splitters and tables, as operators | |
| `Records` | the typed readings of rows, blocks and events | over `WireText` |
| `Secrets` | how a secret is sent, to a network and in a DPP exchange | over `Records` |
| `Codecs` | the inputs of all these, built a piece at a time, and their properties | the six above |
| `WpaCtrlProofs`, `AddressProofs`, `KeyedWalkProofs`, `NetworkWalkProofs`, `CommandsProofs`, `CompatProofs`, `DiscoveryProofs`, `CodecsProofs` | theorems | each its module |
| `MC...` | the instances TLC checks | each its module |

### WpaCtrl

A behaviour is one program using one `WpaCtrl` object. `pc` is where the call in
progress stands: `"idle"` between calls, `"send"` once `open()` has returned,
`"loop"` at the top of `request()`'s loop (`client.py:126`), `"recv"` inside a
blocking `recv()`, `"next"` in `next_event()`'s loop. `sock` says that there is a
socket, `linked` that it is connected to the daemon that runs now, `rx` and `dq`
are the two kernel queues, `events` is `_events`, `attached` is `_attached`,
`expired` says that the deadline has passed. `issued`, `accepted`, `taken`,
`lost`, `lastReply` and `trouble` are there for the properties only; no guard of
the program's steps reads them, except for the bounds.

| action | code |
|---|---|
| `Open`, `Close` | `client.py:93-103`, `transport.py:94-128` |
| `RequestStart`, `RequestUnopened` | `client.py:120-124` up to the return, or the error, of `open()` |
| `RequestSend`, `SendTimesOut`, `SendRefused` | `transport.py:139-147` |
| `EnterReceive`, `ReceiveReply`, `ReceiveEvent`, `ReceiveTimesOut`, `ReceiveWouldBlock` | the loop of `request()` with `receive()`, and what `command`, `attach`, `detach` do with the reply |
| `NextBuffered`, `NextStart`, `NextTake`, `NextDiscard`, `NextNone` | `next_event()` |
| `Tick` | the deadline passes |
| `Serve`, `Emit`, `EmitFails`, `Stop`, `Start` | the daemon and the kernel (external) |

What the kernel does with a dead peer is part of the model: a datagram socket
stays connected to the daemon it was connected to, and a send over it fails and
empties its own receive queue. `open()` does nothing while there is a socket, and
binds the same address each time (`transport.py:100`), so what the daemon holds
for that address - commands to serve, a place on the monitor list - survives a
`close()`. The daemon's monitor list is one bit: the daemon puts an address on it
once, whether or not it asks again.

### EventLoop

`EventLoop` puts a `program` in the place of the free caller of `WpaCtrl`, with
`at` for where it stands between its calls. `"watcher"` follows the recipe of
`client.py:165` to the letter: attach, sleep until the descriptor is readable,
call `next_event()`, drain while `pending()`. `"mixed"` sends requests, waits in
`next_event()` with a timeout, closes and reopens as well, and asks `pending()`
after each of these before it sleeps. `LoopReadable` is what `select()`
on `fileno()` reports (`Readable`: the socket, never the deque); `LoopDrain` and
`LoopDrained` look at `Pending`, which is both. All steps of calls and of the
daemon are those of `WpaCtrl`, and one is added to the daemon's: `Flood` puts a
further event, or a reply to nothing, into the socket whenever there is room,
once the numbered events are used up, for ever if it likes. These have no
numbers, so any number of them that `request()` has set aside in a row is one
element of `events` (`AnotherSetAside`, `ReceiveAnother`); that is the whole of
the abstraction, and a call's looks at its deadline (`LookAtDeadline`,
`NextDiscard`) are as in the code.

### Address

A thread's `pc` is the next line of `open()` or `close()`; its locals are `sock`
and `bound` (that `client_path` is set). A transport is named by its process and
its `id()`, so that a successor may come by the name of one that is gone.

| action | code |
|---|---|
| `Open`, `Bind`, `Unlink`, `BindFile`, `Connect`, `Publish`, `SetPath` | `transport.py:94-119` |
| `Fail`, `FailUnlink` | `transport.py:112-115` |
| `Close`, `CloseSocket`, `Forget`, `CloseUnlink`, `ForgetPath` | `transport.py:123-128` |
| `Kill`, `Drop`, `Daemon` | a process dies, a transport is collected unclosed, the daemon stops or starts (external) |

`names` is the abstract namespace, where a socket's name goes with the socket;
`files` and `inodes` are the directory, where the file stays and leads nowhere.
A socket nothing refers to any more is closed (`Released`), as CPython does.
`host` is the platform: abstract names, a directory, or neither. `raced` marks
transports two threads have been in at once and `left` the files whose transport
was never closed; only the properties read them. A `socket()` that fails
(`transport.py:101`) raises before anything is bound or kept: it changes nothing
here, and what its exception does to a caller is in `Compat`. A process that
forks with an open connection is not modelled.

### Walks, commands, threads, search

`KeyedWalk`: `Step` is one round trip; the generator is suspended at each
`yield`, and `Leave` and `Join` change the table meanwhile. `kind` chooses among
a BSS table, whose ids are never used again; a table of addresses, where an
entry that left may return at another place; and a broken daemon that answers
`NEXT-` with any entry. `mask` is the caller's BSS mask.

`NetworkWalk`: `Request` is one page, `YieldRow` one row of it. The daemon honours
`LAST_ID=`, refuses it or ignores it. `lastId` is the number in the text of the
next command, and `requests` counts the pages for the property.

`Commands`: one action to each discipline the wrappers follow. `Exchange` is a
call: it takes the next reply, or times out and leaves its reply `owed`. `held`
is what a program knows of ids, `allotted` what the daemon gave it. Daemons
allot the id after the highest in use; `Others` are other control programs.
`ping()`'s test for PONG and the columns of `pmksa()` are not modelled.

`Callers` puts these three side by side so that one run checks them. A behaviour
is of one program (`doing`); the other two stand still in one fixed state, and
nothing is shared.

`Compat`: each step of a thread is what it can do before another thread may be
seen to act: the lookup in the dictionary, the store, `open()`, `send`,
`receive`, the test of `close_all()`'s loop, `popitem()`, `close()`. Each may
fail as the code does: `OpenFails`, `SendFails` and `ReceiveFails` end in
`(False, None)`; `OpenEscapes` (`socket()`), `SendEscapes` (`encode()`) and
`ReceiveEscapes` (`settimeout()`) leave `execute_command()` as exceptions. A
client is its `id()`, which is part of its address: `Create` takes any that no
client has now, also one whose last bearer is gone with a command of its own
still at a daemon. That daemon's reply goes to the address, and reaches the new
client if it is connected to the same daemon (`Connected`). Two threads inside
`open()` of one client are modelled as if one of them had made the
socket (`Address` has them step by step); `events` are left out here, `WpaCtrl` has them.

`Discovery`: one step to each system call of `find_interfaces()` or of
`wireless_interfaces()`, whichever is `asked`. `serving`, `node`, `kernel` are the
daemons, the directory and the kernel, which change between any two of them.

### Texts

`Ssid` and `WireText` represent text as sequences of ASCII codes and translate
the decoders step by step: `PrintfDecode`, `Scan` (the character loop of
`_split_params`), `ParseParams`, `ParseTable`, `ParseVariables`. Dictionaries are
sets of pairs. Splitting into lines is at newlines only, for the daemon escapes
every other control character; a priority is one or more digits. `Security`
represents a group of flags as words and the signs between them, so that
longest-match, separators and prefixes keep their meaning without spelling words
out; a name that is a part of a longer word cannot be written in it.
`Records` has the typed
properties: what may be `None` is a set of at most one value, names of variables
are single letters, and one property stands for all that differ from it in the
key alone. Where a number is read there is one: `int()` raises `ValueError` of a
value that is none (`replies.py:160`), which is not modelled, nor is the one
number to the base 16 (`Bss.capabilities`). `Secrets` has `psk_value()`, `format_params()` and
`dpp_configurator_params()`; the lengths 8, 63 and 64 are constants.
`DppChannel` is arithmetic, and next to it the channels of the global operating
classes as a table. `PrintfEncode`, `DaemonPsk`, `OperatingClasses`, `CentreOf`
and the texts in `Codecs` are what the daemon, an access point or the standard
does (external).

## 3. The runs

| run | checks | bounds |
|---|---|---|
| `WpaCtrl_safety` | types; replies right until one is abandoned; consumed once and in order; out of step only after a call that raised; `attached` against the monitor list; no event lost; `pending()` and `next_event()` agree; implements `EventStream` | 3 requests, 2 events, queues of 2 |
| `WpaCtrl_late_reply` | *violation*: a request returns another's reply | 2 requests, 1 event |
| `EventLoop_liveness` | every call returns, also when datagrams never stop; every event the socket takes reaches a program that follows the recipe, unless a queue it is in is discarded | 2 requests, 2 numbered events and any number of others, queues of 2 and 1 |
| `Address_files` | types; an open connection's address leads to its own socket; no file without a connection; `open()` and `close()` fail for a reason only | 2 transports of one process, 2 threads, 3 sockets |
| `Callers_walks_ids` | entries: complete, forward, ends; networks: complete, or the first page at least, upward and once, each page but the last brings something new; ids are those allotted and exist, calls tell the truth | 3 keys, 4 places; 5 networks, pages of 2; 2 ids of each kind, 3 calls |
| `Compat_threads` | one client each; own verdict; nothing left between calls | 3 threads, 2 interfaces, 2 calls, 2 `id()`s |
| `Compat_escapes` | *violation*: an exception leaves `execute_command()` | the same |
| `Discovery_search` | complete; no leftovers, one case left out | 2 names |
| `Discovery_crashed` | *violation*: a dead socket is found | 2 names |
| `Codecs_texts` | SSIDs through events, tables, blocks, configuration; a BSS as a row and as a block with fields left out; secrets; suites; never open; channels | 4 octets of 12, 3 suites of 24, 5 levels, all masks, 2400..7200 MHz |
| `Codecs_quote` | *violation*: `quote()` is not read back | 2 suites, the rest the same |
| `Codecs_empty_secret` | *violation*: an empty passphrase is sent as no secret | the same |

**Why the bounds are enough.** A request that is abandoned needs a second one to
take its reply and a third to be one behind: 3 requests. Order needs 2 events,
one set aside and one in the socket. A queue of 2 holds a reply and an event in
either order and can be full. An event loop needs a request that attaches and
one that sets an event aside; a program reopens only while a request is left to
attach with (`LoopClose`). Two transports are one that is open and one that is
in its way; three sockets are one held and two that race to be made. Three
keys are one passed, one stood on and one ahead; a fourth place lets each of
them move. Five networks over pages of two make three pages. Two ids of each kind
let one be removed and its number be used again, and three calls are one that
adds, one that removes and one after both. Three threads are two in calls and one
in `close_all()`, or two there and one in a call; two interfaces tell their
clients apart; two `id()`s let one come again, for a client that is made after
another was closed or dropped, and two calls are the one before and the one
after. Two names are one that stays and one that comes and
goes. Of SSIDs, four octets are an escape and a digit behind it, or two quotes
with something between; the twelve octets have one of each kind the code
distinguishes. In the secrets, a passphrase has 2 or 3 characters and a raw key
4 digits, standing for 8 to 63 and 64: with up to four octets each length is
below, in, and at the limits, and a text of key length may or may not be hex.
Three suites are one, the one after it, and one behind a name that is not known.
Levels are the two sentinels, 0, and one of each sign. The frequencies are all
those the code names and the edges around them. All invariants and action
properties of these runs are proved without bounds as well, those of `Codecs` for
SSIDs, secrets and lists of suites of any length (section 5).

**Deadlock** is not checked where the system really stops: a walk or a search
that has ended (`Callers`, `Discovery`), the bounded calls of `Compat`, and
the finite inputs of `Codecs`. `WpaCtrl`, `EventLoop` and `Address` never stop,
and deadlock is checked.

**Fairness.** `LoopSpec` has weak fairness of `LoopCall` - a process with a call
in progress is scheduled again, and each of its system calls returns when it
can -, of `Tick` - time passes -, and of `LoopStep`: a program that has opened
its connection runs its loop. That it opens one, sends requests or closes is its
own to decide, and no fairness is assumed of it. Nothing is assumed of the daemon, which
may never serve, emit without end, stop for good or restart. The deadline alone
makes the call return, which is what `remaining()` is there for: with `Flood` no
`recv()` need ever time out, and without the look at the deadline after each
event (its mutant) `request()` goes on for ever. `CallersSpec` assumes that the
caller of a walk over entries goes on asking for the next one (`EntryStep`); each
round trip returns, or raises, by the property above. Nothing is assumed of the
tables: they may change for ever. Of `iter_networks()` no liveness is claimed,
for it has none (section 4).

**What the properties say that a reader may not expect.**

* `RepliesMatchUntilAbandoned` and `SyncLostOnlyByError` mark the exact limit of
  the pairing by position: closing, reopening, a restarted daemon, dropped
  datagrams and events in any number do not upset it; only a call that raises
  after its command was sent does.
* `AttachedIsMonitored`: `attached` is true to the daemon's list until a request
  is given up on, the daemon stops or a datagram is dropped; after a `close()`
  the daemon may still have the address although `attached` is false.
* `EventsReachTheLoop` is where the two doors for events meet a sleeping loop. A
  program that sends requests must ask `pending()` after each; the descriptor
  alone is not enough, and its mutant, a `pending()` that looks at the socket
  alone, shows it.
* `ReachesItself` and the others of `Address` say nothing more of a transport in
  which two threads have been at once. There the code does go wrong: two
  `open()`s leave the second one's socket under a name the first one's file may
  have lost, and a `close()` may find the socket gone between its test and its
  call (`CloseSocket`, `AttributeError`).
* `SameUnderSameName` relates three functions that never call each other: a scan
  row, a BSS block and a poll of the same radio must agree, and what was not
  reported must not be read as a number.
* `SuitesAsAdvertised` does not say that nothing is read behind the known
  suites: of the first suite without a name here, the name it goes on from is
  read (`PSK`, of a suite `PSK-NEW`), for `-` ends a name as `+` does.
* `SecretsArriveWhole` leaves out passphrases with a quote or a backslash, and of
  DPP the empty one: these are runs of their own (section 4).
* `NeverTakenForOpen` is one-way where a list is not understood: what is offered
  is read, and `sae_only` is trusted only if every suite has a name here. It asks
  nothing of an access point with `FT/SAE-EXT-KEY` alone.
* `ChannelHasFrequency` compares with a table of classes and channels and not with
  the arithmetic read backwards. Between the channels of 5 GHz it says only that
  no real channel is named.
* `NoLeftovers` leaves out a refusal where there is no sysfs.
* `InStepBetweenCalls` covers every way out of a call, exceptions included, and
  clients at an address used before; a timeout and two calls on one client are
  its limit, as they are of `TellsOwnVerdict`.
* `EveryPageBringsNew` takes the place of termination for `iter_networks()`: a
  walk asks once more than it yields, at most.
* The properties of SSIDs exercise the escapes that the daemon's encoder writes;
  octal and one-digit escapes, which `PrintfDecode` reads as well, are in no input.
* `Complete` of `KeyedWalk` holds whatever leaves or joins except the entry the
  walk stands on: then the daemon answers `NEXT-` with nothing and the walk ends.
* `TellsOwnVerdict` and `OneClientEach` hold up to the races they name, and
  `HoldsItsOwn` and `HeldExist` up to a timeout or another program's hand; the
  violation of each without that condition is a behaviour of the code.

## 4. Where code and documentation differ

Five are runs of their own, and `findings` in `PROJECT.json`:

* **A late reply** (`client.py:127`). After a timeout every request returns the
  reply to the one before it, until `close()`. (`try_command()` and
  `execute_command()` then report the success or failure of another command.)
* **A crashed daemon's socket** (`discovery.py:66`) is still a socket to
  `stat()`, so it is offered as an interface.
* **`quote()`** (`ssid.py:151`) escapes quotes and backslashes for a reader that
  does not unescape them, by the package's own account of it.
* **Exceptions out of `execute_command()`** (`transport.py:101`, `:142`, `:151`).
  `socket()` stands outside the `try` of `open()`, `encode()` raises no `OSError`,
  and `settimeout()` stands outside the `try` of `receive()`; the first two take
  one thread. `compat.py:63` promises `(False, None)`.
* **An empty passphrase** (`dpp.py:123` tests for truth, `dpp.py:116` for `None`):
  `dpp_configurator_params(passphrase="")` sends no secret at all and raises
  nothing, where `dpp.py:111` and `:47` promise `ValueError`.

Others the models show, which have no run:

* A request whose time is up as it enters `receive()` - always, with `timeout=0`
  - ends in `WpaCtrlConnectionError`, not in `WpaCtrlTimeout`
  (`ReceiveWouldBlock`: `transport.py:151` makes the socket non-blocking, and
  `BlockingIOError` is an `OSError`).
* After a restart of the daemon every request fails until the program calls
  `close()`, for `open()` is content with any socket (`SendRefused`).
* A connection that was closed while attached and is opened again receives
  events it has not asked for (`Close` leaves `monitors`).
* A `KeyError` leaves `close_all()` if two threads run it (`Pop`).
* `iter_networks()` need not end: `client.py:412` waits for a page of nothing new,
  and a network with a higher id added before every page is something new. In the
  same way a BSS never seen before at the end of the table before every step
  keeps `iter_bss()` going; `EntriesTerminate` is about the entries there are,
  finitely many, and a daemon that goes round among them.
* `p2p_connect()`, `p2p_get_passphrase()` and `get_network()` return a refusal
  as if it were the value (the discipline `"worded"`).
* `interfaces()` takes a refusal for the name of an interface (`Account`), and
  without sysfs `find_interfaces()` returns it, where `discovery.py:116` says that
  either way the answer is what has a control socket. `NoLeftovers` leaves out
  this case and no other.
* `Security.sae` (`security.py:125`) misses `FT/SAE-EXT-KEY`, which
  `security.py:51` lists and `:122` would have it find; `NeverTakenForOpen` asks
  nothing there, so that it holds of the code and of a corrected one. `sae_only`
  may be true of an access point that offers PSK as well, behind a suite with no
  name here, for a list is read up to the first unknown name.
* `dpp_channel()` names numbers between the channels of 5 GHz, `115/37` for
  5185 MHz, where `dpp.py:71` promises `None` for a frequency that has no class
  and the same function refuses such frequencies at 6 GHz (`:83`).
* A program that closes and reopens without draining, and goes straight to the
  descriptor after it has attached again, may sleep on an event `attach()` has
  set aside: the daemon may still have the address on its list. The mixed
  program of `EventLoop` drains first.

Met while reading, and not modelled: `is_passphrase()` counts characters where
the limit is of octets.

## 5. The proofs

TLAPS checks the following for every value of the constants: queues of any
length, any number of calls, events, threads, processes, names, keys and ids,
and texts of any length. They assume only the named `ASSUME`s of the modules,
which TLC evaluates in every run: bounds are natural numbers, queues hold at
least one datagram, keys are positive numbers, threads are finitely many, a
transport has a process and a name of its own, the refusal is no interface's
name, octets are 0..255, suites are sequences of words without a `+`,
frequencies are natural numbers and levels integers, and a raw key is longer
than any passphrase.

**`WpaCtrlProofs`**

* `TypeCorrect`: `TypeOK`.
* `EventsSafe`: `NoEventVanishes` and `EventsInOrder`. They are inductive once
  one thing is added, `SocketOnlyWhenNoneSetAside`: in `next_event()`'s loop
  nothing is set aside, or an event from the socket would overtake it. The
  lemmas before it say what taking from and adding to a queue does to the
  numbers in it and their order.
* `EventsImplementStream`: every step of the connection is `Arrive`, `Deliver` or
  `Discard` of `EventStream`, or leaves it alone.
* `RepliesMatch`, `RepliesOnce`, `SyncLost`: these rest on `PipeInv`. The replies
  in the client's queue followed by the commands in the daemon's are one
  sequence of rising numbers, all newer than the last reply consumed, none newer
  than the request in progress. `ReplyInv` adds that until a request is
  abandoned no stray reply is due. `RepliesMatchUntilAbandoned` alone is not
  inductive: it says nothing of what is queued.
* `PendingIsHonest`: with no stray reply due, `next_event()` throws nothing away.
* `SubscriptionKnown`: `attached` alone may be wrong while ATTACH or DETACH is
  under way. `MonitorInv` says what is right then: what the daemon's list says is
  what `attached` will be once the reply in the client's queue has been read
  (`AttachedAfter`), and a command still at the daemon is that of the request in
  progress. That there is one such reply at most is `PipeInv`.

**`AddressProofs`**

* `AddressTypeCorrect`: `TypeOK`; in particular there is always a lowest free
  socket number where there is a free one.
* `AddressReaches`, `AddressNoLitter`, `AddressFails`. `SocketInv` has two parts:
  a socket belongs to one transport (`Exclusive`), and a name or a file that
  leads to a socket leads to one of its own transport (`Homes`). On it rests
  `Orderly`, which says of each transport no two threads have raced in how its
  name, its file and its socket stand at each line of `open()` and `close()`
  (`InCall`) and between calls (`Quiet`). A step of one thread leaves every other
  transport as it was (`Same`), so the invariant is carried transport by
  transport. None of the three properties is inductive: two speak of transports
  at rest only, and say nothing of one in the middle of a call.

**`KeyedWalkProofs`**: `WalkTypeCorrect`; `WalkComplete` from `PlaceInv`: while
the walk knows its place, what it has yielded is behind it and what it owes is
ahead; `WalkForward` from the same, for only the entry next in the table is
yielded (`YieldsNext`).

**`NetworkWalkProofs`**: `PagingTypeCorrect`; `PagingComplete` and `PagingUpward`
from `PagingInv`. What has been or is to be yielded is not beyond `LAST_ID=`,
and what is owed and not among it is (`Placed`); a page comes after all that was
yielded (`Ahead`). `EveryNetwork` alone says nothing before the walk is done.
The step that asks for a page rests on two lemmas about a reply, which is
defined by counting: it has no gaps (`ReplyHasNoGaps`), and it is empty only
when there is nothing left (`EmptyReplyIsTheEnd`). `PagingAsksForNew`:
`EveryPageBringsNew`, which takes the place of the termination there is none of.

**`DiscoveryProofs`**: `SearchTypeCorrect`; `NothingLeftover` from `WorldInv` and
`Witnessed` (what has passed a test was there to pass it); `NothingMissed` from
`OnTheWay` (a name findable to the last is still to be asked about or has
passed).

**`CommandsProofs`**: `CommandsTypeCorrect`; `ProgramHoldsItsOwn` and
`ProgramHoldsWhatExists` from `InStep` (until a request times out nothing is
owed); `CallsTellTheTruth`.

**`CompatProofs`**

* `CompatTypeCorrect`, with `HoldInv`: a thread holds a client in a call and while
  it closes one, and not otherwise, and the dictionary has no client twice.
* `CompatOneClient` from `OneInv`: until a client was dropped or two calls found
  none at once, every client made is the one in the dictionary.
* `CompatEscapes` from `CloseInv`: a client about to be closed is out of the
  dictionary, a client in a call is open or has been closed under it, and one
  thread alone in `close_all()` finds what it tested for. The theorem is of the
  two exceptions that need a race (`RacesBehindEscapes`); the others need none,
  and that they leave is the violation run's.
* `CompatVerdicts` from `VerdictInv`, of which `TellsOwnVerdict` is the visible
  end. Calls under way have numbers of their own, which no queue holds but the
  one they wait at (`Numbers`); each client serves one call, whose command or
  reply is all there is on it, and a client nobody holds is idle (`Apart`). The
  last is what a timeout breaks: the client goes back with a reply still due.
  `CompatInStep` is the other visible end of `VerdictInv`, and what makes an
  address that comes again harmless.

**`CodecsProofs`**. The state machine of `Codecs` only builds the input, so
`Types` is all the invariant there is; the rest is about the operators.

Each decoder is a recursive function of how many rounds its loop has made, and
what it computes of every input is proved, not only what one round does. The
library's induction theorems take an operator the provers cannot instantiate;
`Induction` and `BoundedInduction` say the same of a *set* of numbers, from the
least element a non-empty set of numbers has, and `LoopExists` says that the
function a loop defines exists and has the values its rounds give it. A text
that was put together piece by piece has a tail behind each piece
(`FlattenTails`), and the invariant of a loop that reads such a text is that
after so many rounds it has the pieces so far and that tail ahead.

* `AsAdvertisedAlways`, `NeverTakenForOpenAlways`: a round that finds a suite with
  a name reads that suite, no shorter and no longer (`ReadKnown`; the longest
  match is what makes it so), the round at the first without a name is the last
  (`ReadForeign`), and `GroupRead` follows a whole group. The predicates then
  need only which names hold which word.
* `ConfigCarriesSsidAlways`: `EncodingReadsBack` - `printf_decode()` takes any
  octets back from what the daemon's encoder printed, escape by escape
  (`PieceReads`), including an escape with a digit of the SSID behind it -,
  `HexReadsBack`, and `QuotedReads` for the text between the quotes.
* `SecretsArriveWholeAlways`: `JoinedReads` - words without a blank or a quote,
  joined by blanks, are split into those words - under `ParamsRead`, which reads
  back each parameter of a line by its name, and `FormatReads` for what
  `format_params()` leaves out.
* `TextsCarrySsidAlways`: what the encoder prints never leaves the quotes it
  stands in (`EncodedInside`: it takes the splitter from inside a quotation to
  inside it, with no escape pending), so an event's parameters are those that
  were told (`ToldRead`, `EventReads`). Nor does it hold a tab or a newline, and
  so tables, blocks and the block under an address fall apart where they were
  joined (`SplitJoined`, `TableRead`, `BlockRead`, `StationRead`).
* `SameUnderSameNameAlways`: `DecimalSays` - `int()` undoes the printing of a
  number of any size and sign - and the blocks again, with any fields left out
  (`BssRead`, `PollRead`, `RefusalRead`).
* `ChannelHasFrequencyAlways`: the table of classes is written out
  (`ClassesListed`), `ChannelNamed` goes through its channels, and
  `ChannelExists` through the branches of `dpp_channel()`, each over all natural
  numbers.

Only model-checked: liveness and termination - `EveryCallReturns` and
`EventsReachTheLoop` of `EventLoop_liveness`, `EntriesTerminate` of
`Callers_walks_ids` -, which are beyond the prover. Every invariant and every
other property of the passing runs is a theorem. The five violations are TLC's
alone.

## 6. What is left out, and the plan

**Not modelled**, and why:

* The words of commands, and logging: no property is about them.
* Properties that are a lookup in a dictionary like the ones modelled: those of
  `Disconnected`, `DppTx` and `DppTxStatus`, most of `Bss` and `SignalPoll`, the
  rows of the PMKSA cache; `owe`, `transition_mode` and `pmf_*`. `Bss.security`,
  which is `parse_security()` of the flags, or `None` without them.
* `Ssid.text` and every `..._text`: Python's decoder of UTF-8. Messages are
  decoded with replacement before they are parsed, and printed SSIDs are ASCII.
* `get_capability()`: a request and a split.
* Line separators other than the newline, at which `splitlines()` splits too: the
  daemon escapes them in an SSID, and what it does with other names is not to be
  read from this code.
* Truncation at the receive buffer, and a process that forks while connected.
* `errors.py` and `__init__.py`: classes and re-exports without behaviour.

The work was done in this order: the connection and its proofs, the walks,
discovery, commands, threads, texts, then addresses and the event loop, records
and secrets, the proofs of `Address`, `Compat` and the subscription, and last
those of the decoders. What would come next:

1. Two threads step by step inside `open()` of one client in `Compat`, by
   composing it with `Address`.
2. The typed views left out above, if they come to do more than look up; the
   lemmas on tables and blocks (`TableRead`, `BlockRead`) are stated for any
   columns and fields, so that a theorem about another view is short.
