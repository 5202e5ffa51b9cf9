# TLA+ models of Prolac: two TCPs and a compiler

This directory holds TLA+ models, TLC configurations and TLAPS proofs for the
programs of this repository: the TCP written in Prolac (`src/oldtcp/linuxtcp`),
the TCP of Linux 2.2 the later port is compared with (`src/linuxtcp/control`),
and the parts of the Prolac compiler (`src/prolacc`, `src/include`) whose state
changes in an order that matters. `PROJECT.json` maps each definition to the
lines it models and lists the runs, seeded faults, hazards, findings and
theorems in a machine-readable form.

Contents: 1 the system · 2 modules · 3 the Prolac TCP · 4 the Linux TCP ·
5 the compiler · 6 the runs · 7 the proofs · 8 what the code does that it should
not · 9 limits · 10 plan.

## 1. The system

| component | source | state | operations |
|---|---|---|---|
| Prolac TCP: control block | `tcb.pc`, `window.pc`, `rtt.pc`, `retrans.pc`, `slowst.pc` | connection state, three send pointers, receive pointer, windows, congestion window, timers, flags | hooks called by input and output: send, new-ack, receive-syn, retransmission, window updates |
| Prolac TCP: output | `output.pc` | one call's budget | `do`: initialize, then one segment per turn of `real-send-loop`; `send-reset` |
| Prolac TCP: input | `input.pc`, `predict.pc`, `fastret.pc` | none of its own | one chain of rules per connection state, ended by an exception |
| Prolac TCP: reassembly, delayed and quick acknowledgement | `reass.pc`, `delayack.pc`, `quickack.pc` | queue of out-of-order segments, two timers | insert, trim overlaps, deliver in order, acknowledge now or later |
| Prolac TCP: sockets, calls, timers | `sock.pc`, `intrface.pc`, `timeout.pc` | send and receive buffers, tick counters | connect, accept, read, write, close; retransmit, 2MSL, fast and slow timeouts |
| Linux TCP: sockets and calls | `atcp_base.c`, `atcp.h` | one `sock`: write queue, receive queues, counters, windows, timers | connect, sendmsg, recvmsg, shutdown, close, socket options |
| Linux TCP: output | `atcp_output.c` | pointers into the write queue | first transmission, splitting and joining of buffers, fast, FACK and timeout retransmission, probes |
| Linux TCP: input | `atcp_input.c` | out-of-order queue, SACK blocks | header prediction, acknowledgements, data, states |
| Linux TCP: timers | `atcp_timer.c` | five timers of a socket, one slow timer of the host | retransmission, probe, delayed acknowledgement, keepalive, end of a socket |
| Linux TCP: listening, tables, TIME-WAIT | `atcp_ipv4.c`, `atcp_timer.c`, `atcp_input.c` | queue of open requests, two backlogs, hash tables with a one-entry cache, death row | SYN, accept, ICMP errors, lookup, buckets |
| Compiler: names | `namespace.cc`, `modfrob.cc`, `module.cc`, `lcdf/hashmap.cc` | tables shared by modules until one changes them | declare, hide, show, rename, equations |
| Compiler: dispatch and layout | `ruleset.cc`, `module.cc`, `node.cc`, `program.cc`, `optimize.cc` | rulesets, receiver classes, slots, marks | resolve, two analyses, layout, inlining, generation |
| not modelled | `src/linuxtcp/src` (the Prolac port and its C half), the rest of the compiler, test harness, documentation | | reasons in `PROJECT.json` |

How they interact. In both TCPs the network, the user's calls and the timers all
change one connection record and call the same output code; nothing else is
shared. In the Linux TCP a call locks the socket, and segments that arrive then
wait in a backlog until the call lets go. The listener, the tables and
TIME-WAIT meet in the slow timer, which open requests and TIME-WAIT buckets
share, and in the register cache, which answers lookups without the tables. In
the compiler the name tables decide which rule a call names, the analyses over
all bodies decide how it is bound, and generation binds it again while it marks
what else has to be generated.

What is hard: two hosts, two users and the timers of both act in any order;
segments are lost, duplicated and reordered; a retransmission may overtake or
overlap the original; pointers and counts into a queue must survive the
splitting, joining and freeing of buffers; windows must not be taken back;
nothing is sent unless a flag, a timer or an arrival asks for it; tables that
are shared until changed; a closure that grows while it is computed. Section 6
says which property is about which.

## 2. Modules

| module | models | state |
|---|---|---|
| `Tcb`, `TcpOutput`, `TcpReassembly`, `TcpInput`, `TcpInterface` | the Prolac TCP, as operators over the record of a control block | |
| `TcpConnection` | two ends, users, timers and the network | `tcb`, `out`, `net`, `faults` |
| `TcpEndpoint` | one end against a peer that may send anything | `tcb`, `out` |
| `AtcpSock`, `AtcpSack`, `AtcpOutput`, `AtcpInput`, `AtcpTimer`, `AtcpBase` | the Linux TCP, as operators over the record of a socket | |
| `AtcpConnection` | two sockets, users, timers, backlogs and the network | `sk`, `req`, `net`, `call`, `backlog`, `written`, `got`, `spent` |
| `AtcpListen` | a host's open requests, register, death row and slow timer | `h`, `spent` |
| `ModuleSource`, `ModuleOperators` | what a source says about names, and what the module operators promise: one dictionary per module | `scopes`, `origins`, `current`, `last` |
| `HashMap`, `Namespaces` | the shared tables of the compiler, shown to implement `ModuleOperators` | `heap`, `names`, `current`, `applied`, `failed`, `last` |
| `ProgramSource`, `Dispatch` | the passes of the compiler from rulesets to generated code, and the generated program | rulesets, work list, receiver classes, slots, marks, places, frame |
| `TcpEndpointProofs`, `AtcpListenProofs`, `DispatchProofs` | theorems about `TcpEndpoint`, `AtcpListen`, `Dispatch` | |
| `AtcpSockProofs`, `AtcpOutputProofs`, `AtcpInputProofs`, `AtcpConnectionProofs` | theorems about `AtcpConnection`, and the lemmas about its operators, file by file | |
| `Iteration` | induction over the turns of a loop, for any loop | |
| `MC...` | instances for TLC | |

Each composition uses the operators of its component, so what is proved of one
end (`TcpEndpoint`) is about the code that runs at both ends of `TcpConnection`.
Definitions marked "mutant" (or "seeded fault") are changed versions of the
definition below them. No specification uses them; they show that each property
is broken by a plausible bug.

## 3. The Prolac TCP

Paths in this section are relative to `src/oldtcp/linuxtcp`.

**A TCB is a record** with the fields of the whole inheritance chain, and each
operator is a rule after dispatch. `main.pc` decides the order of overrides;
where an extension calls `inline super.rule`, the operator does both in that
order. A Boolean or a bit of a flag word is an element of `flags`.

**Input is a chain of rules with exceptions.** Each operator of `TcpInput`
returns the TCB, the segment as trimmed so far and how far processing has come
(`go`, `stop`, `output`, `fastret`, `reset`); `Then` runs the next rule only
after `go`. An exception keeps the assignments made before it.

**A step** is a call, a timer, the delivery of a segment, or one turn of an
output loop. The turns are steps of their own so that an allocation can fail
between them (`NoMemory`), an endless loop is an infinite behaviour, and the
properties hold between turns too. While a loop runs nothing else happens at
either end: at the same host the code runs to completion, and the other host's
steps commute with the turns, which only append to the network. That a host
takes calls, timers and arrivals one at a time is an assumption: the `cli`/`sti`
around socket operations are commented out, and whether the kernel patch makes
them exclusive cannot be seen from the repository (hazard at `sock.pc:116`).

**Numbers.** Sequence numbers are offsets from the sender's initial one. Wrap at
2^32 is left out, except for the windows that wrap in practice: `snd_wnd` is a
`uint` decremented by sends and by acknowledgements, and wraps modulo `WinMod`.
A byte is identified by its position in the stream of its writer (`off`),
independently of the number it travels under, so a byte delivered twice or
passed over is seen although the numbers agree. A segment has two lengths, as in
the code: `len`, which the header arithmetic uses, and `dlen`, the bytes between
`_data` and `_tail`.

**Timers** are armed or not; ticks, RTT estimates and backoff lengths are left
out, the backoff count (`shift`) is kept. The retransmit alarm may come at any
time while armed; `Patient` restricts it to moments when nothing is on its way.

**Uninitialized memory**: `kmalloc` does not clear a new TCB and some fields are
read before they are set; `Junk` is the set of contents they may have.

**External code**, modelled from its use: buffer allocation and its room for
data (`SegRoom`), delivery of segments by IP, the users. Assertions are compiled
out (`support.c:35`), so `assert(0)` is a rule that does nothing.

## 4. The Linux TCP

Paths in this section are relative to `src/linuxtcp/control`.

**A socket is a record**, a buffer of the write queue carries its bytes, and a
pointer into the queue is a position in it: 0 is NULL and `Dangling` a pointer
to a buffer that was freed. So what splitting (`atcp_fragment`), joining
(`atcp_retrans_try_collapse`) and freeing (`atcp_clean_rtx_queue`) do to the
stream and to the pointers can be seen. Loops of the code are `Repeat` with a
bound on the number of turns.

**Calls and bottom halves.** A call takes effect when it locks the socket;
`release_sock` handles what came meanwhile. A call that would sleep is made
later instead. The `recvmsg` that only returns a pending error and clears it
(`atcp_base.c:1171`) is left out: `err` says that an error was set, and what can
still be read is read by a later call. A listener accepts its connection at once;
open requests, accept and close of a listener in full are in `AtcpListen`.

**Abstractions**: `rcv_mss` is `Mss`; `SackOk` stands for both options, SACK and
timestamps, and PAWS never discards; window scaling, the window clamp, urgent
data, allocation and routing failures, `sndbuf` and PSH are left out. Both ends
are honest: segments come from the other end of the model. Transmit timers fire
when nothing is under way (`Quiet`), except for `MaxEarly` of them; a keepalive
gives up after `Retries1` probes.

**`AtcpListen`** counts time in ticks. The register is one slot (the code has a
small array indexed by port; with one peer at a time the collisions are the same).
`under` is a ghost that counts how often the slow timer's count of requests fell
without a request leaving. A bottom half that goes through a list (the drain of
the back log, the slow timer) takes one step per entry with nothing in between.

## 5. The compiler

Paths in this section are relative to `src/prolacc`.

**Names.** A Namespace points to a ConcreteNamespace; copying shares the
concrete one, `make_unique` splits it. Pointers are positions in `heap`. The
hash table is modelled to the slot, with its probe sequence and growth, because a
wrong probe or a stale position shows up only as a name that means something
else. Left out: several parents, `using` and `inline`, nesting deeper than one
level, messages. `Aliasing` lets a source rename methods out of a namespace, for
which the promise does not hold (section 8).

**Dispatch.** The analyses are recursive walks, so `work` holds what is left of
one. A body is the list of its calls; the levels of inlining are a set of rules;
constant folding is left out; a field is a size, an alignment and an offset.
Every body is taken to be of more than `inlineTrivialNodeCount` operations: in a
smaller one `resolve5_rule` (`prototype.cc:956`) puts what it calls statically in
place of the calls before the callable analysis, which here always walks the body
of the source. The
order in which the code of a rule is gone through does not matter for what gets
marked, so `pending` is a set. The program that runs remembers the method it is
in and not its callers.

## 6. The runs

| run | bounds that matter | shows |
|---|---|---|
| `window` | MSS 2, 8-byte receive buffer, writes of 7 and 2 bytes, reads of 3, 1 duplicate | `SendWithinWindow`, `PromisedRoom`, `PromiseKept`: nothing beyond the offered window, what is offered is room the socket has, an offer is not taken back |
| `delivery` | 4-byte buffer, 3 bytes written 1 or 3 at a time by the active user, passive user closes at any time, 1 loss, patient alarms, fairness | `AckedIsReceived`, `FinAfterData`, `InFlightIsTimed`; `Delivered`: all that is written is received unless the reader closed |
| `disorder` | one write of 2 bytes, 1 segment overtakes, 1 alarm at each end, as early as it likes, fast retransmission after one duplicate acknowledgement, 1 failed allocation, passive user closes at any time | `SequenceConsumed`: `rcv_next` counts exactly what was consumed; `StreamIntegrity`: a user gets what the other wrote |
| `shutdown` | data both ways, active user closes at any time, no loss, fairness | `FinAckedIsReceived`; `BothCloseEnds` |
| `endpoint` | one end, eleven kinds of segment at any time and in any number, failed allocations without bound | `TypeOK`, `SendOrder`, `TimeWaitEnds`, `FinIsLast`; `EveryTurnCounts`: a turn of the output loop sends something new or settles a request |
| `overlap` (violation) | writes of 1 and 2, 1 alarm | `SequenceConsumed` fails (section 8) |
| `atcp_stream` | MSS 2, 12-byte buffer, Nagle's rule or TCP_CORK, 3 bytes, 1 loss, 1 early timer, one segment under way when a call starts | `StreamIntegrity`, `AckedIsReceived`; `WriteQueueWhole`: the write queue is the unacknowledged stream and the send head is where sending goes on; `InFlightTimed` |
| `atcp_recover` | SACK, 4 one-byte buffers, TCP_NODELAY, 1 loss, 1 duplicate, 1 overtaking | `CountsRight`, `SackedIsHeld`, `NoShrink` |
| `atcp_live` | 2 bytes, 1 loss, half close, two closing users, 1 keepalive probe, fairness | `Delivered`, `ClosedIsGone` |
| `atcp_listen` | 2 interchangeable peers, full and closing queues, 4 death-row slots, 1 RST or ICMP error, 1 request the slow timer no longer counts | `BacklogsCounted`, `RequestTimed`, `TimeWaitEnds`, `TimeWaitLasts`, `RegisterIsHashed` |
| `compile_names` | 2 modules with a nested namespace and implicit methods, 2 operators in 2 expressions, colliding hash codes | `TablesAgree`, `ProbesEnd`, `RefsCount`, `OwnsNested`; `KeepsPromise`: `Namespaces` implements `ModuleOperators` |
| `compile_dispatch` | 4 modules in a tree, all combinations of overriding, exports, bodies, inlining and fields listed in `MCDispatch` | `SelectsByClass`, `SlotsFilled`, `ReceiverCovers`, `SlotsFit`, `CalledIsGenerated` |

Why the bounds are enough. One loss, duplicate or overtaking is enough for what
the properties of a connection tell apart: each relates one byte or one number
at the two ends, and there are few segments. Alarms that come while the original
is still under way are in `disorder` and `overlap` (and, for the Linux TCP, in
`atcp_stream`); in `delivery` and `atcp_live` the timers are longer than the
network. `endpoint` replaces the peer and the network by arbitrary segments and has
no bound on faults. `atcp_recover` needs four buffers: one lost, three that
follow and cause fast retransmission. Two peers are enough for the listener:
one in the queue while another is accepted, cached or in TIME-WAIT; with a full
queue one more is refused. A line of three modules with one beside it has every
relation of classes that binding distinguishes. Other bounds: `MaxWrite`,
`NetCap` (more are dropped), `MaxLoss`, `MaxDup`, `MaxReorder`, `MaxNoMemory`,
`MaxAlarms`; `MaxDupAcks`, `MaxQueue` (`TcpEndpoint`); `Total`, `MaxEarly`,
`MaxKeep` (`AtcpConnection`); `MaxSyns`, `MaxFaults`, `MaxListens`, `MaxUnder`,
`MaxBacklog` (`AtcpListen`); `MaxOperators`, `MaxExpressions` (`Namespaces`).

The bounds also mark where properties stop being true because of the defects in
section 8, or what a run does not exercise:

- `disorder` writes what fits two one-byte segments, so that no retransmission
  overlaps received data in part; `window` has no failed allocation and no alarm.
- The sizes of `shutdown` and `delivery` keep a FIN from being due with the
  window or the congestion window exactly full. There Output loops, and
  `BothCloseEnds` and `Delivered` fail: in `delivery` with `TotalPassive = 1`, for
  one, where after a timeout the congestion window is the segment that is resent
  and the FIN follows it. `EveryTurnCounts` excepts just this case (`FinHeldBack`).
- `InFlightIsTimed` fails, and `Delivered` with it, when an allocation fails;
  `delivery` has none.
- `shutdown` loses nothing, as `fin-wait-2` has no timer, and only one user closes
  before the FIN of the other. With two eager users `FinAckedIsReceived` fails for
  some sizes, and `BothCloseEnds` fails as well: data for a user that has closed is
  answered with a RST, which frees the active end, and the passive end stays in
  `fin-wait-2`. FINs that cross are left to `endpoint`, and so is a close after a
  RST.
- `delivery` writes no more than the receive buffer holds (there is no persist
  timer).
- `atcp_recover` has a receive buffer of 48, from which nothing is pruned, and four
  buffers, none of which is collapsed while `retrans_head` points to it. In
  `atcp_live` the end with the keepalive timer writes nothing.
- `RequestTimed` allows each step that takes a request off the slow timer's count
  without cause (`under`) to cost one request its timer.
- In `compile_dispatch` constructors are called only by the exported static
  method, only the constructor of A is exported, and inheritance is single.

`CHECK_DEADLOCK FALSE` is set in every run because a closed connection, or a
finished compilation, really stops.

**Fairness.** `TcpConnection.FairSpec` (`delivery`, `shutdown`) is weak fairness
of progress: an output loop that can go on does, a segment in flight arrives (IP
either delivers or loses it, and losing is a step of its own), armed timers fire,
users read what has been received. No user has to open, write or close.
`AtcpConnection.FairSpec` (`atcp_live`) is weak fairness of each bottom half,
timer and call that is due; there the users do write, read and close, because
`ClosedIsGone` is about sockets they have closed. Conditions are written out
(`CanProgress`, `MayFire`, `CanWrite`...) where TLC is slow to evaluate
`ENABLED`.

## 7. The proofs

Every theorem holds for all values of the constants that satisfy the named
assumptions of the module it is about.

**`TcpEndpointProofs`** (assumptions `TcbConstants`, `EndpointConstants`:
positive sizes, a window field that fits the modulus, arriving segments with an
integer acknowledgement number): `TypeCorrect`, `SendOrderHolds`,
`TimeWaitEndsHolds`, `FinIsLastHolds`, `EveryTurnCountsHolds`. One inductive
invariant, `IInv == TcbOK(tcb) /\ OutOK(tcb, out)`. `SendOrder` alone is not
inductive: during the output loop of a fast retransmission `snd_next` has been
rewound and the old value will be put back, so `OutOK` says that the saved value
is still between `snd_una` and `snd_max`; and the acknowledgement hook divides by
the congestion window, so the ranges of `cwnd`, `ssthresh` and `snd_wnd` are
needed. For `FinIsLast` it says that the number the FIN was given at close is the
end of the send buffer until it is acknowledged, in every state a closing user
can reach. `EveryTurnCounts` needs one more, `LoopOK`: a loop that is on has a
reason for its next turn (`should-send` holds). Then, reason by reason, the turn
sends a new number or takes the reason away. For each operator of `Tcb`,
`TcpReassembly`, `TcpOutput`, `TcpInput` and `TcpInterface` a lemma says that it
keeps `TcbOK`; the step lemma has one step per action.

**`AtcpListenProofs`** (assumption `ListenConstants`: limits are natural, periods
and slots positive; the set of peers may be infinite): all five properties of the
run. The invariant `HostInv` has five parts, each needed by the others: types
(`HostOK`); the backlogs and the queue (`QueueOK`); the slow timer against the
counts and the time since each kind of event was looked at (`TimerOK`), from
which `RequestTimed` follows, `under` being how far the count may be off; the age
of every bucket against the distance of its slot from the hand and the time since
the hand moved (`RowsOK`), from which both bounds on TIME-WAIT follow; and the
register against the tables and the segments in the listener's back log
(`CountOK` counts what is on the rows).

**`AtcpSockProofs`, `AtcpOutputProofs`, `AtcpInputProofs`,
`AtcpConnectionProofs`** (assumptions `AtcpConstants`, `MaxSacksPositive`,
`ConnectionConstants`: natural numbers, segments of two bytes or more, reads and
writes of at least one): `StreamIntegrityHolds`, `AckedIsReceivedHolds`,
`NoShrinkHolds`, `WriteQueueWholeHolds`, `InFlightTimedHolds`,
`PacketsCountedHolds`, for any segment size, buffers, options, network and number
of faults. The inductive invariant `ConnectionOK` says that each end is new,
listening, in use or gone, what each end has and has read of the other's stream,
and what the segments under way and in the back logs carry. An end in use is
`Shut` (reset and closed) or `Runs`, and for one that runs

- `QueueOK`: the buffers of the write queue follow one another, `send_head` is the
  first that was not sent, `packets_out` counts those before it, and
  `retrans_head` is one of those, none, or one that was freed;
- `HeadOK`: the first buffer is not acknowledged unless it was sent twice;
- `Timed`: the retransmission timer runs only while `packets_out` is positive, and
  then always.

What is received depends on the other end. The proofs of the operators are about
one socket, so what they may take for granted of the other is an argument, the
view (`ViewOK`): the number after the last byte each user has written, whether a
FIN has it, what the other end has received, and whether this end connects and is
past SYN_SENT. Under a view

- `Carries` and `Acks`: a segment that is sent has the bytes of the stream where
  they belong (byte n has the value n), a FIN only at its end, and acknowledges no
  more than was received (a TIME-WAIT bucket, which answers in the socket's place,
  neither);
- `ChainOK`, in `QueueOK`: the buffers of the write queue carry the stream, and
  what is acknowledged was received by the other end (`u <= y.seen`);
- `Come`: the buffers of the two receive queues are pieces of the other end's
  stream, and `rcv_nxt` has not passed its end;
- `InLine`: what was received and not read starts where reading goes on
  (`copied_seq`), leaves nothing out and ends at `rcv_nxt`;
- `HasRead`: what the user has read is the stream from the first byte to
  `copied_seq`, until the socket is closed;
- `Arrives`: the same as `Carries` and `Acks` of a segment under way, in terms of
  the socket it is for.

`ConnectionOK` gives each end the view that the other's state makes true
(`ViewFrom`). A step of one end makes both views wider (`Wider`, `ViewsWider`):
more is written, more is received; and what holds in a view holds in a wider one
(`WiderGood`), which is why an old duplicate does no harm however late it comes.
From this `StreamIntegrity` follows by `HasRead` and `AckedIsReceived` by
`QueueOK`. Two facts of the handshake had to be added: a segment
with a SYN alone never goes to the end that connects (`Reply`), which would forget
its own sequence numbers by it; and the listener has a socket, and is sent
acknowledgements, only when the SYN of the end that connects was answered (`Past`).

`WriteQueueWhole` needs all three: a buffer that is freed, split or joined moves
pointers and counts with it, and a timer that fires resends the head without
a look. While an acknowledgement is processed the three hold for the
acknowledged number and not for `snd_una`, so they take that number as a
parameter (`GoodAt`). `NoShrink` is about steps, and is proved
with the invariant: `Edge` says that one call of the code does not move the
window's edge to the left, and each lemma about a function has a conjunct for it.
There is a lemma for each function of `AtcpSock`, `AtcpOutput`, `AtcpSack`,
`AtcpInput`, `AtcpTimer` and `AtcpBase`; a loop of the code (`write_xmit`,
`xmit_retransmit_queue`, the passes over SACK blocks, out-of-order buffers and
the back log) is an instance of `Iteration`, whose `AfterTurns` turns "each turn
keeps R" into "all turns keep R". TLC checks the consequences of `ConnectionOK` and not
`ConnectionOK`, whose `IsSeq` speaks of sequences over any set.

The attempt showed that `WriteQueueWhole` was too strong as first
stated: that the buffers leave no gap and none of them is acknowledged. With a
segment size of 4, where SACK options leave 3, a buffer that was acknowledged in
part is split when it is resent, and its first part, all acknowledged, stays in
the queue (`atcp_retransmit_skb` before `atcp_clean_rtx_queue`); a collapse that strips a buffer
for its FIN leaves a gap of acknowledged bytes. Neither does harm, as the bytes
are the peer's already. `WriteQueueWhole` now allows gaps and
heads of acknowledged numbers, and nothing else.

**`DispatchProofs`** (assumptions `SourceAssumption`, `SlotAssumption`: a module is
declared once and after its parent, the slots of a module are a finite sequence, each
with a positive size and alignment): `CalledIsGeneratedHolds` and `SlotsFitHolds`.

For `CalledIsGenerated`: when a rule is generated, what its code calls is
marked, but how a call is bound depends on what was inlined around it, so
"everything called from generated code is marked" is not inductive while a rule
is in progress. The invariant says that there is a set of places, closed under
inlining but for those `pending`, that contains the entry of every generated
rule; that whatever is called from its places is marked; and that the running
program is at one of them. That the marks do not change between generation and
execution is `SameBounds`.

For `SlotsFit` the invariant is `LayoutInv`: while modules are laid out, those
before `at` fit or an error was reported; afterwards all fit. `layout2` places the
slots of a module in the gaps its supertypes leave, then looks at neighbours only,
and reports an overlap only when one of the two is a slot of the module itself.
`CheckSuffices` says that this is enough: of two slots that overlap take the
nearest above the lower one, which overlaps it too and is its neighbour; and if
both are of supertypes, they did not overlap when the parent was laid out and have
not moved (`LayoutFacts`). `PlaceNextOK` and `LayoutFacts`, again by `Iteration`,
say that the loop gives each slot a place, within as many turns as there are
slots, and leaves the known ones alone. The lines of supertypes are a recursive
function over the modules; as a parent is declared before its children, a first
module for which a statement fails cannot exist (`LinesExist`, `LineIsSeq`, `AllSlotsFacts`).

What stays with TLC, and why:

- liveness (`Delivered`, `BothCloseEnds`, `ClosedIsGone`): the
  prover has no rules for fairness here;
- the invariants of `TcpConnection`: they are true for the bounds of the runs and
  false for others (`overlap`, section 8), so there is no theorem for every value
  of the constants;
- `Namespaces` and the refinement: name resolution is a RECURSIVE operator, which
  the prover does not handle in any module that uses one;
- `SelectsByClass`, `SlotsFilled`, `ReceiverCovers` need preconditions on the
  source (section 8) that are stated by the choice of sources in `MCDispatch`;
- `SackedIsHeld` of `AtcpConnection` is not a fact of every instance: a receiver
  short of memory throws away what it has reported in SACK blocks (section 8), and
  the run gives it memory enough.
- `CountsRight` is not a fact of every instance: its part `packets_out` is proved
  (`PacketsCountedHolds`), but that `retrans_head` always points into the queue and
  that the counts of retransmitted buffers stay right holds only while no buffer
  is collapsed that they count (section 8), so the run's bounds matter to it.
- `ENABLED`, on which fairness rests, is beyond the prover.

## 8. What the code does that it should not

With a run that shows it (`overlap`): `trim-front` (`oldtcp/linuxtcp/segment.pc:72`) moves the
start of the data and leaves `len`, so a segment that partly overlaps received
data counts its trimmed bytes again: `rcv_next` passes over bytes nobody was
given, and the sender forgets them. It needs segments of different sizes: a
retransmission that carries more than the original, or a last segment that is
retransmitted with its FIN.

Seen in traces while modelling the Prolac TCP:

- A duplicate of a segment that waits in the reassembly queue is freed and then
  linked (`reass.pc:45`, `:82`).
- With the FIN due and the window, or the congestion window, exactly full,
  `should-send` (`output.pc:80`) is true and the FIN is left off
  (`output.pc:282`): Output sends empty acknowledgements until an allocation fails.
- When the FIN of the other end comes in `fin-wait-1`, `do-fin-wait-1` of Fin
  (`input.pc:348`) tests that everything sent is acknowledged, and not that the
  own FIN was sent, as `do-fin-wait-1` of Ack does (`input.pc:328`): the connection
  goes to `time-wait`, and its 2MSL timer runs, with data and the FIN still to be
  sent (`FinAckedIsReceived` fails in `shutdown` with both users in `Eager` and the
  buffer, the congestion window and the writes of `delivery`). `do-closing`
  and `do-last-ack` (`input.pc:329`, `:331`) make the same test.
- A close after a RST reaches the assertion of `mark-close-after` (`tcb.pc:85`).
- `snd_wnd` is decremented when data is sent, and what is in flight is subtracted
  once more by `send-window-avail` (`window.pc:37`, `:128`). With more than half
  the window in flight the next Output takes the window for negative, rewinds
  `snd_next` and cancels the timer: everything is sent again.
- Fast retransmission (`fastret.pc:67`) cancels the timer and counts on Output to
  arm it again; if the allocation fails, data stays in flight untimed. If it fails
  with nothing in flight, data that was written stays unsent, and no timer asks for
  it again.
- `fin-wait-2` has no timer (`timeout.pc:75`); when the backoff is used up the
  connection is left open without a timer (`retrans.pc:60` is a compiled-out
  assertion); the numbers of `rtt.pc:59` are shorts multiplied before they are
  divided.
- `write` after a RST sends data on a closed TCB and arms its timer
  (`intrface.pc:119`).
- A zero-window probe is always dropped with an acknowledgement (`input.pc:192`);
  with no persist timer a lost window update is final.
- A lost SYN-ACK is not sent again on a duplicate SYN.
- The eleventh TCB finds no free slot and exists unregistered (`support.c:84`);
  `tcb_unregister` leaves `myport` in the slot (`support.c:94`).

In the Linux TCP (`linuxtcp/control`):

- A keepalive probe sets `pending` (`atcp_timer.c:240`), and nothing but the end
  of a zero window resets it, so the timer of a closed window is never armed
  again (`atcp_output.c:180`, `atcp.h:456`, `atcp_input.c:1555`), although
  `atcp_base.c:327` says "MUST support probing of zero windows. (does)".
  `Delivered` fails with `Keepers` and a write larger than the peer's buffer
  (`TotalActive = 6`, `WriteSizes = {2}`, `ReadSizes = {4}`, `RcvBuf = 8`,
  `MaxLoss = 1`, `MaxKeep = 1`).
- A FIN that rides on a buffer Nagle's rule held back is sent without a look at
  the window (`atcp_send_fin` against `atcp.h:414`).
- Collapsing may free the buffer `retrans_head` points to; `retrans_out` and
  `fackets_out` are off after splits and partial acknowledgements.
- Stale SACK blocks tag buffers the receiver has thrown away when memory is short.
- Two ends in TIME-WAIT and a state that acknowledges everything answer each
  other for ever (`atcp_input.c:950`).
- A dead socket that enters FIN_WAIT2 by some paths has no timer.
- An acknowledgement that finds the accept queue full (`atcp_ipv4.c:1310`), and a
  close with connections nobody accepted, take requests off the slow timer's count
  that stay, or were off it already: the last request may wait with no timer.

In the compiler (`prolacc`):

- A child that inherits a rule unchanged stops the walk to its own children
  (`node.cc:1632`, `:1683`): an override two levels down is not analysed.
- An exported constructor marks only its own module (`program.cc:150` against
  `node.cc:1652`).
- Rules that are only dispatched dynamically are never marked for generation, so
  only exported ones are generated (against `doc/refman.tex`, on dynamic dispatch).
- An exported rule that the receiver class overrides is not analysed for calls.
- Receiver class analysis skips the children of a rule it met first through
  `super` (`node.cc:1662`): a call is bound statically to the wrong method
  (`SelectsByClass` fails with `Inner = {"D"}`).
- Multiple supertypes abort on an assertion (`module.cc:672`).
- `hide` with a pattern leaves names a match at a later position would hide
  (`globmatch.cc:57`, `HidesMatches`); a rename out of a namespace changes the
  original (`OriginalKept` with `Aliasing = TRUE`).

## 9. Limits: what is not modelled

Byte order, checksums, option parsing (every arriving segment is well formed);
urgent data; lengths of timers, the numbers of RTT estimate and backoff; wrap of
32-bit sequence numbers; routing and binding of ports; SYN cookies. Of the
compiler: lexer, parser, types, expressions, exceptions, slots without a size and
the text of generated C. The Prolac port to Linux 2.2 (`src/linuxtcp/src`), whose README
calls it pre-alpha and says that it does not compile, and its C half, a renamed
copy of the files of section 4 without SACK. `PROJECT.json` gives the reason for
each. TLC checks the instances above and no others.

## 10. Plan

Done: the models, runs and theorems of sections 2 to 7. Next, in this order:

1. Proofs: what the invariant of `AtcpConnection` says of the FIN (nobody reads
   the end of the stream before all of it), which no run checks yet.
2. `Demux`: `tcb_register`, `tcb_unregister` and `tcb_demultiplex` of the Prolac
   TCP over ten slots, with several connections behind a listener.
3. `Rtt`: the shorts of `rtt.pc` and the backoff of `retrans.pc`, with their
   widths; `SeqInt`: circular comparison against the order of unwrapped numbers.
4. The compiler's expressions: exceptions and the order in which a `let`, a
   conditional and a call are evaluated in the generated code.
5. The differences of the Linux 2.2 port in `src/linuxtcp/src` that its sources
   alone determine.
