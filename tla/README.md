# A TLA+ verification of LanceNet

LanceNet is a C++ network library in the style of muduo: one reactor loop per
thread, non-blocking sockets, callbacks, and a multiplexer (`poll`, `epoll` or
`select`) behind an abstract interface. This directory models the library and
the chat room built on it with TLA+, checks small instances of the models with
TLC, and proves with TLAPS, for every value of the constants, the safety
properties of all of them but the conversions of numbers and `Selecter`. Paths below are relative to `src/LanceNet/`. The models follow the
debug build: a failing `assert` ends the process.

## 1. Inventory of the system

| Component | State | Operations | What is hard about it |
|---|---|---|---|
| `net/EventLoop`, `RunInLoopImpl` | `running_`, `exit_`, `pendingFuncs_` under `mutex_`, an eventfd in semaphore mode | `StartLoop`, `quit`, `runInLoop`, `pendInLoop`, `doPendingFunctors` | other threads pend while the loop swaps, runs and reads the eventfd; `quit` against `poll` |
| `net/FdChannel` | `events_`, `revents_`, `index_`, the fd | enable/disable events, `disableAll`, `handleEvents` | life of the fd; fd numbers are reused |
| `net/IOMultiplexer/*` | tables from fds to channels, pollfd vector / kernel list / fd_sets | `updateFdChannel`, `removeFdChannel`, `disableAllEvent`, `poll` | swap-with-last removal, masked records, unchecked `epoll_ctl`, stale bits |
| `net/TimerQueue`, `Timer`, `TimerId` | heap of timers, set of ids, cancelled ids, one timerfd | `addTimer`, `cancelTimer`, `handleTimeouts`, `reset` | re-arming while a timeout is handled, callbacks that add timers, ids taken from a counter that also goes down |
| `net/TcpConnection` | `state_`, output buffer, interest of its channel | `send`, `shutdown`, `handleRead`, `handleWrite`, `handleClose`, `connectionEstablished`, `destoryedConnection` | calls from any thread against the loop; partial writes; half-close; removal through two loops |
| `net/TcpServer`, `Acceptor` | map of connections | `start`, `onNewConnection`, `removeConnection` | the connection lives in another loop than the map |
| `net/EventLoopThread`, `EventLoopPool` | threads, their loops, round robin | `start`, `getNextLoop`, destruction | start-up handshake through a latch |
| `net/TcpClient`, `Connector` | the connection, `next_retryInterval_`, `stop_` | `start`, `restart`, `stop`, `OnRawConnection`, `removeConnection` | no server yet, or one that comes and goes between two attempts |
| `net/Buffer` | a vector and two indexes | append, prepend, retrieve, `readFdFast` | index arithmetic when data is moved or the vector grows |
| `base/BlockingQueue`, `BoundedBlockingQueue`, `CircularBuffer`, `ThreadPool`, `CountDownLatch`, `Thread` | queues, condition variables | put, take, start, stop | lost signals, shutdown |
| `apps/chat/codec` | none of its own: packets in the two buffers of a connection | `encodeToEmptyBuffer`, `OnRawBytes`, `canParseFromArray`, `parseFromArray` | a read brings parts of packets, or several; lengths that are never accepted |
| `apps/chat/server`, `clientConsoleVersion` | set of connections; a connection pointer shared by two threads | broadcast, `OnNewConnection`, `OnDisConnection`, `send` | processes end at any time, connections that are being closed are still sent to |
| `base/numberConvertingAlogo`, `LogStream` | big integers, words scaled by a cached power, the text of a message | Grisu3, Dragon4, `FormatDigits`, `itoa_s` | rounding that must be noticed, quotients estimated from two leading bigits, boundaries of every layout |
| logging, `StringPiece`, protobuf output | | | not modelled: I/O, views of characters, generated code |

How they interact: a loop's thread sleeps in its multiplexer and calls
`FdChannel::handleEvents` of the channels reported; these call the handlers of
`TcpConnection`, `Acceptor`, `TimerQueue` or of the eventfd. The eventfd's
handler is `doPendingFunctors`, which runs what other threads pended. A server
accepts in its main loop, hands the connection to an I/O loop with `runInLoop`,
and takes it out of its map with a functor pended back in the main loop, which
pends the destruction in the I/O loop. The codec sits between a connection's
input buffer and the chat room, whose server sends every message to all of its
connections; a chat client's input thread pends what is typed in its loop. Log
messages are put together by `LogStream`, which converts doubles with Grisu3
and, where that gives up, with Dragon4.

What makes the parts correct:

* **EventLoop**: a pended functor is run once, in order, and no wakeup is lost;
  `quit` ends the loop.
* **Multiplexers**: tables and kernel agree; a poll tells a channel exactly the
  ready events it cares about; no event for a disabled or removed channel, nor
  for an earlier user of an fd.
* **TimerQueue**: the timerfd is armed for the earliest timer; every timer
  expires; ids are distinct.
* **TcpConnection**: output goes out once and in order; the FIN comes after it;
  a connection is closed, removed and destroyed once.
* **TcpServer**: a loop is not used before it exists; a registered channel belongs to a connection that is alive and to the
  fd's present user; start, close and destruction complete.
* **Buffer**: the indexes stay in range and the readable part is what was
  appended and not yet read, whichever way room was made.
* **BlockingQueue, BoundedBlockingQueue**: nobody sleeps while there is
  something for him to do; the capacity is kept; a stopped pool takes at most
  the tasks its workers were already waiting for.

* **Codec**: the messages that come out are those that went in, wherever the
  stream was cut.
* **Chat room**: everybody sees the same conversation, without gaps; the
  server's set is that of the connections it has; a line reaches everybody, and
  a client gets in once there is a server, unless a process ends. A stream on
  which a send has met `EAGAIN` is excepted (section 5).
* **Number conversion**: a text is read as the number it was made from; that of
  a double is the shortest such text and the closest of those; big integers and
  texts fit the arrays that hold them (those of `long` do not, section 5).

## 2. Modules

| Module | Models | State and actions |
|---|---|---|
| `FunctorQueue` | abstract promise of `runInLoop`/`pendInLoop` | a FIFO queue; `Pend`, `Start` |
| `EventLoop` | `net/EventLoop.{h,cpp}` | program counter of the loop, lock, eventfd counter, both vectors; one action per critical section or system call |
| `EventLoopProofs` | | the theorems about `EventLoop` |
| `FdChannel` | `net/FdChannel.{h,cpp}` | the channels of a loop, shared by the three multiplexers |
| `IOMultiplexer` | abstract promise of `net/IOMultiplexer.h` | registered channels, their interest, the last report |
| `Poller` | `Poller.cpp`, `PollerX.cpp` | `fdlist_`, `fdMap_`, `index_`; one action per method |
| `Epoller` | `Epoller.cpp` | `fdMap_`, status, the kernel's list, size of the event list |
| `DefaultIOMultiplexer` | `DefaultIOMultiplexer.cpp` | the choice between `Poller` and `Epoller`, made once; shown to implement `IOMultiplexer` either way |
| `DefaultIOMultiplexerProofs` | | the theorems about `DefaultIOMultiplexer` |
| `Selecter` | `Selecter.cpp` | `fdMap_`, two fd_sets |
| `TimerQueue` | `TimerQueue.cpp`, `Timer.cpp`, `EventLoop::runAt/runEvery` | heap, ids, cancelled ids, timerfd, clock, the steps of `handleTimeouts` |
| `TimerQueueProofs` | | the theorems about `TimerQueue` |
| `TcpConnection` | `TcpConnection.cpp`, part of `TcpServer.cpp` | one connection, its loop, the main loop, other threads, the peer |
| `TcpConnectionProofs` | | the theorems about `TcpConnection` |
| `TcpServer` | `TcpServer.cpp`, `Acceptor.cpp`, `EventLoopPool.cpp`, `EventLoopThread.cpp`, `base/Thread.cpp`, `base/CountDownLatch.cpp` | many connections over several loops; start-up and destruction of the I/O threads |
| `TcpServerProofs` | | the theorems about `TcpServer` |
| `Buffer` | `Buffer.{h,cpp}` | vector and indexes, beside the byte sequence they stand for |
| `Codec` | `apps/chat/codec/Packet.{h,cpp}`, `MessageCodec.{h,cpp}` | the receiver's input buffer (an instance of `Buffer`), the bytes under way; a read, one turn of the loop of `OnRawBytes` |
| `Dragon4` | `base/numberConvertingAlogo/dragon4.cpp` | big integers as sequences of bigits; one step per half turn of its loop |
| `Grisu3` | `grisu3.cpp` | doubles as records, the words of the algorithm; one step per digit; `FormatDigits` on a character buffer |
| `LogStream` | `base/LogStream.{h,cpp}`, `integer2cstr.h` | the text of a message and the conversion under way |
| `SingleThreaded` | | `Buffer`, `Codec` and `LogStream`: the parts that one thread uses at a time |
| `SingleThreadedProofs` | | the theorems about `Buffer`, `Codec` and `LogStream` |
| `ChatClient` | `net/Connector.cpp`, `net/TcpClient.cpp`, `apps/chat/clientConsoleVersion` | client processes: their loop, their input thread, their TCP connection |
| `ChatRoom` | `apps/chat/server`, part of `net/TcpServer.cpp` | the server process with its clients |
| `ChatRoomProofs` | | the theorems about `ChatRoom` |
| `BlockingQueues` | `base/BlockingQueue.h`, `base/BoundedBlockingQueue.h`, `base/Condition.cpp`, `base/ThreadPool.h` | a queue of either kind, producers, and consumers that are the workers of a pool |
| `BlockingQueuesProofs` | | the theorems about `BlockingQueues` |

`MC*` modules give the constants values for TLC. `Mutant_X`, defined in front of
`X`, is `X` as a plausible bug would have it; it shows that the properties
notice.

Conventions: `status` says what ended the process (an assert, an exit in a
wrapper of a system call); nothing happens after it is set. `external` marks
the kernel or the peer. A user's callback is a phase in which calls of the
library may be made any number of times before it returns.

`EventLoop`: `Quit`, `PendLocked` and `PendWrite` are the steps of a caller
(store `exit_`; push under the lock; write the eventfd and unlock).
`SwapFunctors`, `RunFunctor`, `FunctorsDone` and `readEventfdOnce` are those of
`doPendingFunctors`. `Poll` returns any non-empty set of ready channels that
holds the eventfd's channel if the eventfd is readable.

`TcpConnection`: a message is two units long, so that a write can take none,
one or both of them. The two queues carry the functors pended in the
connection's loop and in the main loop; that a queue is FIFO and loses nothing
is what `EventLoop` shows. `sameLoop` says that the server has no I/O threads.
The input buffer is left out.

`TimerQueue`: `RunFunctor` and callbacks may come between `Poll` and
`HandleTimeouts`, as the loop handles other channels, the eventfd among them,
first. Time saturates at `MaxTime`, which stands for every later time.

`TcpServer`: the steps of the main thread and of the I/O threads in
`Thread::start` and `EventLoopThread::StartLoop` are separate up to the two
latches. A connection is its life-cycle alone (what happens inside it is
`TcpConnection`'s subject); a loop has a queue of functors, a set of registered
channels, and the one-second timers that hold destroyed connections. The
kernel gives out any closed descriptor. The user ends the server at any time
while its loop runs.

`Buffer`: one action per public operation with its assertions as guards, bytes
as members of a small set. `readFdFast` splits what the kernel returns between
the vector and the extra stack buffer as the code does.

`DefaultIOMultiplexer`: the tables of the multiplexer that was not chosen stay
empty. `select` is left to `Selecter`, since it does not implement the
interface.

`Codec`: bytes have a few values and an `int32_t` a few bytes, so that a length
is computed digit by digit as `htonl` and `ntohl` do. `Encoded` packs into a
fresh `Buffer`, as `send` does; `Read` takes any number of the bytes under way
with `readFdFast`. What protobuf makes of a name and a payload is external.

`Dragon4`, `Grisu3`: the widths are constants (a bigit's, a significand's, an
exponent's, a word's, the range of the cached powers), and the algorithms are
written for any of them. A conversion runs in the steps of its loops, so that
the asserts in them are checked on every number. Big integers are sequences of
bigits, and `Capacity` is the length of the array that holds them in the code:
`Dragon4Asserts`, `DivModAsserts` and `AssignAsserts` ask for room wherever the
code does (`base/numberConvertingAlogo/dragon4.cpp:102` to `390`), and
`FallBackAsserts` and `Grisu3Asserts` are the remaining asserts, with the limits
of the small format in place of 53, -1074, 971 and their like. Left out are
those that the model cannot break, on the signs of sizes and shifts and on the
lengths of the groups that `PrintDecimalDigits` cuts off. `CallDragon4` converts each
double by Dragon4 as well, not only those that Grisu3 leaves to it. The table
of cached powers is computed (`kSignificand`: the nearest significand) and not
listed. Functions stand for loops, and nothing is declared `RECURSIVE`.

`LogStream`: an operator for integers is a width, a sign and the length of its
local array (`IntegerTypes`). `InsertInteger` is for the integers whose text
fits, NUL included; `OverrunInteger` is the write past the end of the array that
any other integer causes.

`ChatClient`, `ChatRoom`: processes are `new`, `running` and `ended`, the server
`up` and `down`. `conn` is a `TcpConnection` reduced to three states, with
`closing` between `handleClose` and `destoryedConnection`. The client's
functors are a queue that two threads fill; a whole event of the server is one
action, since it has one loop. A process that ends takes its connections with
it and may lose what is on their way. `write` to a connection whose other end
has gone succeeds, or it fails and ends the writer (`handle_error`), or it takes
a part of the packet, and enabling the disabled channel for the rest ends the
writer too (`net/IOMultiplexer/Poller.cpp:76`); a server ends in the middle of a
broadcast. What waits in the writer's `outputBuffer_` counts as on its way, so
the end of a process may cut a stream anywhere.

Any send may meet `EAGAIN`, which puts a stray byte in front of its packet
(`net/TcpConnection.cpp:94`). That byte is the header space of a `Buffer` or the
end of a small heap block's size, a 0 in either case. `OnRawBytes` then reads the
packet's length without its last byte and looks a type name up one byte too
early. As a rule nobody has that type, and the null pointer is dereferenced: the
process ends (`Misread`, the first alternative of `ReadStray`). If only a part of
the packet has come, the name can be one that an earlier packet left in the
buffer's memory: a message that nobody sent is handled (`Garbled`, the second
alternative), and what is read next as a length is above `UINT16_MAX`, so that
nothing is parsed any more (`misread`). Nothing behind a stray byte is ever what
was sent: a stream with one (`strays`) takes no more messages.

`BlockingQueues`: a thread is outside, wants the lock, waits on one of the two
conditions, or runs a task. A critical section is one action. `bounded` says
which of the two queues it is. Waits may end spuriously.

## 3. Runs

| Run | Shows | Instance |
|---|---|---|
| `event_loop` | who holds the lock, the eventfd accounting, no lost wakeup, no failing read, order, `quit`, refinement of `FunctorQueue`, and that functors run and `quit` ends the loop | 2 threads and the loop, one other channel, 5 functors |
| `multiplexers` | tables (and the kernel's list) agree, an assert fails only for a disabled channel that was updated, refinement of `IOMultiplexer`, for `Poller` and for `Epoller` | 4 channels on 3 fds, one fd reused, limit at the last fd, event list that starts with one slot |
| `timer_queue` | timerfd armed for the earliest timer; every timer expires | one repeating and one one-shot timer, 4 moments, 2 functors |
| `tcp_connection` | interest equals waiting output, order, life-cycle asserts, FIN after output, close completes | 2 threads, 2 messages, with and without I/O threads |
| `server` | loops ready before use, descriptors and lifetimes, and that start, closes and destruction complete | no or 3 I/O threads, 4 connections, 2 fds |
| `single_threaded` | buffer: indexes in range, content equals the reference, room for the header; codec: messages come out in order; numbers: no assert, integers and decimals are read back, doubles are shortest and closest | initial size 1 behind a header of 2, extra buffer of 2, at most 4 readable bytes; 4 messages, 3 per connection, one too long; doubles of 6 bits of significand and 5 of exponent, words of 13 bits, bigits of 4, big integers of 32 bits, integers of 4, 8, 11 and 12 bits with arrays of 5 and 10 characters, 11 digit strings, the longest of them above `UInt32Max`, with 41 exponents |
| `chat_room` | one conversation, the server's set, lines arrive, clients join | 2 clients that type 2 lines and 1, kill and restart of the server at any time, 2 streams with stray bytes, limit of the retry interval half a second |
| `queues` | capacity, no lost signal, what a stopped pool still takes; items are taken | 2 producers, 2 consumers, capacity 2, 3 puts |
| `selecter_stale` | violated: events no longer cared about are reported | 3 channels on 2 fds |
| `timer_ids` | violated: the assert on the two sizes | as `timer_queue`, 3 moments |
| `tcp_disabled` | violated: the assert on a disabled channel | 1 thread, 1 message |
| `tcp_fin` | violated: the FIN that should follow the last output | 1 thread, 1 message |

Why the bounds are enough to be interesting. Five functors let both threads and
a functor pend while a batch is run, leave a wakeup over from an earlier round
and quit on top. Three fds are what a removal from the middle of the vector
needs, and the fourth channel reuses an fd. One slot makes the event list too
small for two ready fds, and lets it grow. Two timers are enough for an id to be
given out twice and for an earlier timer to overtake. Two messages and two
threads let a partial write meet a second message from another thread and two
`shutdown()`s race. Three I/O threads make the round robin wrap with four
connections, and two fds make every later connection reuse one; no I/O thread
is the case in which everything happens in the main loop. A capacity of two,
with two threads on each side, lets two signals be outstanding at once. The
small buffer is full, empty, movable and too small within a few calls. The
packets are cut at every byte, also inside their lengths, and the payloads look
like lengths. The small number formats keep the proportions of the code's (a
word has the spare bits Grisu3 asks for, the table's range covers the exponents,
a significand takes two bigits) while every double, subnormal and
boundary ones included, is converted by both algorithms: Grisu3 fails on some,
Dragon4's estimate is wrong on some, a trial quotient is corrected, and a
remainder is added back, which the comment at
`base/numberConvertingAlogo/dragon4.cpp:555` expects of contrived inputs only.
Bigits of 4 bits leave division by a single bigit (`DivModShort`) out: with
`BigitBits = 8` and `MaxPow5 = 3` the instance reaches it, but no longer the
adding back. Big integers have just the bits they need: with 28 instead of 32
`NumberAsserts` is violated. The largest ones come from the smallest doubles; 27
bits make 7 bigits, and a division appends one, as in the code 1082 bits make 34
and one more, of the 36 that 1130 bits fill. The text of 11 signed bits overruns
its array for the numbers below -999, as that of a `long` does; every other type
has the room it needs. Two clients are enough for two orders of joining and for one that
ends while both are sent to; two lines keep their order, and a server that has
gone and come again meets a client that is still retrying and one that is not.
Two stray bytes are one in both directions of a connection, or in the streams of
two clients at once. The retry interval says when an attempt is made and not
what it does, and no property depends on it: its limit is the first interval.
`CHECK_DEADLOCK FALSE` is used where the process, the loop, the server or the
pool may end.

Fairness. `EventLoop`: the loop's thread is scheduled and callbacks return; a
thread inside `quit()` or holding the lock goes on; `poll` must return only when
the eventfd is readable. `TimerQueue`: the loop is scheduled and time passes.
`TcpConnection`: both loops are scheduled; `poll` must return once the peer has
gone (the fd is then readable for good), and reading reaches the end of the
stream in the end (strong fairness of `HandleClose`: the peer sends nothing
more, so the data that `HandleReadData` can still find is finite).
`TcpServer`: every thread runs; a loop that is running handles its functors,
timers and reported closes (a round handles every reported channel, and level
triggering reports it again). `BlockingQueues`: a thread that was signalled or
wants the lock gets on, and tasks return; nothing makes a producer put. `ChatRoom`: both kinds of loop handle what is there,
a retry timer expires, and an input thread inside `send()` goes on; nobody has
to start a process, to type, or to end one. No fairness is assumed of users or
peers.

## 4. Proofs

`EventLoopProofs` proves for any sets of threads and channels and any number of
functors:

* `TypeCorrect`: `TypeOK` is an invariant; it is inductive by itself.
* `Invariant`: the inductive invariant `IInv`. `NoLostWakeup` is not inductive:
  whether a sleeping loop has a readable eventfd depends on what the previous
  round left. The strengthening is `EventfdCovers`: the counter is at least the
  number of queued functors, less the one whose `pend` still holds the lock,
  plus one for the round under way, which its final read takes. It needs
  `LockIsHeldOnlyInPend` (the lock is held by exactly the caller that is about to write)
  and `BatchOnlyInRound` (the local vector is empty outside a round).
* `LockTheorem`, `NoLostWakeupTheorem`, `EventfdReadTheorem`, `ExactlyOnceTheorem`,
  `QuitWakesTheorem`: the safety properties of the run, from `IInv`.
* `RefinementTheorem`: `EventLoop` implements `FunctorQueue`, with the batch
  followed by the queue as the abstract queue. Pending appends, starting a
  functor takes the head, everything else stutters.

Assumptions: the loop's thread is not one of the others, and the two names
"free" and "eventfd" are no thread and no channel.

`SingleThreadedProofs` first shows that each part of `SingleThreaded` behaves as
its own specification (`BufferPart`, `CodecPart`), since only one of them moves
at a time. Of `Buffer` it proves for every initial capacity, header size and
byte set that the indexes stay in range (`IndexesInRangeAlways`), that the
readable part is the reference content (`ContentIsReadableAlways`) and that the
header can be prepended (`PrependRoomAlways`). The invariant needs to be stronger
in two places: the vector is larger than the header, and a buffer with nothing
to read is back at its starting indexes (`StartsOver`). What an operation does to
single bytes is stated once, in lemmas about `ensureWriteableSpace`, `append`,
`preappend` and `hasRead`, and the actions follow from them.

Of `Codec` it proves `PacketsComeOutAlways` (`PacketsComeOut`) for any messages,
any numbers of bytes in an `int32_t` and of values of a byte, and any buffer
sizes. The inductive invariant (`CodecInv`):

* the unread bytes followed by those under way are the packets of the messages
  not yet received, one behind another (`InStream`, by an array of the places
  where each packet begins), wherever the last read cut them;
* what was received is the beginning of what was sent;
* a receiver outside of its loop is short of bytes (`Waits`): it stopped because
  there is no whole length, no whole packet, or a packet longer than it accepts;
* its input buffer satisfies the invariant of `Buffer`.

Below it are three facts about the bytes of a packet. `ntohl` gives back what
`htonl` was given (`NumberReadsBack`): a number below the base to the p is the
sum of its p digits, by induction on p. The library's induction theorems cannot
be used, so the lemma takes the least p for which it fails (`LeastOf`, from the
well-foundedness of the natural numbers) and shows that p - 1 fails already.
`Packed` is the length, the length of the name, the name with its closing 0, and
the payload with the checksum (`PackedFacts`, `EncodedIsPacked`), though `send`
writes the length last, in front of the rest. And `parseFromArray` gives back
the message of a complete packet, with whatever bytes follow it (`ParsedIsSent`).

Of `LogStream` it proves `TextReadsBackAlways` (`TextReadsBack`): numbers are read
back from their texts. `LogInv` says that a text stays what `itoa_s` or
`FormatDigits` made of it.

* The text of any integer but 0, of any width, is its decimal numeral, unless it
  overran the array that its operator has for it. By
  induction on the magnitude (`NumeralFacts`), with quotients and remainders that
  round towards 0.
* A decimal of up to 17 digits is the number that its text shows. The groups that
  `PrintDecimalDigits` cuts off are the numeral of the digits, as long as
  `DecimalLength` says (`DecimalDigitsFacts`, `DecimalLengthIs`). Each layout of
  `FormatDigits` puts them between zeros, with the point or the exponent in place
  (`LeadingZeros`, `PointWithin`, `TrailingZeros`, `Scientific`), which is what
  `Shows` says of a text; a reader that splits the text at "e" and "." gets the
  decimal back (`DecimalIsRead`).

`BlockingQueuesProofs` proves for any sets of producers and consumers and any
capacity: `WithinCapacityAlways`, `ItemsAreCoveredAlways`,
`PlacesAreCoveredAlways` and `StopsSoonAlways`. A signal wakes one thread only,
so "there are items and a sleeper" does not tell whether a signal was lost. The
invariant counts: while somebody sleeps, the threads awake on their way to the
test are at least as many as the items (or the free places). It needs to know
that nobody waits for room in an unbounded queue and that only a pool is stopped
(`KindInv`), and that a worker that took a task after the stop is on its way out
(`LateInv`).

`DefaultIOMultiplexerProofs` proves for any channels, any fds (several channels
may have the same, one at a time) and any readiness:

* `TablesStayInAgreement` (`TablesAgree`): `Poller`'s vector, its map and the
  channels' indexes, or `Epoller`'s map and the kernel's list, agree. The
  invariant (`PollTables`) says that the indexes number the vector without gaps,
  so that the record of each registered channel is its own or its masked form
  (`-fd - 1`), and that the vector is as long as the map.
  The swap-with-last removal keeps it because the record that moves is found
  again by its fd. `EpollTables` says that the kernel's list is that of the
  channels with index 1.
* `OnlyDisabledChannelsAbort` (`AbortsOnlyForDisabled`): every reported fd finds
  its channel, and the only assert that can fail is the one a disabled channel
  runs into that is updated again: at once in `Poller`
  (`net/IOMultiplexer/Poller.cpp:76`), and in `Epoller`, whose `EPOLL_CTL_MOD`
  fails unnoticed, when the channel is removed
  (`net/IOMultiplexer/Epoller.cpp:98`). `tcp_disabled` shows the caller that
  does it. The theorem is for fds up to `FdLimit`, the size of the array that
  `PollerX` has instead of a hash map. It asserts the bound itself
  (`net/IOMultiplexer/PollerX.cpp:66`); the run has an fd at the bound.
* `BothImplementTheInterface` (`Refines`): each step of either multiplexer is a
  step of `IOMultiplexer` or stutters, under the mapping `registered`,
  `interest`, `reported`.

`TimerQueueProofs` proves `TimerfdIsArmedInTime` (`ArmedForEarliest`) for any
timers, delays and intervals. That the timerfd is armed for the earliest timer
is inductive only together with where each timer is (`Places`: a pended functor,
the queue, or taken out by `handleTimeouts`, and never its memory reused before)
and with the reverse (`AlarmInv`: an alarm and a readable timerfd stand for some
timer in the queue, which makes the round that follows re-arm it).

`TcpConnectionProofs` proves for any threads and any number of sends, with and
without I/O threads:

* `OutputIsWatched` (`WritingIffOutput`), `FinComesLast` (`FinAfterOutput`).
* `LifecycleIsRight` (`LifecycleAsserts`). The invariant `Stages` lists the
  stages of a connection (`Waiting` for its loop, `Establishing`, `Up`,
  `Closing`, `Destroying`, `Removed`) with what is pended in either loop in each
  of them: one destruction and one removal, ever. `Places` says that a single
  loop puts the connection into the map before it can close it.
* `OutputIsInOrder` (`InOrder`): the socket's units followed by the buffer's are
  the accepted messages, each once, whole and in order. It needs `NewSends`: a
  pended send's message is pended once and has not been accepted before.

`TcpServerProofs` proves for any finite set of thread counts, any descriptors
and any number of connections: `LoopsAreReady` (`LoopsReady`),
`ChannelsOwnTheirFds` (`ChannelsOwnFds`), `ConnectionsAreKeptAlive`
(`KeptAlive`). `StartInv` orders the two latches. `FunctorsExpected` says what is
true of a connection while each kind of operation on it is pended, `OnePending`
that at most one is, `StagesInv` that a connection whose channel is enabled is
in the map (or about to be), and that a registered but disabled one is held by
a functor; two connections on one fd are not both alive. After `~TcpServer`
connections are no longer the server's, and only the types and the start-up are
claimed.

`ChatRoomProofs` proves for any clients, any numbers of lines and any retry
limit: `RosterStaysRight` (`RosterIsRight`) and `ConversationIsTheSame`
(`SameConversation`), with any number of stray bytes. The second says without
condition that what a client has seen is a run of the log from its joining on; that
nothing is missing at its end, only of clients with no stray byte on their way.
The invariant follows a line from the keyboard to every
screen: lines in the log are before those on the way to the server, which are
before those pended in the client's loop (`LinesInv`); a garbled message is under
a name of its own and comes once from each client, which is `misread` then
(`GarbledOnce`); what a client has seen
with what is on its way is a run of the log that began when it joined and, while
it is in the room, reaches the log's end (`RunInv`); nothing follows the end of a
stream (`StreamInv`); a client waits to be accepted, or for its destruction, once
(`RosterInv`); one that has never been connected has left no trace (`FreshInv`).

Assumptions besides those on types: the names of `EventLoop` above; bytes that
are natural numbers, 0 among them, names of messages without a byte 0 (they are
C strings), packets whose length fits an `int32_t` with its sign, decimals of up
to 17 digits whose text has an exponent of up to three, and a `UInt32Max` that
nine digits fit in; producers that are not consumers and a capacity above zero;
an event list and a retry interval that start above zero; clients that are not
named like the author of a garbled message (`GarbledAssumption`); finite sets of thread
counts, descriptors, producers and consumers; the `FdLimit` of
`OnlyDisabledChannelsAbort`.
No theorem limits what the runs bound (`MaxSends`, `MaxConns`, `MaxTime`,
`MaxFunctors`, `MaxLines`, `MaxStrays`, `MaxPend`, `MaxPuts`): they may be any numbers.

Only model-checked:

* Liveness (`EveryFunctorRuns`, `QuitEndsLoop`, `EveryTimerExpires`,
  `CloseCompletes`, `EveryItemTaken`, `StartReturns`, `EveryCloseFrees`,
  `DestructorReturns`, `EveryLineArrives`, `EveryClientJoins`): fairness is
  outside the prover's reach.
* Two properties of numbers, `NumberAsserts` and `DoublesAreShortest`. The
  asserts of `Dragon4` and `Grisu3` and the choice of the shortest digits hold
  because of an analysis of errors over powers of two and ten, with the sizes of
  one format; the provers know neither powers nor the division that such an
  analysis needs.
* What the violation runs refute has, of course, no proof.

## 5. Where the code departs from its own words

Four are shown by violation runs (`findings` in `PROJECT.json` quotes the lines):

* `handleWrite` shuts down only in `kDisConnected`, so no FIN follows the output
  that was waiting when `shutdown()` was called (`tcp_fin`).
* A send pended before a close runs while the channel is disabled and the state
  still `kConnected`; it trips the multiplexer's assert (`tcp_disabled`).
* `~Timer` decrements the counter that ids come from, so ids are given out twice
  (`timer_ids`).
* `Selecter::updateFdChannel` never clears a bit (`selecter_stale`).

The models contain these behaviours too; the properties are stated so that they
are allowed:

* On `EAGAIN` `sendInLoop` queues the byte in front of the message too
  (`Remainder`, `net/TcpConnection.cpp:94`); `InOrder` sets it aside. In the chat
  room it is fatal: the receiver ends, or goes deaf while both processes live on
  (`Misread`, `ReadStray`). `SameConversation` then claims nothing of what is
  still to come on that stream, and `EveryLineArrives` nothing of lines that
  have to pass it.
* A message sent by a thread that then calls `shutdown()` is dropped if it is
  still pended; `shutdown()` can set `kDisConnected` back to `kDisConnecting`.
* The id of a cancelled timer is never forgotten and stops a later repeating
  timer that gets it (`Reset`).
* A timer that expires while its creator is inside `runAt()` trips the assert on
  `use_count()`; a timer added between `poll` and `handleTimeouts` re-arms the
  timerfd and its read ends the process; `runAt` adds the delay twice.
* `Selecter` reports a readable and writable channel as writable only.
* `BoundedBlockingQueue::take` returns the element through a reference that
  dangles after the pop, which the comment at `base/BlockingQueue.h:47` calls
  wrong; the model is of items without a destructor, as in every use of the
  queue in the repository.
* `ThreadPool::stop` clears `running_` and wakes nobody: a worker that sleeps in
  `take` stays there.
* `accept4` without a free descriptor ends the process.
* `CountDownLatch::countdown` notifies one waiter; every latch in the library
  has one.
* `Buffer::findEOL(start)` ignores its argument, and `swap` exchanges neither
  the header size nor the initial size.
* A signal ends a process that uses `Epoller` or `Selecter`.
* `canParseFromArray` refuses a length above `UINT16_MAX` for ever, and the
  sender does not check it: such a packet stays in front of all that follow
  (`TooLong`). A message of an unknown type is a null pointer that is
  dereferenced; messages are never freed. The checksum's place is computed from
  the end of what is readable and not of the packet; nobody reads it.
* `ChatClient::send` asserts that there is a connection and then uses a pointer
  that the loop resets; the header calls it MT-safe
  (`apps/chat/clientConsoleVersion/chat_client.h:33`). A line typed then ends the
  client. A client does not connect again after it has been disconnected.
* A write that fails ends the process, so one client that goes away with a reset
  can end the chat server and everybody's conversation (`OnMessageFails`).
* `Connector::started_` is asserted to be false and never set: a second
  `start()` would make a second chain of attempts.
* `operator<<(long)` gives `itoa_s` a `char buf[16]`, which the text of a 64-bit
  `long` overruns when, with its sign, it has more than 15 characters
  (`OverrunInteger`, `base/LogStream.cpp:46`); `long long` has 32. "The invoker
  have the responsible to allocated enough buf memory", says
  `base/numberConvertingAlogo/integer2cstr.h:8`. `TextReadsBack` claims nothing
  of such a text.
* `itoa_s(0)` is the empty text.
* `DivMod` stores back the bigit it has just read and not the difference
  (`base/numberConvertingAlogo/dragon4.cpp:535`); the size is cut so that it is
  never read.
* `FormatDigits` asserts that the exponent is at most 999; with more than one
  digit the exponent of the text can then have four, which `Utoa_2Digits` refuses
  (`SingleThreadedAssumption` leaves these out; the largest double has 308).
* `base/LogStream.h:18` names Ryū; the algorithms are Grisu3 and Dragon4.

## 6. Not modelled

The filter and the output of `Logging` and the pointer operator of `LogStream`;
`StringPiece` and what protobuf does with a payload; generated code;
`CircularBuffer`, which only a deprecated thread pool uses; the deprecated
servers, benchmarks and tests; fds at or above `FD_SETSIZE`; a system clock that
is set back while the timerfd's goes on; a signal's arrival outside of the
system calls modelled; the lifetime of connections beyond the map (raw `this`
in `shutdown()`). The conversion of numbers is checked with small widths, not
with those of the code: TLC's integers end where a `uint32_t` is half full, so
the run cuts groups of eight digits off above `UInt32Max` = 999999999, the least
value at which the rest of 17 digits still fits. `force_trailing_dot_zero` is
false in every call.

## 7. Plan

Done: `EventLoop` with its abstract queue, the multiplexers with theirs and the
choice between them, `TimerQueue`, `TcpConnection`, `TcpServer`, `Buffer`,
`BlockingQueues`, the codec, the chat room with `TcpClient` and `Connector`, the
conversion of numbers.

Proved: every safety and action property of the passing runs and the two
refinements, except two that are about numbers (section 4 says why).

Next, in this order:

1. Proofs: the asserts of a single step of `Dragon4` and `Grisu3`.
2. `TimerQueue` with the two clocks it reads.
3. The lifetime of a connection whose `shutdown()` is pended.
