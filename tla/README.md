# opentls: a TLA+ verification project

opentls is a TLS/DTLS library and its cryptographic toolkit, a renamed descendant
of OpenSSL 3.0-dev (`ssl` became `tls`, `SSLfatal` became `tlsfatal`). This
directory models the parts of it whose correctness depends on the *order* of
things: what a network that loses, repeats, delays and reorders datagrams does to
a DTLS connection, what interrupted writes, expired timers and renegotiations
do to its state, how the two sides of a TLS 1.3 handshake go together, and what
threads and forks do to the session cache and the random generators. The modules are checked with TLC on small instances, and the main
safety properties are proved with TLAPS for every value of the constants.

Paths below are relative to `src/`.

1. [Inventory](#inventory)
2. [The modules and the code](#the-modules-and-the-code)
3. [The runs](#the-runs)
4. [The proofs](#the-proofs)
5. [Disagreements between code and comments](#disagreements-between-code-and-comments)
6. [What is not modelled](#what-is-not-modelled)
7. [Plan](#plan)

## Inventory

### Components, their state and their operations

| component | source | state | operations |
|---|---|---|---|
| DTLS anti-replay window | `ssl/record/dtls1_bitmap.c` | a word of bits, the greatest number seen | check, update |
| DTLS record layer, receiving | `ssl/record/rec_layer_d1.c`, `ssl3_record.c`, `ssl/pqueue.c` | read epoch, two bitmaps, three queues of records, the read buffer (the rest of a datagram), the current record, `alert_count` | `dtls1_read_bytes`, `dtls1_get_record`, `dtls1_process_buffered_records`, `dtls1_buffer_record` |
| DTLS record layer, sending | `rec_layer_d1.c`, `ssl/d1_msg.c` | write epoch, the counters of three epochs, the write context, a pending alert | `do_dtls1_write`, `dtls1_dispatch_alert`, `dtls1_reset_seq_numbers`, `set_saved_w_epoch` |
| retransmission | `ssl/statem/statem_dtls.c`, `ssl/d1_lib.c` | `sent_messages`, timer, `num_alerts` | buffer a message, start/stop the timer, `dtls1_handle_timeout`, retransmit |
| fragmentation | `statem_dtls.c` (`dtls1_do_write`) | `init_buf`, `init_off`, `init_num`, `w_msg_hdr` | write a message that was constructed or is sent again, resume, shrink to a new MTU |
| reassembly | `statem_dtls.c` (`dtls_get_message`) | `handshake_read_seq`, `buffered_messages` with their bitmasks | buffer, reassemble, retrieve, drop, refuse |
| handshake state machine | `ssl/statem/statem.c`, `statem_clnt.c`, `statem_srvr.c`, `statem_lib.c` | message flow, read and write sub-states, `hand_state` | read and write transitions, pre- and post-work, finish |
| `DTLSv1_listen` | `ssl/d1_lib.c` | none of its own (the cookie carries it); counters it leaves behind | verify a cookie, answer with HelloVerifyRequest |
| TLS record layer | `ssl/record/rec_layer_s3.c`, `ssl3_buffer.c` | buffers, pending write, pipelines | partial reads, write retries |
| alerts, shutdown | `ssl/s3_msg.c`, `ssl/ssl_lib.c` | `shutdown` flags, pending alert | send, receive, `tls_shutdown` |
| session cache | `ssl/ssl_sess.c` | hash table, age list, reference counts | add, look up, remove, expire |
| TLS 1.3 extensions | `ssl/statem/extensions*.c` | `early_data`, `hello_retry_request`, `hit`, `post_handshake_auth` | accept or reject early data, ask for another ClientHello, resume |
| random generators | `crypto/rand/drbg_lib.c`, `rand_lib.c` | a master DRBG, a public and a private one for each thread; state, counters, fork id | instantiate, reseed, generate, restart, `RAND_add`, `RAND_bytes` |
| BIO pair, ASYNC jobs, error queue, secure heap, hash table, providers | `crypto/…` | see the plan | see the plan |
| primitives, ASN.1, X.509, CMS, apps | `crypto/…`, `apps/…` | none that a protocol model is about | arithmetic, parsing, I/O |

### How they interact

An application calls `tls_read`, `tls_write`, `tls_do_handshake`, `tls_shutdown`
or `DTLSv1_handle_timeout`. During a handshake the state machine runs: its
reading half asks reassembly for a message, which asks `dtls1_read_bytes` for
handshake records, which takes them from its queues or from the network; its
writing half constructs a message in `init_buf`, keeps a copy in
`sent_messages`, and sends it with `dtls1_do_write`, which cuts it into
records. ChangeCipherSpec moves an epoch on: the receive side swaps bitmaps, drops
buffered messages and, once the datagram is used up, processes the records that
came early; the send side resets its counters and changes its context. The timer
(checked by each read, and by the application) sends `sent_messages` again, each
message under the epoch and context it first had. A connection runs in the calling
thread, but any call can stop in the middle (non-blocking I/O) and another call
can come before it is resumed.

Connections meet in two places. Those of one `tls_CTX` share its session cache:
a ClientHello looks a session up, NewSessionTicket or the end of a handshake adds
one, a fatal alert removes it, all under one lock, but with a session shared between
two locked regions. And all threads of a process share the master DRBG, from which
each thread's own DRBGs are seeded, and which they ask, without its lock, whether it
has been reseeded.

### What is hard, and what makes it correct

| hard behaviour | correct means |
|---|---|
| a record passes the replay check, waits in a queue, and is processed later | no record is handed over twice (`NoReplay`) |
| three queues, two epochs, a datagram half read | the records of an epoch meet its bitmap and its keys (`BufferedHaveBitmap`, `HandshakeInEpoch`), queues stay bounded (`QueuesBounded`), nothing waits for ever (`BufferedGetProcessed`) |
| application data overtakes the Finished | it waits for it (`AppDataAuthenticated`) |
| a retransmission goes back one epoch and returns | no record number is used twice (`NoReuse`), and an epoch has one key (`OneKeyPerEpoch`) |
| contexts are shared by buffered messages and freed with one of them | nobody uses a freed one (`ContextsAlive`) |
| ChangeCipherSpec has no message number | a flight is kept whole and in order (`FlightKept`) |
| the peer never answers | the connection gives up (`GivesUp`) |
| fragments in any order, overlapping, contradictory | a message is handed over whole or not at all (`MaskExact`, `DeliveredWhole`), within bounds (`BufferBounded`), and in the end (`HandshakeEnds`) |
| a write fails between or inside fragments, headers written over sent bytes | the fragments are the message (`FaithfulWhileSameMtu`, `CoveredWhileSameMtu`), the hash gets it once and in order (`HashedWhileSameMtu`), nothing outside the buffer is touched (`WithinBuffer`), the message goes out (`MessageGoesOut`) |
| a timeout between two attempts sends other messages through the same `init_buf` | each starts at its beginning (`NotTheFirst`), and the one that was interrupted goes on (`RestartsWhereLeftOff`): neither holds |
| two TLS 1.3 state machines with early data, HelloRetryRequest, compatibility mode and client certificates; keys change at different messages | neither side fails the other (`NeverFails`), nothing goes out under the wrong key (`Protected`), early data arrives exactly or not at all (`EarlyDataExact`), both agree (`Agreement`) and finish (`HandshakeEnds`) |
| KeyUpdates, tickets, data and requests for certificates cross after the handshake | a request for new keys or for a certificate is answered (`UpdateAnswered`, `RequestAnswered`), and one at a time (`OneRequest`) |
| threads find, remove, evict, flush and replace the same session | it is freed when the last one is done with it (`RefsExact`), list and table agree and a cached session does not change (`CacheConsistent`), a ticket is good for one connection (`SingleUse`) |
| forks, failing entropy and reseeding behind a thread's back | no output from another process's seed (`ForkSafe`) or from a seed older than the request (`SeedPropagates`); errors are repaired (`Recovers`); what `RAND_add` brings counts (`AddReseeds`: not always) |

`PROJECT.json` lists these and the other hazards at their lines.

## The modules and the code

### DtlsReplayWindow

The pure operators of `dtls1_bitmap.c`. The bit map is the set of the positions of
its one bits. `satsub64be` keeps the C arithmetic: the unsigned difference wraps
around and is read as a signed number (`WrappedDifference`), then an overflow is
mapped to ±`SatLimit`, and so is a distance beyond it. `MapBits`, `SatLimit` and
`Half` (2^63) are constants; the only relation assumed, `MapBits <= SatLimit < Half`
(64, 128, 2^63 in the code; 32 bits for a 32-bit `unsigned long`), is what makes a
saturated distance fall outside the map. `Blocks` says what a window is for.

### DtlsRecordRead

The receive side. `pc` is the place in the running call: `idle` (no call),
`start` (label `start:` of `dtls1_read_bytes`), `again` (label `again:` of
`dtls1_get_record`), `drain` (the loop of `dtls1_process_buffered_records`),
`wire` (about to look for a processed record or read), `have` (a record is
current and is dispatched on).

| variables | code |
|---|---|
| `r_epoch`, `bitmap`, `next_bitmap`, `unprocessed_rcds`, `unprocessed_epoch`, `processed_rcds`, `buffered_app_data` | `DTLS_RECORD_LAYER` (`s->rlayer.d`) |
| `rbuf` | the rest of the datagram in `s->rlayer.rbuf`; a buffered record takes it along (`DTLS1_RECORD_DATA`) |
| `rrec` | `s->rlayer.rrec` |
| `change_cipher_spec`, `in_init`, `shutdown`, `alert_count` | the fields of those names |
| `err` | `MSG_FLOW_ERROR`; `unseen` when it is set but the running call goes on |
| `accepted`, `handed` | history |

The network is a set of datagrams any of which may come at any time: this is loss,
duplication, delay and reordering at once. A record is a record of `epoch`, `seq`,
`type` and `body`, `body` standing for what header checks and decryption make of
it. Actions follow the branches of the functions in order: `TakeBufferedAppData`,
`BeginProcessBuffered`, `ProcessBuffered`, `SyncEpoch`, `TakeProcessed`,
`WouldBlock`, `DropRecord`, `BufferNextEpoch`, `ProcessRecord`; then one action per
branch for the current record, with the handshake steps that change this state
(`ReadChangeCipherSpec`, `ReadFinished`), `tls_shutdown` and `tls_clear`. A call that finds
the connection in error at `start:` returns (`ReturnInError`); it is not looked for again
below that.

### DtlsRecordWrite

The send side with the writing half of the state machine. `rl` has `w_epoch` and
the three counters (`write`, `last`, `curr`); contexts are numbered as they are made,
`freed` has those given up. `ConstructMessage` is `write_state_machine` up to
`WRITE_STATE_SEND` (write transition, pre-work, construction, buffering);
`SendMessage` and `SendInterrupted` are `statem_do_write` and the post-work;
`EndFlight` and `FinishHandshake` end a flight and a handshake. `ReadFlight` is what
the peer's messages do to this side. `dtls1_handle_timeout`,
`dtls1_retransmit_message` and `RepeatedFinished` are the retransmissions, one
message a step, so that a failed write stops them half way as in the code.
`WriteAppData`, `SendAlert`, `DTLSv1_listen` and `tls_clear` are the rest of what
changes this state. A message takes one to `MaxFragments` records, and a failed
write may have sent some of them. Messages with the same effect on this state are one:
`KEY_EXCH` stands for a client's certificate, key exchange and verify messages,
`SRVR_DONE` for the server's.

### DtlsReassembly

`dtls_get_message` down to the bitmask macros. The peer is the environment: a fixed
sequence of messages a handshake, cut up in any way, in any order, any number of
times, the Finished in the new epoch, a second handshake that may start with a
HelloRequest, and optionally empty or contradictory fragments. The bitmask is a
function from bytes to sets of bits, and the macros are translated as they are,
with the tables of start and end values; `filled`, beside it, says which bytes were
really written. Receiving the peer's Finished ends the handshake with
`tls_finish_handshake`, which starts the numbers again and clears the queue; an
accepted ChangeCipherSpec clears it too (`dtls1_reset_seq_numbers`).

### DtlsFragmentation

`dtls1_do_write` for a handshake message, one turn of its loop a step. It is called by
the state machine for the message it has constructed (`NewMessage`), again after a failure
(`Call`, which `otls_assert` stops when `init_off` is 0 and the length is wrong), and between
any two of these calls by `dtls1_retransmit_message` for any message of the flight
(`Retransmit`): this sets `init_num`, but writes from wherever `init_off` was left
(`start_off` remembers it).
`Off`, `Num`, `FragOff` and `FragLen` are what the top of the loop computes;
`WriteFails`, `FlushFails`, `MtuExceeded`, `ReturnError` and `WriteFragment` are
the ways a turn ends. `clobbered` is how much of the message headers have
overwritten; `sent`, `hashed`, `gap`, `own_len` and `interrupted` are history. Numbers are integers, so that a
`size_t` below zero shows as a negative number.

### Tls13Handshake

A client and a server of this library, joined by two reliable byte streams (`wire`).
`tls[s]` is the part of the connection object the handshake turns on; `conf` is the
configuration of the two sides, chosen in `Init`. A record carries the key it was
written under, a number in the order of the key schedule, and reading it needs the same.

| definitions | code |
|---|---|
| `ClientHelloTransition`, `Client13WriteTransition`, `ServerWriteTransition`, `PhaAfterTransition` | the write transitions |
| `ClientReadTransition`, `ServerReadTransition` | the read transitions |
| `Stops`, `Dummies` | pre-work that ends the call; states without a message |
| `MessageOf`, `KeyOfMessage`, `ClientSent`, `ServerSent` | construction and post-work, and the keys installed by either |
| `ClientProcess`, `ServerProcess` | processing and post-processing of a message, with the extensions |
| `StartReading`, `WriteMessage`, `ReadMessage` | `write_state_machine`, `read_state_machine`, one message a step |
| `PassOver`, `ReadData`, `ReadFindsMessage`, `Refused` | `tls3_get_record`, `tls3_read_bytes` |
| `Begin`, `CompleteHandshake`, `ReadDuringEarlyData`, `WriteEarlyData`, `WriteEarlyDataReturns`, `WriteUnauthenticated`, `WriteData`, `KeyUpdate`, `VerifyClientPostHandshake`, `Resume` | the calls of the application (`ssl_lib.c`) |

A step sends or reads one message, so that a call that stops for want of the
socket, and another one in its place, are part of the model. What the applications do with `tls_write_early_data` is part of the
configuration: `conf.interleave` is a client that goes on with it after it began to read,
`conf.hasty` a server that writes with it as soon as `tls_read_early_data` returned, and
not only once its own Finished is out. Otherwise the model takes for granted only that
each connection is used for one purpose from one thread.

### SessionCache and TicketStore

The internal cache of a server's `tls_CTX`, used by connections in threads of their
own. `sess` has the session objects with their reference counts (an object without
references is free memory and may be used again), `sessions` the hash table by the id an
entry was inserted with, `list` the list from head to tail. What is done under the
context's lock is one step: `Lookup`, `RemoveLocked`, `AddLocked`, `Flush`;
what comes after the unlocking, the callback and the freeing, is another (`Removed`).
Between them a connection resumes (`CheckTimeout` for an id in TLS 1.2, `CheckReplay`
for a stateful ticket in TLS 1.3), makes a session, writes its ServerHello, adds
sessions and is closed. With `conf.external` the application's callbacks keep a
second cache, from which sessions come back as new objects. Inserting fails if there is
no memory for the entry. `TicketStore` is the abstract specification: tickets are on
offer, may be dropped at any time, and are redeemed once. Under the mapping that
takes for offered what a lookup finds, `SessionCache` implements it (`SingleUse`).

### RandDrbg

The master DRBG and those of the threads. Processes share no memory, so a behaviour
follows one process, and a fork goes on in the child (the parent goes on as if nothing
had happened). What is done under the master's lock is one step; a thread's own
DRBG has no lock, and its thread can be interrupted before the check of the counters
(`Check`), before it locks the master (`GetEntropy`), and before the seed is put in place
(`Seed`). Instead of random bits a DRBG has the origin of its seed: the process in
which the master got the entropy, and a number that grows. Getting entropy,
instantiating, reseeding and generating may each fail and leave `DRBG_ERROR`. The time
interval is a choice (`late`). `RandAdd` is `RAND_poll`, `RAND_seed` and `RAND_add`, with
enough randomness, some, or none. `RAND_DRBG_reseed` of a DRBG that is in error or not
instantiated is refused and repairs nothing (`ReseedRefused`). `MCRandDrbgAdd` adds a history
variable for what the manual says of `RAND_add`.

### How the modules relate

`DtlsRecordRead` extends `DtlsReplayWindow`. The others meet at interfaces given as
environment: `DtlsRecordWrite` leaves to `DtlsFragmentation` which bytes a
fragment has, `DtlsReassembly` takes what `DtlsRecordRead` lets through
(handshake records of the read epoch, `HandshakeInEpoch`). `Tls13Handshake` composes
the two sides of a connection; what it takes as `conf.psk`, that the server accepts
a session, is decided in `SessionCache`, whose configuration with tickets is the one in
which early data is possible. `SessionCache` implements `TicketStore`. `*_proofs` modules
extend the module they prove about (`Tls13Agreement_proofs` through `Tls13Handshake_proofs`, whose
invariants it builds on); `MC*` modules give the constants of the runs.

## The runs

`tlc -config <cfg> <module>` in this directory. States are distinct states.

| run (cfg) | checks | states |
|---|---|---|
| `read` (`DtlsRecordRead.cfg`) | `TypeOK`, `NoReplay`, `BufferedHaveBitmap`, `HandshakeInEpoch`, `QueuesBounded`, `AppDataAuthenticated`, `BufferedGetProcessed`, and `ReadInv`, the invariant of the proofs | 236 011 |
| `read_error` (`DtlsRecordReadError.cfg`) | violation of `ErrorIsPermanent` | |
| `write` (`DtlsRecordWrite.cfg`) | `NoReuse`, `OneKeyPerEpoch`, `ContextsAlive`, `FlightKept`, `GivesUp`, and `WriteInv`, the invariant of the proofs | 1 620 000 |
| `reassembly` (`DtlsReassembly.cfg`) | `MaskExact`, `DeliveredWhole`, `BufferBounded`, `HandshakeEnds` | 3 069 |
| `fragmentation` (`DtlsFragmentation.cfg`) | `FaithfulWhileSameMtu`, `CoveredWhileSameMtu`, `HashedWhileSameMtu`, `WithinBuffer`, `MessageGoesOut` | 1 011 605 |
| `fragmentation_again` (`DtlsFragmentationAgain.cfg`) | violation of `NotTheFirst` | |
| `tls13` (`Tls13Handshake.cfg`) | `TypeOK`, `NeverFails`, `Protected`, `EarlyDataExact`, `OneRequest`, `Agreement`, `HandshakeEnds`, `UpdateAnswered`, `RequestAnswered` | 170 014 |
| `tls13_early` (`Tls13HandshakeEarly.cfg`) | violation of `NeverFails` | |
| `tls13_retry` (`Tls13HandshakeRetry.cfg`) | violation of `Protected` | |
| `sessions` (`SessionCache.cfg`) | `TypeOK`, `RefsExact`, `CacheConsistent`, and the refinement `SingleUse` | 390 569 |
| `sessions_hello` (`SessionCacheHello.cfg`) | violation of `OldIdSentBack` | |
| `drbg` (`RandDrbg.cfg`) | `TypeOK`, `ForkSafe`, `SeedPropagates`, `Recovers` | 2 463 095 |

`PROJECT.json` names these runs. The directory has six more configurations, which TLC
finds violated as well, each of them a disagreement described [below](#disagreements-between-code-and-comments):

| configuration | module | violates |
|---|---|---|
| `DtlsRecordWriteMacOrder.cfg` | `MCDtlsRecordWrite` | `OneMacOrderPerEpoch` |
| `DtlsReassemblyEmpty.cfg` | `MCDtlsReassembly` | `DeliveredWhole` |
| `DtlsFragmentationRestart.cfg` | `MCDtlsFragmentation` | `RestartsWhereLeftOff` |
| `DtlsFragmentationMtu.cfg` | `MCDtlsFragmentation` | `FirstAttempt` |
| `Tls13HandshakeClientRetry.cfg` | `MCTls13Handshake` | `NeverFails` |
| `RandDrbgAdd.cfg` | `MCRandDrbgAdd` | `AddReseeds` |

What the passing runs show: in spite of every order of losses, repeats, delays and
interruptions within the bounds, the receive side replays nothing, keeps epochs
apart and forgets nothing it buffered; the send side never uses a number or a freed
context twice, keeps its flight and gives up in the end; messages are put together
exactly; and a message is cut up exactly as long as the path MTU stays the same and no
other one is sent through its buffer in between.
Two TLS 1.3 sides understand each other in every configuration and agree in the end, as long
as `tls_write_early_data` is not used in the ways `tls13_early` and `tls13_retry` show;
threads that share a session cache neither free a session in use nor lose one, and
resume a ticket once; and random output always rests on a seed of its own process that
is as new as the master's when the request began.

Each property of a passing run has a mutant in `PROJECT.json`: a plausible slip in
the code (a dropped replay check, a queue limit off by one, the current context
used for a retransmission, a reset forgotten) that makes the run fail.

### Bounds, and why they are enough

* **Receive side.** Window of 2 bits, saturation at 3, numbers below 16: small enough
  for a record inside, at the edge of and beyond the window. Queue limit 2: full
  and not full. Epochs 0 to 2 (`MaxEpoch`): the initial handshake and a
  renegotiation, so that the two-epoch logic meets a *second* change, which is where
  `dtls1_get_bitmap` could confuse epochs. Datagrams of one to four records, among
  them a whole flight with two ChangeCipherSpecs in one datagram.
* **Send side.** Both sides; two write epochs beyond 0, five numbers an epoch
  (`MaxSeq`; an action that would go beyond is not enabled), messages of up to two
  records and a pending alert, one timeout before the connection fails instead of 12. The counters are what the properties are about, and
  their confusion shows at the first retransmission into the epoch before.
* **Reassembly.** Bytes of 2 bits: lengths 3, 5 and 2 give masks with a full and
  with a partial last byte, fragments within one byte and across three. One message
  ahead instead of 10, two handshakes, so that numbers start again once.
* **Fragmentation.** A header of 2 bytes, room for 1 or for 3 bytes besides, messages of
  0 and of 6 bytes: messages of one to six fragments, fragments shorter and longer than
  a header, a flight of messages of both lengths. Up to two changes of the MTU
  (`MaxMtuDrops`). A message is sent again from places up to `MaxStart` = 3: from the
  beginning, from within and from behind a header. (Each retransmission that fails may
  leave `init_off` further on, without end; the theorems have no such bound.)

* **TLS 1.3.** All combinations of the configuration for the handshake itself (the
  flags of `AllConfigurations`; data flows where tickets do), one record of early data
  and of data a side; after the handshake three configurations that let KeyUpdates (one
  call a side, each possibly answered) cross with tickets and data, KeyUpdates with
  requests, and requests (two) with data and tickets. One ticket: `sent_tickets` below
  and at `num_tickets`. Writing early data after reading has begun is part of the
  passing run only where the server rejects it without a HelloRetryRequest, and a hasty
  server only where there is none; `tls13_early` and `tls13_retry` have the other cases.
* **Sessions.** Two connections, four objects and three ids that are used again and again, a
  cache of one entry, so that every insertion finds the cache full, and two tickets a
  connection: the session of the first is in the cache when the second is made. The
  ways of use are ids with and without an external cache, and tickets with replay
  protection from the internal one (SSL_read_early_data.pod leaves an external cache to
  the application). Connections, objects and ids are symmetric; the properties are safety
  properties.
* **Random generators.** Two threads, one fork, four seedings of the master, reseed intervals
  of one request. The public and the private DRBG of a thread are alike and used by the same
  thread one after the other: the run has the public one. `CounterMax` is the
  largest integer TLC has: the counter does not wrap around here, and in the code 2^32 - 1
  reseedings between two outputs of one thread would be needed to go unnoticed.

The theorems remove the bounds for what they state: of the receive side, the send side,
reassembly, fragmentation, the session cache, the random generators and TLS 1.3; only
liveness rests on the bounds.

### Fairness, and why the code justifies it

* `read`: a call that runs goes on (`Step`; a thread's straight code), and the
  application keeps calling (`dtls1_read_bytes` weakly fair). Nothing is assumed of
  the network. The property stops at an error, a shutdown or another change of epoch.
* `write`: the running call goes on, an expired timer is noticed (by the
  next read or by the application, as `DTLSv1_handle_timeout` asks of it), and a
  retransmission that began goes on. Nothing is assumed of the peer. A connection
  that reaches a bound of the model (`AtBound`) has nothing more to say.
* `reassembly`: the peer's timer repeats what is not answered and the network
  does not lose the same half of a message for ever: strong fairness of each
  half's arrival and of ChangeCipherSpec. How often the peer really repeats is
  bounded by its own count of timeouts, which is not part of this module. Two cases
  are named in the property because the code gives them up: a HelloRequest that
  crossed the ClientHello (`Crossed`), and a peer whose first fragment of a message
  lied about its length (`Misled`).
* `fragmentation`: `dtls1_do_write` is called again after a failure, a call that fails
  returns, and a BIO that is tried again and again takes a fragment in the end (strong
  fairness of `WriteFragment`). The same is assumed in `DtlsFragmentationRestart.cfg`, so that it is
  not for want of calls that the message stays behind.

* `tls13`: each application goes on calling (`Progress`): a side that can read what is
  there, write what is due, begin, or leave early data behind, does so in the end. A
  call that asks for something new (`tls_key_update`,
  `tls_verify_client_post_handshake`, early data) is never owed. The manual asks as
  much of applications that use non-blocking I/O.

Deadlock is checked in the runs of the receive side, of fragmentation and of the random
generators; the other models stop at their bounds, when all is said, or after a fatal
error, where the system may stop.

## The proofs

`tlapm <module>_proofs.tla`. Every theorem is proved down to its leaves; the library
modules of theorems on sequences and finite sets are cited where needed.

**DtlsRecordRead_proofs.** First the replay window. From `WindowAssumption`: `satsub64be` has the sign of
the true difference and equals it within the limit, for the whole 64-bit range
(`SatSub`, `SatSubSign`); a number that passes the check is not in any set the
window blocks (`ReplayCheckSound`); the update keeps blocking that set and adds
the number (`UpdateBlocks`).

Then the receive side. `ReadInvariant`: `Spec => []ReadInv`, for every set of
datagrams, limit and width. `NoReplay` is not inductive: a record can be handed over
twice if it sits in two queues, or in one with its bit not set. `ReadInv` adds

* `WindowInv`: the current window blocks every number accepted in this epoch, and the
  next window is empty. (The code never updates `next_bitmap`: a buffered record is
  marked only when it is processed. This is why the second check in
  `dtls1_process_buffered_records` matters);
* `PlaceInv`: an accepted record is in at most one of `processed_rcds`,
  `buffered_app_data`, `rrec` and the caller's hands;
* `QueueInv`: unprocessed records all belong to one epoch as long as it can still be processed,
  processed ones to the read epoch, data held back to a protected one;
* `PhaseInv`: how `change_cipher_spec`, `in_init` and the epoch go together.

Each has a step lemma with a case per action. From it follow `ReplayProtection`,
`ShouldNotHappen` (the internal-error branch of the code, under the comment "Should
not happen", is unreachable), `HandshakeEpoch`, `AppDataProtected` (an action
property) and `TypeCorrect`. `QueueLimits` has its own induction on cardinalities.

**DtlsRecordWrite_proofs.** `WriteInvariant`: `Spec => []WriteInv`, for either side
and all bounds. `NoReuse` needs to know where the counters are (`NumbersInv`: past
every number used in the current *and* the last epoch), and that a retransmission
only goes back one epoch, because the record layer has counters for no other:
`EpochsInv`, which in turn needs that the queue is cleared before a flight that leads
to another ChangeCipherSpec is written (`Fresh`). `KeysInv` and `ContextsInv` do the
same for contexts: numbered like epochs, and the freed ones older than anything
buffered. From these, `NumbersUnique`, `KeysPerEpoch`, `ContextsLive`.
`FlightIsKept` has an invariant of its own, `FlightInv`: the messages buffered have lower
numbers than the one built next, or share its number as the ChangeCipherSpec does with the
Finished (`PlaceInv`), so that no message finds its place in `sent_messages` taken. The
delicate case is `tls_finish_handshake`, which starts the numbers again while the last
flight of a resumed handshake is still buffered: a client that renegotiates adds its
ClientHello to it, and finds number 0 free (`RestartInv`).

**DtlsFragmentation_proofs.** For any lengths and rooms, any number of failures and of
retransmissions at any point. `StaysWithinBuffer`, whatever the path MTU does: `BufferInv` says that
what is left ends a message's length behind the place where its writing started
(`start_off`), so that a message written from its beginning is not left, while one that was put into
`init_buf` in the middle of another's writing is, by as much as `start_off`. The other theorems are
about a message under which the MTU does not change (`drops = 0`; the next message
starts afresh). `FragmentsAreTheMessage`: its fragments are faithful if it starts at its
beginning. `FragmentsCover`: their headers leave out no byte, wherever it starts.
`HashSeesTheMessage`: the hash gets the state machine's message in order and once, unless
another was sent again before it was out. Their invariant `PlaceInv` relates `init_off`,
`start_off`, the local `frag_off` and `w_msg_hdr.frag_off` at every point where a call can end, since a
second call finds all but the third of them; `CallerInv` says who called. The
code needs each of the conditions: `fragmentation_again`, `DtlsFragmentationRestart.cfg` and
`DtlsFragmentationMtu.cfg` show what happens without them.

**DtlsReassembly_proofs.** Begins with the arithmetic of the bitmask macros, for any width
of a byte: `MarkExact` (`RSMBLY_BITMASK_MARK` adds exactly the bytes of the fragment,
within one byte of the mask or across several) and `CompleteExact`
(`RSMBLY_BITMASK_IS_COMPLETE` is true exactly when all bytes are there, also when the
last byte of the mask is used in part). `ReassemblyInv` says of each buffered message that
the mask is that of the bytes written and `complete` means all of them (`FragOK`), and of the queue that
its numbers lie between the next one and `MaxAhead` beyond (`QueueOK`). From it
`MasksAreExact` and `BufferIsBounded`, for any fragments whatever of a peer that lies;
and `MessagesAreWhole` for a peer that sends no empty fragment of a message that is not
empty (`NoEmptyFragments`; `DtlsReassemblyEmpty.cfg` shows that this is needed).

**SessionCache_proofs.** `CacheInv`, for any number of connections, objects and ids.
`RefsExact` (the count of an object is the number of places that refer to it) is kept by a
step because taking or giving up a reference changes exactly one holder; the other parts say
that the table and the list tell the same story (`TableOK`, `ListOK`) and what each
connection holds at each point of its call (`ConnOK`): a session found in the table is
counted before the lock is given up. Hence `CacheTypeCorrect`, `RefsAreExact`
and `CacheIsConsistent`. `TicketsAreSingleUse` is the refinement of `TicketStore`:
initial states are mapped to initial states and each step to a step or a stutter.
`OnceInv` is what it needs: a redeemed id is neither in the table nor in the hands of a
thread that is going to add it. It assumes that no external cache is used with TLS 1.3
tickets, as SSL_read_early_data.pod leaves replay protection to the application there.

**RandDrbg_proofs.** For any number of threads, forks and seedings. `Safe` (which gives `ForksAreSafe` and
`ErrorsRepaired`) follows the process a seed comes from through a call: a DRBG that says it
belongs to this process has a seed of this process, and so has the entropy on its way to
it. `Propagated` (which gives `SeedsSpread`) relates
the counter a DRBG noted to the master's: they agree only if the seed is the master's
latest, also for the counter that was read before the entropy was fetched. It assumes
`MaxSeeds < CounterMax`: the counter does not come round to the value a thread noted.

**Tls13Handshake_proofs.** `RecordsAreProtected`: a record is never written under a weaker key than
its content calls for, in every configuration and for any number of tickets,
KeyUpdates and requests. The invariant `ProtectedInv` says which write key a side has from how far
its state machine has come: `ClientStart` for a client that does not know the version yet,
`ClientEarly` for the states in which early data may be written and the early key is
there, `ClientLate` for those from its Certificate or Finished on; `ServerKeys` for the server;
and `RecordOK` for every record on the wire. While a HelloRetryRequest is pending the server has no
write key yet and the client no longer one, and `tls_write_early_data` looks at neither; so it is
assumed that where one is sent no application uses that call from then on
(`NoEarlyAfterRetry`: neither `interleave` nor `hasty`). The run `tls13_retry` has the two uses that are
excluded, and shows the server's; `Tls13HandshakeClientRetry.cfg` has the client's alone.

`KeysAreBounded` is `TypeOK` without that restriction, for every set of configurations: the
part of it that is not obvious is that two sides which ask each other for KeyUpdates do not
go on for ever. `KeysInv` is an account of each side: the generation of its write key, the
KeyUpdate it owes, the requests on their way to it and the one its peer is about to send are
together within the calls of `tls_key_update` of both sides, beyond the first application
key. An answer is `NOT_REQUESTED`, so reading a request moves one unit from the wire to
what is owed, and sending a KeyUpdate moves one from what is owed to the key. The read key
and the KeyUpdates not yet read are within the peer's write key, and every record on its way
is under a key its sender had. Keys before the first application key count alike
(`Generation`), because a HelloRetryRequest and EndOfEarlyData take a side back to Plain; that this is
over once a side has sent its Finished is what `ProtectedInv` is needed for.

**Tls13Agreement_proofs.** What the two state machines promise each other, for every set of
configurations, any number of tickets, records, KeyUpdates and requests, and every order of
the steps of both sides: `HandshakeNeverFails`, `EarlyDataIsExact`, `RequestsAreOne` and
`SidesAgree`. None of the four is inductive, nor are they together. They follow from `Joint`,
an invariant of both sides and of what is on its way:

* `ClientAt` and `ServerAt` say of each side by itself what goes together: the state, the call
  under way, how far the handshake is, early data, the certificate, the keys. (`flow` is never
  "error": this is `NeverFails`.)
* A *place* is where a reader is: what it read last, the key it reads with and, for the
  server, the certificate it was shown. `ClientPlace` and `ServerPlace` find it in the
  reader's state; `ServerSaid` and `ClientSaid` find in the writer's state the place to which
  all it has sent will take the reader. `ServerSays` and `ClientSays` are the protocol: which
  record takes a reader from which place to which.
* `ClientPath` and `ServerPath`: the records on their way lead, one by one, from the reader's place to the
  one the writer's state stands for (`Path`, a function from positions to places; the keys
  along it never get weaker, which takes the place of an induction over the queue).
* `Finds`: a call that stopped to read a message where it expected data still has that message
  before it.
* `RequestsOf` and `DataOf`: an account of each request and each record of data, in which sending and
  reading move a unit from one place to the next.

There are six frame lemmas (a side stays, speaks or is told something: `ClientStays`,
`ClientSaying`, `ClientTaking` and the same for the server): writing makes a path
longer at its end (`PathAppend`), reading makes it shorter at its start (`PathTail`), the calls leave it alone.
What is left is one lemma per message and side. For the writer: its message
is one the protocol allows at the place it has taken the reader to, and takes it to the place
of its next state (`ClientSpeaks`, `ServerSpeaks`). For the reader: every record the protocol allows
at its place meets a transition that is not an error, under the key it has
(`ClientHearing`, `ServerHearing`), and leaves it at the place the protocol says
(`ClientTakes`, `ServerTakes`). `JointStep` puts them together, action by action.
The hard places are those the hazards name: a client whose Finished is
delayed while the server already writes; early data and ChangeCipherSpecs that a server passes
over in one state and would refuse in the next; a KeyUpdate and a request that cross; a message that is
found while data is read.

The theorems assume `EarlyWritesHarmless`: an application that goes on with
`tls_write_early_data` once the client has begun to read has a server that neither asks for another
ClientHello nor accepts early data, and a server that writes with it before its own Finished
does not ask for another ClientHello. The passing runs look at no other configurations either. The manual allows the calls in
all three cases, and in each a side fails or data is not protected (`tls13_early`, `tls13_retry`,
`Tls13HandshakeClientRetry.cfg`).

Assumptions: `WindowAssumption`, `ReadAssumption`, `WriteAssumption`,
`ReassemblyAssumption`, `FragmentationAssumption`, `CacheAssumption`, `DrbgAssumption` and `Tls13Assumption`,
which type the constants and state the relations named above. TLC evaluates them in every
run. The theorems that need more say so in their ASSUME (`NoEmptyFragments`, `Internal`,
`MaxSeeds < CounterMax`, `NoEarlyAfterRetry`, `EarlyWritesHarmless`).

**Only model-checked.** Liveness (`BufferedGetProcessed`, `GivesUp`, `HandshakeEnds`,
`MessageGoesOut`, `UpdateAnswered`, `RequestAnswered`): fairness is out of the prover's
reach. Every invariant of a passing run is also a theorem.

## Disagreements between code and comments

A run of `PROJECT.json`, which quotes the lines, shows each of these:

1. `read_error`: `dtls1_process_buffered_records` returns -1 on a fatal error, its
   caller tests for 0 (`ssl/record/ssl3_record.c:1859`). The "permanent error" does not stop the call: a `tls_read` that meets
   it in a record buffered for the new epoch goes on to read, and hands over application data.
   (The next call, and a handshake message, which takes another call for its body, are
   stopped at `start:`.)
2. `fragmentation_again`: `dtls1_retransmit_message` does not reset `init_off`
   (`ssl/statem/statem_dtls.c:1128`). After a write that
   failed between two fragments the message sent again starts at the old place, where
   `dtls1_do_write` takes it for "a fragment other than the first one": other bytes than its header
   says, up to behind the end of the message.
3. `tls13_early`: the manual lets a client go on with `tls_write_early_data` after it
   began to read. If the server's Finished is read inside that call, EndOfEarlyData is
   left out, and a server that accepted early data fails.
4. `tls13_retry`: the manual lets a server use `tls_write_early_data` as soon as
   `tls_read_early_data` returned SUCCESS or FINISH. With a HelloRetryRequest pending it has no key,
   and the data goes out in the clear; the client breaks off then. In the same way a client that goes on with it after the
   HelloRetryRequest writes without the early key, which is gone, and the server breaks off
   (`Tls13HandshakeClientRetry.cfg`).
5. `sessions_hello`: a session removed by another thread after it was looked up loses
   its id in the ServerHello that resumes it, where the comment says it is sent back.

A configuration outside `PROJECT.json` shows each of these:

* `DtlsRecordWriteMacOrder.cfg`: a retransmission is to "restore state in which the message was
  originally sent" (`ssl/statem/statem_dtls.c:1146`), and does so but for the encrypt-then-MAC flag, which
  `ssl/t1_enc.c:224` sets for the new epoch: after a renegotiation that changes it, the records
  of one epoch go out in two orders.
* `DtlsReassemblyEmpty.cfg`: an empty fragment of the next message is taken for the message
  (`ssl/statem/statem_dtls.c:820`), where "as soon as they sum up to handshake packet length, we assume
  we have got all the fragments" (line 888).
* `DtlsFragmentationRestart.cfg`: a retransmission between two attempts at a message leaves another
  message, or none, in `init_buf` (`ssl/statem/statem_dtls.c:1128`), though the state machine is to
  "restart at the point we left off" (`ssl/statem/statem.c:288`). With none, each further call fails on
  `otls_assert`.
* `DtlsFragmentationMtu.cfg`: the second go after an exceeded MTU (`ssl/statem/statem_dtls.c:256`) is taken for
  "the first attempt at writing out this fragment" (line 158) and moves `init_off` back twice.
  (`StaysWithinBuffer`: it still stays within the buffer.)
* `RandDrbgAdd.cfg`: `RAND_add` with some randomness, but less than a seed, is taken for one with
  none (`crypto/rand/drbg_lib.c:1275`): it is mixed in "without reseeding" (line 799) and the
  threads' DRBGs notice nothing, where RAND_DRBG.pod:203 says that a positive randomness
  "will immediately reseed the <master> DRBG".

These are in the models and have no run of their own:

* A warning alert is marked read but keeps its length (`ssl/record/rec_layer_d1.c:578`), and is
  met and counted again until the limit on "the count of consecutive warning alerts" (line 436)
  is a fatal error.
* A KeyUpdate that is due goes before the CertificateRequest that
  `tls_verify_client_post_handshake` has asked for, so the call after it need not send
  the request yet (`ssl/statem/statem_srvr.c:432`).

Three more behaviours a reader may not expect, modelled as they are:

* `sent_messages` can hold messages of two handshakes (a client that resumed its
  session and renegotiates), which the comment on its priorities
  (`ssl/statem/statem_dtls.c:997`) rules out. `FlightKept` shows that the flight being
  sent survives it.
* A stale Finished is recognised only until the first message of a new handshake has
  been read (`ssl/statem/statem_dtls.c:672`); after that it is buffered under its number, and fails
  the new handshake when its turn comes (`error` in `HandOver`).
* A HelloRequest that arrives during a handshake is ignored without its number being
  used up (`ssl/statem/statem_dtls.c:841`), and the sides' numbers stay apart (`Crossed`).

## What is not modelled

* Cryptography: decryption is an outcome of a record, a context a number.
* SCTP, compression, `DTLS1_BAD_VER` and TLS 1.3 in the DTLS modules.
* Reads of a part of a record, and peeking: a record is handed over whole.
* Failing allocations, except where the code's error path is shared with another.
* The wrap-around of epochs (16 bits) and sequence numbers (48 bits) on the send
  side: the models stop at their bounds, and the code checks neither.
* The bytes of a refused fragment, which the code leaves in the record.
* TLS 1.3: alerts and shutdown, external PSKs, SRP, renegotiation (there is none), the limits
  on early data, a server that is also asked for TLS 1.2; records are read and written whole.
* Sessions: the client's cache, stateless tickets, `not_resumable_session_cb`, sessions an
  application adds or shares by hand, the hash table's growth (which may fail after the
  entry is in) and its errors in deleting.
* Random generators: a fork while another thread holds the master's lock (the child would wait
  for ever: POSIX leaves such a child only async-signal-safe calls), a process id that
  comes back, DRBGs the application creates, engines that replace `RAND_METHOD`,
  failing allocations before a DRBG exists.
* ASYNC jobs: the switch of stacks is system code. The BIO pair, the secure heap and the error
  queue have one owner at a time and no order of events to get wrong beyond their unit tests' reach;
  they come last in the plan.
* Components with status `not_modelled` in `PROJECT.json`, for the reasons given
  there: parsing, ASN.1, X.509, primitives, applications have no protocol state;
  the others are in the plan.

## Plan

Done: the receive side, the send side, reassembly and fragmentation of DTLS, the session
cache with its abstract specification, the random generators, each with the proofs of its
safety properties; TLS 1.3 (two sides) with the proofs of its safety properties.

Models that would follow: DTLS flights over a lossy network with two sides (send buffer and timer
of `DtlsRecordWrite`, numbers of `DtlsReassembly`), the cookie exchange of `DTLSv1_listen`,
`tls3_write_pending` and partial reads, two-sided shutdown, and the smaller
components of the inventory.
