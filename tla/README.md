# mpxcast: a verification project

mpxcast turns an RTL-SDR receiver into an HTTP radio: a client asks for a
frequency, the program tunes the receiver, demodulates FM stereo and RDS, and
streams PCM in WAV or MPEG-TS, with ICY metadata. The modules here model its
code in TLA+, TLC checks them on small instances, and TLAPS proves the results
that matter most for instances of any size. Paths below are in `src/`.

## The system

| component | code | state | operations | correct means |
|---|---|---|---|---|
| stream server | `src/stream/server.c` | the active session, the list of buffered chunks, the clients with their cursors, one mutex | a request joins or replaces the session; each client's reader takes, produces or waits for chunks; closing a connection | cursors never dangle; no gap, no repeat; only laggards are dropped; a session lives exactly as long as someone plays it; everyone hears the frequency asked for |
| session and its clock | `src/stream/session.c` | clock start, frames queued, metadata | configure, fill a chunk, pace | production follows real time |
| RTL source | `src/input/rtl/rtl_source.c` | the ring of IQ bytes, running/failed, the capture thread | callback pushes, reader waits and copies, tune, stop | reads return the newest bytes in order; nobody waits for a wake-up that is not coming; the thread is gone before the ring is freed |
| RDS block synchronisation | `src/rds/block_sync.c` | 26-bit register, error history, group buffer | push a bit, correct a block, emit a group | a synchronised receiver keeps in step; corrections restore what was sent |
| RDS parser | `src/rds/parser.c` | PI, PS, radiotext | process a group | texts are never mixtures of two stations or messages |
| RDS demodulator | `src/dsp/rds_demod.c` | the biphase clock, the last symbol and bit, the active phase (nine phases are declared, only `phases[0]` is used) | process a symbol | the bits that come out are those that were sent; the active phase says whether there is sync |
| ICY metadata | `src/stream/icy.c` | byte counter, block | build a block, interleave it with the body | a block exactly every 16384 bytes |
| MPEG-TS muxer | `src/stream/mux_mpegts.c` | continuity counters, PTS | prelude, packets of a chunk | counters count modulo 16, PTS does not drift |
| FM pipeline and DSP | `src/dsp/*.c`, `src/input/rtl/rtl_iq_decimator.c` | what each filter keeps of the last block | process a block, reset for a new session | a filter over blocks is the filter over the stream; a block makes a whole chunk |
| FM quality report | `src/dsp/fm_quality.c` | settling time, smoothed power, last report | process a block, reset, report | the estimate is of this reception only; the log is current |
| life of the server | `src/stream/server.c`, `server_run` | what has been acquired, `stop_requested` | start up, wait for a signal, shut down | nothing is released under a thread; every exit releases all; a signal stops it |
| HTTP request parsing | `src/stream/http.c` | none | parse path and query | reject or produce a request in range |
| command line, logging, WAV header, PCM | `src/core/*.c`, `src/audio/*.c`, `src/stream/mux_wav.c` | none | parse, print, format | straight-line code |

The HTTP library (libmicrohttpd) gives each connection a thread that calls
`handle_request`, then `stream_content_reader` until it ends, then
`stream_content_free`. Those take `server->lock`. librtlsdr's capture thread
calls `rtl_source_callback`, which takes the source's own lock; a reader that
produces a chunk holds the server's lock while it waits on the source's
condition variable. `server_run` itself runs on the main thread and shuts down
without the lock, relying on `MHD_stop_daemon` to have ended the others.

Hard to test in it: every connection has its own thread and any of them may be
the one that produces, drops, frees or stops for all; a peer may stop reading at
any point; the capture thread ends, or is cancelled, between any two steps of
the others; the RDS receiver has to find its way back from errors, false
matches and slips; a signal comes at any moment, also while a reader waits for
the device with the lock held; rings, counters and block lengths have boundaries that a
stream meets only after hours. `PROJECT.json` lists these hazards one by one
with the line they are at and the properties that watch them.

## The modules

| module | models | state and actions |
|---|---|---|
| `StreamServer` | `stream/server.c`, the clock of `stream/session.c` | `struct server`, the session's clock, and of each `client_stream` what the others see of it. `handle_request` is joining, replacing, and refusing: the tuner fails, and is then where it was, on the new frequency or on neither, also while a session plays; or, on the first tune only, the capture does not start; a pass of the loop of `stream_content_reader` is one critical section of the lock and so one step: prelude, end, next chunk, failure to pack, wait, production with pruning and drops; `stream_content_free`; and time |
| `ServerRun` | `server_run` and the signal handler of `stream/server.c`, over `StreamServer` | the steps of start-up, each failure with its own list of what it gives back, `rtl_source_start` part by part; the wait; the shutdown; each connection's calls until its thread ends. A pass that produces is two steps here, since it waits for the device with the lock held: `BeginRead` takes it, `EndRead` is the rest, and everybody else needs `LockIsFree` |
| `LiveBroadcast` | - | what the server promises: each listener hears consecutive chunks of the session it joined, from a chunk that was live when it joined, until it is cut off or leaves. It has no list, no cursors, no lock |
| `RtlSource` | `input/rtl/rtl_source.c`, live | the ring with both offsets, the flags, the capture thread and where the using thread is; the callback, the return of `rtlsdr_read_async`, the steps of tune, read (with spurious wake-ups) and stop |
| `SampleQueue` | - | what the ring promises: a lossy queue of the newest bytes |
| `RdsBlockCode` | the code of `rds/block_sync.c` | syndromes, offset words, burst table, the switch from C to C', burst and soft correction, over 26 bits as they are. `sent_offset` is the kind of block that was sent, which is the one expected, or a C' where a C is |
| `RdsClock` | `rds_demod_process_symbol_sample` of `dsp/rds_demod.c`, from a symbol to a bit | the biphase clock with its history and polarity, differential decoding; one action per symbol received as sent, inverted from now on, wrong, missed or repeated. Transmitter and channel are part of the model |
| `RdsReceiver` | the rest of `rds/block_sync.c`, the phase logic of `dsp/rds_demod.c` | pulses, sync, bit counter, error window, group, events and active phase; one action pushes a bit, one consumes the events, as the demodulator does after every bit. The station and its noise are part of the model |
| `RdsParser` | `rds/parser.c` | name, radiotext, PI with their qualities; one action for a group |
| `RdsListener` | - | any groups at all, and a listener who remembers the best that was heard of every piece, around `RdsParser` |
| `RdsStation` | - | a station and a lossy channel around `RdsParser` |
| `MpegTsMux` | `stream/mux_mpegts.c` | counters, PTS with its remainder; prelude, start of a chunk, each packet of it, its end; and the listener that takes the packets apart |
| `IcyStream` | `stream/icy.c`, the parts of `session.c` and `server.c` that build, copy and interleave metadata | a client's counter and position in a chunk; metadata refresh, prelude, each pass of the loop that copies; and the player |
| `FmQuality` | `dsp/fm_quality.c` | settling time, the blocks in the smoothed power, what has been reported; reset, a block, a report |
| `FmPipeline` | `dsp/fm_pipeline.c`, `fir.c`, `fm_discriminator.c`, `fm_mono.c`, `input/rtl/rtl_iq_decimator.c`, over `FmQuality` | one block from the read to the chunk, one step per pass of each loop: the IQ decimator's overlap, the discriminator's last sample, the ring of the filter bank, the audio decimator's window; failed reads, a new session |
| `MC*` | - | the instances that TLC checks, with the observers some of them need |
| `*Proofs` | - | theorems about the module they are named after; `StreamServerProofs` also of `ServerRun`, `RdsStationProofs` of `RdsListener`, `RdsBitsProofs` of `RdsBlockCode` and `RdsClock` |

`StreamServer` knows of the source only whether it is tuned, started and able
to produce; what happens inside a read is `RtlSource`, whose user is the one
thread at a time that holds the server's lock. `ServerRun` cuts its production where that read begins and
ends. How the bytes of a read become a chunk is `FmPipeline`. A chunk in
`StreamServer` is a number; its way into a client's bytes is `MpegTsMux` and
`IcyStream`. The RDS
modules are a chain: `RdsClock` makes bits of symbols; a block (`RdsBlockCode`) has a syndrome that either
matches an offset or not, which is all `RdsReceiver` uses of it; the groups it
stores have the received and corrected flags that `RdsParser` starts from.

History variables, named as such where they are declared (`position`,
`delivered`, `cancel_lost`, the listeners and players), record what happened.
No step of the code's reads them.

Definitions such as `PruneOneTooMany`, `DroppedButOne`, `JoinsNever` or
`LastPacketOffByOne` stand next to the one they are a faulty version of. No
specification uses them; each shows that the property it is listed with can
tell the two apart. `PROJECT.json` pairs them under `mutants`, and `map` gives
the source lines of every definition that models code.

## The runs

All runs end within minutes; none has a state constraint: bounds are in guards
or follow from the constants.

**`server_safety`** - three clients, symmetric, three settings (two of them on
one frequency), a list of two chunks, two sessions, three units of time.
Three clients are one at the head of the list, one behind it and one at the
live edge, the most distinct places a list of two has; two of the settings
share a frequency, so that a session can be replaced, and a tune fail, with and
without the station changing. Shown: cursors point into the list
(`NoDanglingCursor`) and at exactly the chunk after the one last heard
(`GapFreeCursor`); the head of the list is kept for somebody who has not heard
it, except between a failure and the freeing of the client that failed
(`HeadIsNeeded`); a session is active exactly while a client plays it
(`ActiveWhilePlayed`); each client that is played to hears a running capture of
the frequency it asked for itself, whoever has joined, replaced or been refused
since (`HeardAsAskedFor`); only a client a full list behind is dropped
(`DropOnlyLaggards`).

`HeardAsAskedFor` has one exception, which is the code's. When
`rtlsdr_set_center_freq` fails the request is answered 503 and the session plays
on, wherever the tuner is by then (see the observations). The history variable
`tune_failed` says that this has happened since the session began.

**`server_liveness`** - two clients, one of whose peers keeps reading. The
server implements `LiveBroadcast`; a stream removed from the session is ended
(`LiveRemovedStreamsEnd`); a chunk that falls due reaches a client whose peer
reads (`LiveDueIsDelivered`), although the other client, which may be the one
that would have produced it, may stop at any point.

**`server_run`** - two clients, two settings, a list of two chunks, two
sessions, and two units of time more in the shutdown than before it, so that a
reader that sleeps when the signal comes has something to be woken by. Start-up
fails at each of its steps and gives back what the code lists there
(server.c:677, 684-685, 694-696); `rtl_source_start` fails with none, some or
all of its parts acquired and gives back what follows its label `fail`
(rtl_source.c:159-174). Signals come at any time, several of them too.
Shown: lock, source and daemon are held as long as a connection has a thread or
a client is inside a read of the device (`InUseIsHeld`); whichever way
`server_run` returns, those lists were complete, everything is released and no
chunk is left (`ExitReleasesAll`); a signal ends the program (`SignalStops`), whatever the
readers are doing, except one that comes between the test of `stop_requested`
and `pause()` (server.c:707-708), which is not noticed until the next one. The
property names that exception, with the history variable `missed`.

**`server_stalled_peer`** - the same instance, against what the repository's
README says of laggards. It is violated; see the findings.

**`rtl_source`** - a ring of 6 bytes, blocks of 2, 4 and 8, reads of 2 and 10,
20 bytes delivered. Blocks are shorter than the ring and longer; a read can be
longer than the ring, so it must wait in the middle; 20 bytes wrap it three
times. Shown: what can be read is the newest bytes in order
(`HoldsNewestBytes`) and begins with an I byte (`PairsStayTogether`); a
reader that waits is woken, also by the end of the capture (`WaitEnds`); the ring is not released under a capture (`ReleasedAfterCapture`);
the ring implements `SampleQueue`; and `rtl_source_stop` returns (`StopReturns`)
except when its cancellation came before the capture had begun to stream.
`librtlsdr` ignores such a cancellation; `StopReturns` states that exception
rather than hide it, with the history variable `cancel_lost`.

**`rds_bits`** - the two steps before block synchronisation, which share no
state: a behaviour is about one or the other. Of the block code: two data words, every offset
that a receiver in sync expects, and where that is C a C' too, as the station
sends in groups of version B;
every error of one bit, of any two bits, and of three neighbours. The code is
linear, so that which data word is sent does not matter to a syndrome; the two
words guard against a mistake there, and the proof is for all. Errors of one and
two bits are noticed in every kind of block, and make no C' of a C or the other
way round (`ErrorsAreNoticed`); there are three bits that would, such as 23, 24
and 20. A block without an error is taken as it is, and errors of one bit or two
neighbours are repaired in every block but a C' (`BurstIsRepaired`), since the
code learns that a third block is a C' only from one that is undamaged
(block_sync.c:389-391); see the observations. Of the
biphase clock: a history of 6 symbols (128 in the program), which is three bits
in either half, and three faults of any kind in any order, which is one to
spoil a window, one to shift the clock and one to shift it back. Once a window
with a one in it has passed without a fault every bit is decoded as it was sent
(`BitsAreAsSent`), and when the faults are over that comes about and stays
(`ClockComesRight`).

**`rds_soft_correction`** - soft correction on the same blocks, with one set
of six weak bits. Violated; see the findings.

**`rds_receiver`** - blocks of 2 bits, an error window of 2 tolerating 1, a
buffer of 3 pulses, groups numbered modulo 2, at most 2 pieces of noise (a corrupted
block, a chance match, a bit lost or doubled). Two pulses of noise are what it takes to make two
of the three of a sequence false. Shown: the running error sum is the sum of
the flags, the demodulator's phase is active exactly while there is sync, and
the events that wait to be consumed are those that lead there
(`ReceiverInvariant`, the inductive invariant); a group stored has blocks of one
group of the station only, as long as fewer bits have slipped than a group has
(`GroupsAreWhole`); while no bit slips sync is acquired in step with the station
unless noise has looked like a block three times (`AcquiresInStep`); and when the noise ends the receiver gets in
step for good (`Recovers`).

**`rds_station`** - a name with a blank inside and one at its end, three texts
(full, ended, beginning with a blank), changed in any order, over a channel
that loses and damages blocks. The text in the parser is never a mixture
(`TextIsOfOneMessage`), what is reported is whole (`ReportedIsWhole`), and a
text or name that is sent on is reported in the end (`TextSettles`,
`NameSettles`). Other behaviours of the run are any sequence of any groups, with
a listener who remembers the best: every character of the text and every
segment of the name is one heard with the best quality since the text began, and
none that was heard is missing (`BestIsKept`).

**`mpegts`** - packets of 35 bytes, chunks of 1, 2, 9 and 32 frames, the
program's rates, 18 calls. In such a first packet 23 bytes are
left beside header and clock, in others 31; the four lengths give PES packets of
22 bytes, which fit in the first packet with a byte of stuffing; of 26, whose last
packet is mostly stuffing; of 54, which fill two packets exactly; and of 146,
whose last packet is one byte short. 18 calls
carry the counters past 16. 32 frames are 60
ticks of the clock, the other counts leave a remainder, and the PTS wraps after 512 instead of 2^33.
The program itself only sends chunks of 1024 frames, which are exactly 1920 ticks; the
remainders are what the muxer does with the other lengths it accepts. The listener counts without
a gap (`CountersAreContinuous`), gets PES packets of the announced length, in
order (`PesIsWhole`), and the PTS is the exact time rounded down
(`ClockIsExact`).

**`icy`** - the program's own lengths: metadata every 16384 bytes, a buffer of
32768, WAV in stereo and mono, MPEG-TS. The player finds a block wherever it
expects one, and nothing overflows (`PlayerInSync`); a title that stays is shown
(`TitleArrives`). One of the two titles fills its block exactly.

**`pipeline`** - blocks of 6 samples through windows of 4 that advance by 2, a
settling time of 8 samples, reports every 5 units of time, 8 blocks. A block is
longer than a window and no multiple of it, so ring and window go round within a
block and at different places in the next; a block crosses the end of the
settling time; 8 blocks are enough to settle, lose the reception and settle
again. Whatever is read, fails to be read or is configured anew, each
filter computes each sample from the newest ones before it (`WindowsAreNewest`);
a block makes a whole chunk (`AudioIsWhole`); the quality estimate has exactly
the settled blocks since the last reset (`ResultIsOfThisReception`), and the log
says what it is (`ReportIsCurrent`).

### Fairness

- Server: a reader that has been entered goes on, and a connection that ended
  is freed: both are the library's threads running. That the reader is called
  *again* depends on the peer, so it is assumed only of peers that read
  (`livePeers`). Nothing is assumed of requests or of failures.
- Life of the server: the main thread runs, and a reader inside its loop, and the
  device delivers or gives up, so that a read ends, which is `WaitEnds`. At
  shutdown the library closes every connection, and time passes. Nothing is
  assumed of requests, peers, signals or failures.
- RTL source: the device delivers or gives up, a capture that was cancelled
  returns, and the user finishes the step it is in. A new tune, read or stop is
  never forced.
- RDS clock: symbols keep coming, and ones are among them: the offset words are
  not zero, and a row of zeros is no broadcast. The faults have no fairness and
  are bounded.
- RDS receiver: bits keep coming and the demodulator consumes the events after
  each, in one loop in the code. The noise has no fairness and is bounded.
- Station: it repeats every segment of its name and text, and every one of them
  is received undamaged from time to time. Any channel with some probability
  of a clean group is like this; one that never lets a segment through could not
  deliver a text.
- ICY: the client goes on reading, which `LiveDueIsDelivered` justifies for
  peers that read.

### Deadlock

It is checked in the runs `icy`, `rds_receiver` and `rds_station`. The others
really stop: at their bounds on sessions, time, bytes, blocks or calls, when the
server has exited or the source been stopped, and when a block has been decided.

## The findings

1. A client that fell behind is not disconnected when its peer has stopped
   reading, contrary to README.md:87. It is marked (server.c:284), and its stream
   is ended by the next call of its reader, which the library makes only when
   the socket takes bytes; no connection timeout is set (server.c:689-691). Run
   `server_stalled_peer`.
2. Soft correction compares a syndrome with the offset *word*
   (block_sync.c:214), where the syndrome *of* that word is meant
   (block_sync.c:78-93, 123). What it accepts is no block with the offset it
   reports. Run `rds_soft_correction`.

Observations besides, of behaviour that contradicts no document or that no run
is about:

- A request whose `rtlsdr_set_center_freq` fails is answered 503
  (server.c:566-572), and the session that is active is left as it is, although
  the tuner may have moved. Its listeners may hear another station from then
  on, and a later request for the session's own settings joins it without
  tuning (server.c:565). `TuneFails` of `StreamServer` has it.
- A damaged C' is corrected against C (block_sync.c:405-407), as the switch of
  lines 389-391 asks for the exact syndrome of C'. Most of its bursts have no
  correction then, and the block goes to soft correction. One wrong bit 20 has
  one: it is taken for wrong bits 23 and 24, and wrong bits 23 and 24 for a
  wrong bit 20, so that a block with three wrong bits is taken as corrected.
  `BurstIsRepaired` excepts C' for this.
- "Only let a noisy block A change PI if we don't have a stable PI yet"
  (parser.c:226). The guard under it lets every stored block A change the PI,
  since a block with errors is stored only with bits corrected; `UpdatePi` of
  `RdsParser` has it as it is.

## The proofs

Each theorem holds for every value of the constants that the module's named
assumptions allow.

**`StreamServerProofs`** - from `MaxChunksAssumption` (the list has room for one
chunk) and `NoSettingsAssumption`; any clients and settings, finite or not.
`ServerIsConsistent` proves `InductiveInvariant`, and `ServerTypes`,
`NoUseAfterFree`, `NoGapNoRepeat`, `ActiveIsPlayed`, `EachHearsItsStation`,
`ProductionIsPaced` and `OnlyLaggardsAreDropped` follow. That no cursor dangles is
not inductive: after a chunk is pruned a cursor is safe only because its number
is above that of every chunk pruned. So the invariant ties a cursor to the
number last heard (`GapFreeCursor`), says that the list is the last chunks
produced, numbered in a row (`ChunkListConsistent`), and that what a client has
not heard is all still in it (`UnheardIsBuffered`). Pruning and dropping then
become statements about numbers, in lemmas about `SkipInList` and
`RoomCanBeMade`. That everyone hears
the frequency asked for needs that the tuner is on the session's, until setting
it fails (`ActiveSessionIsTuned`), and that those who share a session asked for the
same (`PlaysWhatWasAskedFor`). `BufferIsNeeded` says that the
list holds nothing that nobody waits for: pruning stops at the least cursor, so the
head is somebody's, unless the client that took it away has just failed.

`ServerImplementsBroadcast` proves the refinement step by step: each action of
the server, under the invariant, is one action of `LiveBroadcast` or changes none
of what the mapping shows. A pass that produces, prunes and drops is `Air` with
the dropped clients as the set that is cut off; what makes it one is that the
clients that stay have less than a whole list before them (`UnheardIsBuffered`).

About the life of the server, from the same assumptions and `NobodyAssumption`:
`RunIsConsistent` carries `InductiveInvariant` through start-up, reads that keep
the lock, and the shutdown; `UsedIsNeverReleased` and `EveryExitReleases` follow.
The strengthening says that what is held depends only on where `server_run` is,
which is to say that the list at each failure names all that the steps before it acquired;
that nobody is connected when the daemon is not there, and that a client in a
read is at the live edge of the active session, so that it is registered and the
shutdown waits for it. That `chunks` is empty at an exit through start-up needs
that without clients there is no session and no chunk.

**`RtlSourceProofs`** - from `SizesAssumption` and `WholePairsAssumption` (the
ring, the blocks and the reads are in whole pairs). `RingIsConsistent` proves the
invariant; `RingHoldsNewestBytes`, `SamplesStayWhole`, `OffsetsStayTogether`,
`NobodyMissesTheWakeup`, `RingOutlivesCapture` and `RingTypes` follow. The
content of the ring is inductive only with the offsets' agreement, modulo the
ring's size; the wake-up only with what `running` says of the capture thread, for
which the invariant follows where the user is in a tune or a stop. `RingImplementsQueue`
proves the refinement: the bytes from the read offset on, taken around the end of the ring,
are the queue of the newest bytes, so a callback that overflows is `Push`, and a copy
in two pieces `Take`.

**`MpegTsMuxProofs`** - from `SizesAssumption` (a packet has room for a header,
a clock and a PES header), `RoomAssumption` (chunks fit the buffer) and
`RatesAssumption`. `MuxInvariant` gives `ListenerHearsNoGap`,
`ListenerGetsWholePes` and `ClockDoesNotDrift`. The listener's state is tied to
the muxer's in the middle of a chunk: how much it has gathered is how far the
muxer is. For the clock the invariant is
`frames * ClockRate = pts * SampleRate + remainder` with the remainder less than
`SampleRate`, an equation without division that each chunk preserves; that the
PTS is the quotient follows from it by a lemma on division.

**`IcyStreamProofs`** - from `BlocksFit` (a title's block fits in the block
buffer; TLC evaluates it for the titles of the run) and `LengthsAssumption` (a
body with a block fits in the client's buffer, and no body is longer than the distance
of the blocks). `PlayerStaysInSync` rests on the client's counter being what the
player expects (`CountersAgree`) and on a chunk meeting at most one block
(`RoomIsLeft`).

**`RdsReceiverProofs`** - from `SizesAssumption`, for blocks, windows and pulse
buffers of any length. `ReceiverIsConsistent` proves `ReceiverInvariant`, and
`ErrorSumIsExact` and `PhaseIsThatOfTheSync` follow. The sum is inductive only
with where the window is written next and with what has not been written yet
(`ErrorPushIsRight`, a lemma on the cardinality of the flags); the phase only
with the events that are still to be consumed (`EventsLeadToSync`).

`GroupsAreNeverMixed` is about what the receiver hands over, whatever the noise,
as long as fewer bits have slipped than a group has. The transmitter may have
got ahead of the receiver by as many bits as have slipped, either way. A block counts as
clean only at a place where its offset was sent; so between two blocks accepted
the drift is a number of whole groups, and fewer slips than that leave none.
That bound is the code's, not the proof's: a receiver that slipped a whole group
takes blocks of two groups for one, as nothing in a block says which group it
is of. `SyncIsAcquiredInStep` splits the pulses into true ones, at a block's place, and
untrue ones: two pulses that the code takes for successive are both true or
both untrue, since the distance they must have is a number of whole blocks, and so
three untrue ones in a row are needed, one piece of noise each.

**`RdsStationProofs`** - from `ParserAssumption` and `StationAssumption`, for any
texts, channel and order. `TextIsNeverMixed` rests on the flag: the
station is at the text heard last or at the next, whose flag is the other one.
`OnlyWholeTextsAreReported` adds that a text counts as complete only when all
positions up to its end have been seen; that there is a first end takes the
well-foundedness of the order, in the lemma `LeastExists`. `BestIsAlwaysKept` is
about `ListenerSpec`, any groups at all: each of the positions a group writes either
keeps the better quality or takes the new one, and what the listener remembers is cut back at the same groups as
the parser's text is.

**`RdsBitsProofs`** - the block code, from `WordsAssumption` (data are of 16
bits, errors within the block), for every word of data where the run has two.
Parities of finite sets add up, so syndromes do (`SyndromesAddUp`). Each row of
the matrix is the one before, shifted, with the generator's bits where a one leaves it
(`RowsAreShifted`), so that shifting a word shifts its syndrome, and every data
bit has check bits (`CheckBitsExist`); sums of their words have no syndrome
(`CodeWordsHaveNoSyndrome`), by a least counterexample. That the 51 bursts
are told apart is arithmetic: their syndromes read as numbers differ
(`ValuesDiffer`). So is that one or two wrong bits do not make a C' of a C: what
would have to be added to the syndrome is that of no such error
(`SwitchedValuesDiffer`). `SmallErrorsAreNoticed` and `BurstsAreRepaired`
follow, the latter for every kind of block but a C' with an error in it.

The clock, from `ClockAssumption` (windows of even length):
`DecodesWhatWasSent`. Of a window without a fault so far, the places within a
bit have amplitude 1 and the others 0 or 1, with a 0 among them exactly if a one was
sent (`WindowIsClean`). Both halves are as long because the length is even
(`HalvesAreAsLong`), so the half that is all ones is the stronger
(`FullHalfIsStronger`), and one 0 in the other decides. Which half is the bits' stays
the same from window to window, again because the length is even
(`PlacesKeepTheirHalf`); with an odd one the polarity would be wrong in every
other window.

**`FmPipelineProofs`** - from `QualityAssumption` and `FiltersAssumption` (the
taps of the audio decimator and a block are whole numbers of audio samples).
`PipelineIsConsistent` proves `PipelineInvariant` part by part, and
`NoSampleIsLost`, `EveryChunkIsWhole`, `EstimateIsOfThisReception` and
`LogIsCurrent` follow. What a filter keeps is tied to the number of the last
sample it took, at the place where the loop is: in the window within a block, in
the history between two. Ring and window need that both halves agree and that
the window starts at a multiple of the factor, so that it meets its end exactly.

Every invariant and every action property of the passing runs, and both
refinements, are proved. Only model-checked: everything about liveness
(`LiveRemovedStreamsEnd`, `LiveDueIsDelivered`, `SignalStops`, `WaitEnds`,
`StopReturns`, `Recovers`, `ClockComesRight`, `TextSettles`, `NameSettles`,
`TitleArrives`), which needs fairness and ENABLED and is beyond the prover; and the two
properties that are violated.

### What the proofs changed

- `LiveBroadcast` let a listener stay that was a whole buffer and one piece
  behind; the server never does, and the step that airs a piece now says so.
- `GroupsAreWhole` had excused every behaviour with noise beyond a bound. The
  proof needs no bound on false matches or on corrupted blocks, only on
  slips, so the property now says this much more.
- The best quality of a group's blocks (`Quality`) and the amplitudes of a
  window (`Sum`) were folds over sets; they are now a quantified choice and a
  count, which say the same of these numbers and can be reasoned about.
- The listener of the RDS parser has a specification of its own, `ListenerSpec`.
- That errors of two bits make no C' of a C was left to the tables; the proof
  asks for it, and it holds by arithmetic on the rows of the matrix only.

## Not modelled

- Input from a file: no thread and no ring.
- Of the server: cover art, log lines, and a metadata refresh that fails, which
  takes a title of more than 224 characters where radiotext has 64. Streams
  without metadata, whose bytes are copied unchanged.
- Bytes of samples, of tables and of the WAV header; only lengths matter here.
- Of RDS: the previews, and the fields copied without condition. A text in
  groups of version 2B that fills its 32 characters is never complete; the model
  has that, and `TextSettles` therefore has the station send version A.
- Of the signal processing: arithmetic, de-emphasis, the stereo pilot, the
  carrier loop, and what liquid-dsp does (resampling, symbol synchronisation).
  `RdsClock` takes the last two as the channel. The decimators for other numbers
  of taps (`fir_decimator_process_block`, `rtl_iq_decimator_read_block_generic`)
  are not called in this build. A clock that cannot be read leaves a report out;
  without an interval there is no quality estimate.
- The phase score of the demodulator, which nothing reads.
- HTTP parsing, command line, logging and printing, which keep no state.

## The plan

Done, in this order: the server, the source, RDS from block to parser, the
muxer, metadata; then the life of the server, the pipeline with its quality
report, and the biphase clock; then the proofs of every safety property and of
both refinements. What is left:

1. Composition: a failed or stopped capture seen by all clients through
   `ServerRun` with `RtlSource`; `MpegTsMux` under `IcyStream`.
2. Requests: the range checks of `http.c`.
3. Proofs: the compositions of 1, once they are modelled.
