---- MODULE MpegTsMux ----
\* The MPEG-TS muxer of one client (src/stream/mux_mpegts.c): a prelude of two
\* table packets, then for every chunk the two tables again and one PES packet cut
\* into transport packets. One action writes one packet; the listener's
\* demultiplexer takes it at once.
\*
\* A byte of a PES packet is its offset in that packet: what is stuffed in the
\* wrong place, dropped or sent twice shows, what the bytes say does not.
EXTENDS Integers

CONSTANTS
    PacketSize,   \* STREAM_MUX_MPEGTS_PACKET_SIZE, 188
    MaxPesBytes,  \* STREAM_MUX_MPEGTS_MAX_PES_BYTES, 4608
    Capacity,     \* the size of the buffer a call writes to, 32768
    FrameCounts,  \* how many audio frames a chunk may have; the server's have 1024
    ClockRate,    \* ticks of the PTS per second, 90000
    SampleRate,   \* audio frames per second, 48000
    PtsModulus,   \* 2^33: the PTS field has 33 bits
    MaxCalls      \* bound: how often the tables are written

Header == 4          \* the transport header
PcrField == 7        \* flags and PCR in an adaptation field
PesHeader == 18      \* PES header, PTS and LPCM header

\* The PES packet of f frames: four bytes each, whether stereo or mono.
PesLength(f) == PesHeader + 4 * f

ASSUME SizesAssumption ==
    /\ PacketSize \in Nat /\ PacketSize > Header + 1 + PcrField + PesHeader
    /\ MaxPesBytes \in Nat /\ Capacity \in Nat
    /\ FrameCounts \subseteq Nat \ {0}
    /\ MaxCalls \in Nat

\* Every chunk fits: its PES packet in the scratch buffer, the announced length in
\* 16 bits, its packets in the client's buffer.
ASSUME RoomAssumption ==
    /\ 2 * PacketSize <= Capacity
    /\ \A f \in FrameCounts :
          /\ PesLength(f) <= MaxPesBytes /\ 4 * f + 12 < 65536
          /\ 3 * PacketSize + 2 * PesLength(f) <= Capacity

ASSUME RatesAssumption ==
    /\ ClockRate \in Nat \ {0} /\ SampleRate \in Nat \ {0} /\ PtsModulus \in Nat \ {0}

Pids == {"PAT", "PMT", "AUDIO"}
None == -1

VARIABLES
    continuity_counter, \* per PID: pat_, pmt_ and audio_continuity_counter
    pts_90khz,
    pts_numerator_remainder,
    call,         \* the running call: "prelude", "write_audio"; "none", or "failed"
    frame_count,  \* its argument
    written,
    pes_offset,
    heard,        \* the listener: packets received per PID,
    last_counter, \* the counter of the last one,
    gathered,     \* bytes of the PES packet it is receiving,
    intact,       \* whether each of them was the one that had to come,
    header,       \* and what that packet's header says
    frames        \* history: the audio frames of the finished chunks

mux == <<continuity_counter, pts_90khz, pts_numerator_remainder>>
listener == <<heard, last_counter, gathered, intact, header>>
vars == <<mux, call, frame_count, written, pes_offset, listener, frames>>

\* adaptation: the length of the adaptation field, None without one. The payload
\* is bytes from..from+size-1 of the PES packet, put at byte "at".
Packet(pid, start, adaptation, at, from, size) ==
    [pid |-> pid, start |-> start, adaptation |-> adaptation,
     cc |-> continuity_counter[pid] % 16, at |-> at, from |-> from, size |-> size]

\* pes_packet_length and PTS, with the PCR that is sent ahead of them.
PesHeaderNow ==
    [announced |-> (4 + 4 * frame_count + 8) % 65536,
     pts |-> pts_90khz % PtsModulus,
     pcr |-> ((pts_90khz * 300) \div 300) % PtsModulus,
     frames |-> frames]

NoHeader == [announced |-> None, pts |-> 0, pcr |-> 0, frames |-> 0]

Init ==
    /\ continuity_counter = [p \in Pids |-> 0]
    /\ pts_90khz = 0 /\ pts_numerator_remainder = 0
    /\ call = "prelude" /\ frame_count = 0
    /\ written = 0 /\ pes_offset = 0
    /\ heard = [p \in Pids |-> 0] /\ last_counter = [p \in Pids |-> None]
    /\ gathered = 0 /\ intact = TRUE /\ header = NoHeader
    /\ frames = 0

\* Where the listener finds the payload: after the header and the adaptation field.
PayloadStart(packet) ==
    IF packet.adaptation = None THEN Header ELSE Header + 1 + packet.adaptation

ByteAt(packet, i) ==
    IF i \in packet.at .. packet.at + packet.size - 1
    THEN packet.from + (i - packet.at)
    ELSE None

\* The listener takes a packet; on the audio PID it collects the payload.
Receive(packet) ==
    /\ heard' = [heard EXCEPT ![packet.pid] = @ + 1]
    /\ last_counter' = [last_counter EXCEPT ![packet.pid] = packet.cc]
    /\ IF packet.pid = "AUDIO"
       THEN LET first == PayloadStart(packet)
                base == IF packet.start THEN 0 ELSE gathered
            IN  /\ gathered' = base + (PacketSize - first)
                /\ intact' = /\ packet.start \/ intact
                             /\ \A i \in first .. PacketSize - 1 :
                                    ByteAt(packet, i) = base + (i - first)
                /\ header' = IF packet.start THEN PesHeaderNow ELSE header
       ELSE UNCHANGED <<gathered, intact, header>>

\* Mutant: the tables are numbered anew for every chunk.
CountRestarts(pid) ==
    [continuity_counter EXCEPT ![pid] = IF pid = "AUDIO" THEN (@ + 1) % 16 ELSE 0]

CountPacket(pid) == [continuity_counter EXCEPT ![pid] = (@ + 1) % 16]

\* Writes a packet: its header takes the counter, which then counts on.
Send(packet) ==
    /\ continuity_counter' = CountPacket(packet.pid)
    /\ written' = written + PacketSize
    /\ Receive(packet)
    /\ UNCHANGED <<pts_90khz, pts_numerator_remainder, frame_count, frames>>

Table(pid) == Packet(pid, TRUE, None, Header, 0, 0)

\* A call that finds no room returns -1; the connection ends with it.
Fail ==
    /\ call' = "failed"
    /\ UNCHANGED <<mux, frame_count, written, pes_offset, listener, frames>>

stream_mux_mpegts_write_pat_packet ==
    /\ call \in {"prelude", "write_audio"} /\ written = 0
    /\ IF Capacity < 2 * PacketSize
       THEN Fail
       ELSE /\ Send(Table("PAT"))
            /\ UNCHANGED <<call, pes_offset>>

\* The second table ends the prelude; a chunk goes on with its PES packet, unless
\* that does not fit in its scratch buffer.
stream_mux_mpegts_write_pmt_packet ==
    /\ call \in {"prelude", "write_audio"} /\ written = PacketSize
    /\ Send(Table("PMT"))
    /\ call' = IF call = "prelude" THEN "none"
               ELSE IF PesLength(frame_count) > MaxPesBytes THEN "failed"
               ELSE call
    /\ UNCHANGED pes_offset

stream_mux_mpegts_write_audio(f) ==
    /\ call = "none" /\ heard["PAT"] < MaxCalls
    /\ call' = "write_audio"
    /\ frame_count' = f
    /\ written' = 0
    /\ pes_offset' = 0
    /\ UNCHANGED <<mux, listener, frames>>

Remaining == PesLength(frame_count) - pes_offset

\* The first packet of a PES packet has a PCR, and stuffing if that is all.
FirstPacket ==
    LET room == PacketSize - Header - 1 - PcrField
        size == IF Remaining < room THEN Remaining ELSE room
    IN  Packet("AUDIO", TRUE, PcrField + (room - size), PacketSize - size, 0, size)

\* Mutant: the length byte counts itself.
LastPacketOffByOne ==
    Packet("AUDIO", FALSE, PacketSize - Header - Remaining,
           PacketSize - Remaining, pes_offset, Remaining)

\* The last one is filled by an adaptation field, whose length byte does not count
\* itself.
LastPacket ==
    Packet("AUDIO", FALSE, PacketSize - Header - Remaining - 1,
           PacketSize - Remaining, pes_offset, Remaining)

FullPacket ==
    Packet("AUDIO", FALSE, None, Header, pes_offset, PacketSize - Header)

AudioPacket ==
    IF pes_offset = 0 THEN FirstPacket
    ELSE IF Remaining < PacketSize - Header THEN LastPacket
    ELSE FullPacket

\* One pass of the loop over the PES packet.
WriteAudioPacket ==
    /\ call = "write_audio" /\ written >= 2 * PacketSize /\ Remaining > 0
    /\ IF written + PacketSize > Capacity
       THEN Fail
       ELSE /\ Send(AudioPacket)
            /\ pes_offset' = pes_offset + AudioPacket.size
            /\ UNCHANGED call

Numerator == frame_count * ClockRate + pts_numerator_remainder

\* Mutant: forgets the remainder.
AdvanceRoundedDown == <<pts_90khz + (frame_count * ClockRate) \div SampleRate, 0>>

stream_mux_mpegts_advance_pts ==
    <<pts_90khz + Numerator \div SampleRate, Numerator % SampleRate>>

FinishAudio ==
    /\ call = "write_audio" /\ written >= 2 * PacketSize /\ Remaining = 0
    /\ pts_90khz' = stream_mux_mpegts_advance_pts[1]
    /\ pts_numerator_remainder' = stream_mux_mpegts_advance_pts[2]
    /\ call' = "none"
    /\ frames' = frames + frame_count
    /\ UNCHANGED <<continuity_counter, frame_count, written, pes_offset, listener>>

Next ==
    \/ stream_mux_mpegts_write_pat_packet
    \/ stream_mux_mpegts_write_pmt_packet
    \/ \E f \in FrameCounts : stream_mux_mpegts_write_audio(f)
    \/ WriteAudioPacket
    \/ FinishAudio

Spec == Init /\ [][Next]_vars

----
\* Type correctness of the muxer's state.
TypeOK ==
    /\ continuity_counter \in [Pids -> 0..15]
    /\ pts_90khz \in Nat /\ pts_numerator_remainder \in 0 .. SampleRate - 1
    /\ call \in {"none", "prelude", "write_audio", "failed"}
    /\ frame_count \in Nat /\ written \in Nat /\ pes_offset \in Nat
    /\ heard \in [Pids -> Nat] /\ last_counter \in [Pids -> None..15]
    /\ gathered \in Int /\ intact \in BOOLEAN
    /\ frames \in Nat

\* A listener never hears a gap: on each PID the packets are numbered 0 to 15 and
\* again from 0, through the prelude and all chunks (continuity_counter++ & 0x0f).
CountersAreContinuous ==
    \A p \in Pids : heard[p] > 0 => last_counter[p] = (heard[p] - 1) % 16

\* When write_audio returns it has not run out of room, and the listener has got
\* every byte of the PES packet once and in order, no stuffing among them, and as
\* many as its header announced.
PesIsWhole ==
    /\ call # "failed"
    /\ (call = "none" /\ header # NoHeader) =>
           /\ intact
           /\ gathered = header.announced + 6
           /\ gathered = PesLength(frame_count)

\* The PTS of a PES packet is the time of its first frame, rounded down: no error
\* accumulates over the chunks, and the program clock says the same.
ClockIsExact ==
    header # NoHeader =>
        /\ header.pts = ((header.frames * ClockRate) \div SampleRate) % PtsModulus
        /\ header.pcr = header.pts

\* What the next packet relies on. Every counter is the number of its packets so
\* far; a call that is cutting a PES packet has handed the listener exactly the
\* bytes before pes_offset, under the header of this chunk, in no more than twice
\* their room; and the PTS with its remainder is the time of all frames so far.
CountersAgree ==
    \A p \in Pids :
        /\ continuity_counter[p] = heard[p] % 16
        /\ heard[p] > 0 => last_counter[p] = (heard[p] - 1) % 16

CallInProgress ==
    /\ call # "failed"
    /\ call = "prelude" => written \in {0, PacketSize} /\ header = NoHeader
    /\ call = "write_audio" =>
           /\ frame_count \in FrameCounts
           /\ \/ written \in {0, PacketSize} /\ pes_offset = 0
              \/ written >= 2 * PacketSize
           /\ pes_offset <= PesLength(frame_count)
           /\ pes_offset < PesLength(frame_count) => written <= 2 * (PacketSize + pes_offset)

ListenerAgrees ==
    /\ (call = "write_audio" /\ pes_offset > 0) =>
           /\ intact /\ gathered = pes_offset
           /\ header.announced + 6 = PesLength(frame_count)
    /\ (call = "none" /\ header # NoHeader) =>
           /\ intact /\ gathered = PesLength(frame_count)
           /\ header.announced + 6 = gathered

ClockAgrees ==
    /\ frames * ClockRate = pts_90khz * SampleRate + pts_numerator_remainder
    /\ header # NoHeader =>
           /\ header.pts = ((header.frames * ClockRate) \div SampleRate) % PtsModulus
           /\ header.pcr = header.pts

\* The invariant the proofs rest on.
InductiveInvariant ==
    /\ TypeOK
    /\ CountersAgree
    /\ CallInProgress
    /\ ListenerAgrees
    /\ ClockAgrees

====
