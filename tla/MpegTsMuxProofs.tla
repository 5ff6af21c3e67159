---- MODULE MpegTsMuxProofs ----
\* Proofs about the MPEG-TS muxer, for every packet size, frame count and rate:
\* the packets of each PID are numbered without a gap, a listener gets each PES
\* packet whole, and the PTS does not drift.
EXTENDS MpegTsMux, TLAPS

----
\* Arithmetic.

\* A quotient and what is left of it.
LEMMA DivisionIsExact ==
    ASSUME NEW s \in Nat \ {0}, NEW n \in Nat
    PROVE  /\ n \div s \in Nat
           /\ n % s \in 0 .. s - 1
           /\ n = (n \div s) * s + (n % s)
  OBVIOUS

\* The whole part of a time kept as ticks and a remainder is its ticks.
LEMMA TicksOfTime ==
    ASSUME NEW s \in Nat \ {0}, NEW q \in Nat, NEW r \in 0 .. s - 1
    PROVE  (q * s + r) \div s = q
  OBVIOUS

LEMMA ProductOfSum ==
    ASSUME NEW s \in Nat, NEW a \in Nat, NEW b \in Nat
    PROVE  (a + b) * s = a * s + b * s /\ a * s \in Nat
  OBVIOUS

----
\* One packet.

\* Sending keeps the counters the number of packets sent, modulo 16.
LEMMA SendCounts ==
    ASSUME TypeOK, CountersAgree, NEW packet, packet.pid \in Pids,
           packet.cc = continuity_counter[packet.pid] % 16, Send(packet)
    PROVE  /\ CountersAgree'
           /\ continuity_counter' \in [Pids -> 0..15]
           /\ heard' \in [Pids -> Nat] /\ last_counter' \in [Pids -> None..15]
<1> DEFINE c == continuity_counter
           q == packet.pid
<1>1. /\ c' = [c EXCEPT ![q] = (@ + 1) % 16]
      /\ heard' = [heard EXCEPT ![q] = @ + 1]
      /\ last_counter' = [last_counter EXCEPT ![q] = packet.cc]
  BY DEF Send, CountPacket, Receive
<1>2. /\ c \in [Pids -> 0..15] /\ heard \in [Pids -> Nat]
      /\ last_counter \in [Pids -> None..15]
  BY DEF TypeOK
<1>3. \A p \in Pids : c[p] = heard[p] % 16
                      /\ (heard[p] > 0 => last_counter[p] = (heard[p] - 1) % 16)
  BY DEF CountersAgree
<1>4. /\ c' \in [Pids -> 0..15] /\ heard' \in [Pids -> Nat]
      /\ last_counter' \in [Pids -> None..15]
  <2>1. c[q] \in 0..15
    BY <1>2
  <2>2. (c[q] + 1) % 16 \in 0..15 /\ c[q] % 16 \in None..15
    BY <2>1 DEF None
  <2> QED BY <1>1, <1>2, <2>2
<1>5. ASSUME NEW p \in Pids
      PROVE  c'[p] = heard'[p] % 16
             /\ (heard'[p] > 0 => last_counter'[p] = (heard'[p] - 1) % 16)
  <2>1. CASE p = q
    <3>1. c'[p] = (c[p] + 1) % 16 /\ heard'[p] = heard[p] + 1 /\ last_counter'[p] = c[p] % 16
      BY <1>1, <1>2, <2>1
    <3>2. heard[p] \in Nat /\ c[p] = heard[p] % 16
      BY <1>2, <1>3
    <3> QED BY <3>1, <3>2
  <2>2. CASE p # q
    <3>1. c'[p] = c[p] /\ heard'[p] = heard[p] /\ last_counter'[p] = last_counter[p]
      BY <1>1, <1>2, <2>2
    <3> QED BY <1>3, <3>1
  <2> QED BY <2>1, <2>2
<1> QED BY <1>4, <1>5 DEF CountersAgree

\* A packet whose payload ends with the packet and starts where the listener looks
\* for it brings exactly the bytes after those already there.
LEMMA PayloadArrives ==
    ASSUME NEW packet, NEW size \in Nat, NEW from \in Nat, NEW base \in Nat,
           packet.size = size, packet.from = from, packet.at = PacketSize - size,
           PayloadStart(packet) = PacketSize - size, from = base, size <= PacketSize
    PROVE  /\ base + (PacketSize - PayloadStart(packet)) = base + size
           /\ \A i \in PayloadStart(packet) .. PacketSize - 1 :
                  ByteAt(packet, i) = base + (i - PayloadStart(packet))
  BY SizesAssumption DEF ByteAt

\* What one pass of the loop sends, and what the listener makes of it.
LEMMA PassSendsNextBytes ==
    ASSUME TypeOK, CallInProgress, ListenerAgrees, call = "write_audio",
           written >= 2 * PacketSize, Remaining > 0, Send(AudioPacket)
    PROVE  /\ AudioPacket.size \in Nat /\ AudioPacket.size <= Remaining
           /\ AudioPacket.size < Remaining => 2 * AudioPacket.size >= PacketSize
           /\ AudioPacket.size > 0
           /\ gathered' = pes_offset + AudioPacket.size
           /\ intact'
           /\ AudioPacket.pid = "AUDIO"
           /\ AudioPacket.cc = continuity_counter["AUDIO"] % 16
           /\ header' = IF pes_offset = 0 THEN PesHeaderNow ELSE header
<1> DEFINE p == AudioPacket
<1>1. /\ PacketSize \in Nat /\ PacketSize > 30
      /\ frame_count \in Nat /\ pes_offset \in Nat
      /\ Remaining \in Nat /\ Remaining = 18 + 4 * frame_count - pes_offset
  BY SizesAssumption DEF TypeOK, Remaining, PesLength, Header, PcrField, PesHeader
<1>2. CASE pes_offset = 0
  <2>1. p = FirstPacket
    BY <1>2 DEF AudioPacket
  <2> DEFINE room == PacketSize - 12
             size == IF Remaining < room THEN Remaining ELSE room
  <2>2. /\ p.pid = "AUDIO" /\ p.start = TRUE /\ p.adaptation = 7 + (room - size)
        /\ p.at = PacketSize - size /\ p.from = 0 /\ p.size = size
        /\ p.cc = continuity_counter["AUDIO"] % 16
    BY <2>1, <1>1 DEF FirstPacket, Packet, Header, PcrField
  <2>3. size \in Nat /\ size > 0 /\ size <= Remaining /\ size <= PacketSize
        /\ (size < Remaining => 2 * size >= PacketSize)
    BY <1>1
  <2>4. PayloadStart(p) = PacketSize - size
    <3>1. 7 + (room - size) # -1
      BY <1>1, <2>3
    <3> QED BY <1>1, <2>2, <2>3, <3>1 DEF PayloadStart, Header, None
  <2> HIDE DEF p, size
  <2>5. /\ gathered' = 0 + (PacketSize - PayloadStart(p))
        /\ intact' = \A i \in PayloadStart(p) .. PacketSize - 1 :
                         ByteAt(p, i) = 0 + (i - PayloadStart(p))
        /\ header' = PesHeaderNow
    BY <2>2 DEF Send, Receive, p
  <2>6. /\ 0 + (PacketSize - PayloadStart(p)) = 0 + size
        /\ \A i \in PayloadStart(p) .. PacketSize - 1 :
               ByteAt(p, i) = 0 + (i - PayloadStart(p))
    <3>1. 0 \in Nat
      OBVIOUS
    <3> QED BY <2>2, <2>3, <2>4, <3>1, PayloadArrives
  <2> QED BY <1>2, <2>2, <2>3, <2>5, <2>6 DEF p
<1>3. CASE pes_offset # 0
  <2> DEFINE size == IF Remaining < PacketSize - 4 THEN Remaining ELSE PacketSize - 4
  <2>1. intact = TRUE /\ gathered = pes_offset
    BY <1>1, <1>3 DEF ListenerAgrees, TypeOK
  <2>2. /\ p.pid = "AUDIO" /\ p.start = FALSE
        /\ p.at = PacketSize - size /\ p.from = pes_offset /\ p.size = size
        /\ p.cc = continuity_counter["AUDIO"] % 16
        /\ p.adaptation = IF Remaining < PacketSize - 4 THEN PacketSize - 4 - Remaining - 1
                          ELSE None
    BY <1>1, <1>3 DEF AudioPacket, LastPacket, FullPacket, Packet, Header
  <2>3. size \in Nat /\ size > 0 /\ size <= Remaining /\ size <= PacketSize
        /\ (size < Remaining => 2 * size >= PacketSize)
    BY <1>1
  <2>4. PayloadStart(p) = PacketSize - size
    <3>1. CASE Remaining < PacketSize - 4
      <4>1. PacketSize - 4 - Remaining - 1 # -1
        BY <1>1, <3>1
      <4> QED BY <1>1, <2>2, <3>1, <4>1 DEF PayloadStart, Header, None
    <3>2. CASE ~(Remaining < PacketSize - 4)
      BY <1>1, <2>2, <3>2 DEF PayloadStart, Header, None
    <3> QED BY <3>1, <3>2
  <2> HIDE DEF p, size
  <2>5. /\ gathered' = gathered + (PacketSize - PayloadStart(p))
        /\ intact' = /\ intact
                     /\ \A i \in PayloadStart(p) .. PacketSize - 1 :
                            ByteAt(p, i) = gathered + (i - PayloadStart(p))
        /\ header' = header
    BY <2>2 DEF Send, Receive, p
  <2>6. /\ gathered + (PacketSize - PayloadStart(p)) = gathered + size
        /\ \A i \in PayloadStart(p) .. PacketSize - 1 :
               ByteAt(p, i) = gathered + (i - PayloadStart(p))
    BY <1>1, <2>1, <2>2, <2>3, <2>4, PayloadArrives
  <2> QED BY <1>3, <2>1, <2>2, <2>3, <2>5, <2>6 DEF p
<1> QED BY <1>2, <1>3

----
\* The actions.

LEMMA InitEstablishes == Init => InductiveInvariant
<1> SUFFICES ASSUME Init PROVE InductiveInvariant
  OBVIOUS
<1> USE SizesAssumption, RatesAssumption
<1>1. TypeOK
  BY DEF Init, TypeOK, None
<1>2. CountersAgree
  BY DEF Init, CountersAgree
<1>3. CallInProgress
  BY DEF Init, CallInProgress
<1>4. ListenerAgrees
  BY DEF Init, ListenerAgrees, NoHeader
<1>5. ClockAgrees
  BY DEF Init, ClockAgrees, NoHeader
<1> QED BY <1>1, <1>2, <1>3, <1>4, <1>5 DEF InductiveInvariant

\* Both tables: they touch neither the listener's PES packet nor the clock.
LEMMA TableSent ==
    ASSUME InductiveInvariant, NEW pid \in {"PAT", "PMT"}, Send(Table(pid))
    PROVE  /\ CountersAgree'
           /\ continuity_counter' \in [Pids -> 0..15]
           /\ heard' \in [Pids -> Nat] /\ last_counter' \in [Pids -> None..15]
           /\ written' = written + PacketSize
           /\ UNCHANGED <<gathered, intact, header, pts_90khz, pts_numerator_remainder,
                          frame_count, frames>>
<1> DEFINE p == Table(pid)
<1>1. p.pid = pid /\ p.cc = continuity_counter[pid] % 16
  BY DEF Table, Packet
<1> HIDE DEF p
<1>2. p.pid \in Pids /\ p.pid # "AUDIO"
  BY <1>1 DEF Pids
<1>3. Send(p)
  BY DEF p
<1>4. /\ CountersAgree'
      /\ continuity_counter' \in [Pids -> 0..15]
      /\ heard' \in [Pids -> Nat] /\ last_counter' \in [Pids -> None..15]
  BY <1>1, <1>2, <1>3, SendCounts DEF InductiveInvariant
<1>5. UNCHANGED <<gathered, intact, header>>
  BY <1>2, <1>3 DEF Send, Receive
<1> QED BY <1>3, <1>4, <1>5 DEF Send

LEMMA PatPreserves ==
    ASSUME InductiveInvariant, stream_mux_mpegts_write_pat_packet
    PROVE  InductiveInvariant'
<1>1. /\ call \in {"prelude", "write_audio"} /\ written = 0
      /\ TypeOK /\ CallInProgress /\ ListenerAgrees /\ ClockAgrees
  BY DEF stream_mux_mpegts_write_pat_packet, InductiveInvariant
<1>2. /\ PacketSize \in Nat /\ PacketSize > 0
      /\ ~(Capacity < 2 * PacketSize)
  BY SizesAssumption, RoomAssumption DEF Header, PcrField, PesHeader
<1>3. Send(Table("PAT")) /\ UNCHANGED <<call, pes_offset>>
  BY <1>2 DEF stream_mux_mpegts_write_pat_packet
<1>4. /\ CountersAgree'
      /\ continuity_counter' \in [Pids -> 0..15]
      /\ heard' \in [Pids -> Nat] /\ last_counter' \in [Pids -> None..15]
      /\ written' = written + PacketSize
      /\ UNCHANGED <<gathered, intact, header, pts_90khz, pts_numerator_remainder,
                     frame_count, frames>>
  BY <1>3, TableSent
<1>5. TypeOK'
  BY <1>1, <1>2, <1>3, <1>4 DEF TypeOK
<1>6. CallInProgress'
  BY <1>1, <1>2, <1>3, <1>4 DEF CallInProgress, PesLength, TypeOK
<1>7. ListenerAgrees'
  BY <1>1, <1>3, <1>4 DEF ListenerAgrees, PesLength
<1>8. ClockAgrees'
  BY <1>1, <1>4 DEF ClockAgrees
<1> QED BY <1>4, <1>5, <1>6, <1>7, <1>8 DEF InductiveInvariant

LEMMA PmtPreserves ==
    ASSUME InductiveInvariant, stream_mux_mpegts_write_pmt_packet
    PROVE  InductiveInvariant'
<1>1. /\ call \in {"prelude", "write_audio"} /\ written = PacketSize
      /\ TypeOK /\ CallInProgress /\ ListenerAgrees /\ ClockAgrees
      /\ Send(Table("PMT")) /\ UNCHANGED pes_offset
  BY DEF stream_mux_mpegts_write_pmt_packet, InductiveInvariant
<1>2. PacketSize \in Nat /\ PacketSize > 0
  BY SizesAssumption DEF Header, PcrField, PesHeader
<1>3. call' = IF call = "prelude" THEN "none" ELSE call
  <2>1. call = "write_audio" => ~(PesLength(frame_count) > MaxPesBytes)
    <3> SUFFICES ASSUME call = "write_audio"
                 PROVE  ~(PesLength(frame_count) > MaxPesBytes)
      OBVIOUS
    <3>1. frame_count \in FrameCounts /\ frame_count \in Nat /\ MaxPesBytes \in Nat
      BY <1>1, SizesAssumption DEF CallInProgress
    <3>2. PesLength(frame_count) <= MaxPesBytes
      BY <3>1, RoomAssumption
    <3>3. PesLength(frame_count) \in Nat
      BY <3>1 DEF PesLength, PesHeader
    <3> QED BY <3>1, <3>2, <3>3
  <2> QED BY <1>1, <2>1 DEF stream_mux_mpegts_write_pmt_packet
<1>4. /\ CountersAgree'
      /\ continuity_counter' \in [Pids -> 0..15]
      /\ heard' \in [Pids -> Nat] /\ last_counter' \in [Pids -> None..15]
      /\ written' = written + PacketSize
      /\ UNCHANGED <<gathered, intact, header, pts_90khz, pts_numerator_remainder,
                     frame_count, frames>>
  BY <1>1, TableSent
<1>5. TypeOK'
  BY <1>1, <1>2, <1>3, <1>4 DEF TypeOK
<1>6. CallInProgress'
  <2>1. CASE call = "prelude"
    BY <1>3, <2>1 DEF CallInProgress
  <2>2. CASE call = "write_audio"
    <3>1. /\ frame_count \in FrameCounts /\ pes_offset = 0
          /\ pes_offset <= PesLength(frame_count)
      BY <1>1, <1>2, <2>2 DEF CallInProgress
    <3> QED BY <1>1, <1>2, <1>3, <1>4, <2>2, <3>1 DEF CallInProgress, PesLength
  <2> QED BY <1>1, <2>1, <2>2
<1>7. ListenerAgrees'
  <2>1. CASE call = "prelude"
    BY <1>1, <1>3, <1>4, <2>1 DEF ListenerAgrees, CallInProgress
  <2>2. CASE call = "write_audio"
    BY <1>1, <1>3, <1>4, <2>2 DEF ListenerAgrees, PesLength
  <2> QED BY <1>1, <2>1, <2>2
<1>8. ClockAgrees'
  BY <1>1, <1>4 DEF ClockAgrees
<1> QED BY <1>4, <1>5, <1>6, <1>7, <1>8 DEF InductiveInvariant

LEMMA StartPreserves ==
    ASSUME InductiveInvariant, NEW f \in FrameCounts, stream_mux_mpegts_write_audio(f)
    PROVE  InductiveInvariant'
<1>1. /\ TypeOK /\ CountersAgree /\ CallInProgress /\ ListenerAgrees /\ ClockAgrees
      /\ call' = "write_audio" /\ frame_count' = f /\ written' = 0 /\ pes_offset' = 0
      /\ UNCHANGED <<continuity_counter, pts_90khz, pts_numerator_remainder, heard,
                     last_counter, gathered, intact, header, frames>>
  BY DEF stream_mux_mpegts_write_audio, InductiveInvariant, mux, listener
<1>2. f \in Nat /\ PacketSize \in Nat
  BY SizesAssumption
<1>3. TypeOK'
  BY <1>1, <1>2 DEF TypeOK
<1>4. CountersAgree'
  BY <1>1 DEF CountersAgree
<1>5. CallInProgress'
  BY <1>1, <1>2 DEF CallInProgress, PesLength, PesHeader
<1>6. ListenerAgrees'
  BY <1>1 DEF ListenerAgrees
<1>7. ClockAgrees'
  BY <1>1 DEF ClockAgrees
<1> QED BY <1>3, <1>4, <1>5, <1>6, <1>7 DEF InductiveInvariant

LEMMA PassPreserves ==
    ASSUME InductiveInvariant, WriteAudioPacket
    PROVE  InductiveInvariant'
<1>1. /\ call = "write_audio" /\ written >= 2 * PacketSize /\ Remaining > 0
      /\ TypeOK /\ CountersAgree /\ CallInProgress /\ ListenerAgrees /\ ClockAgrees
  BY DEF WriteAudioPacket, InductiveInvariant
<1>2. /\ PacketSize \in Nat /\ PacketSize > 30 /\ Capacity \in Nat
      /\ frame_count \in FrameCounts /\ frame_count \in Nat /\ pes_offset \in Nat
      /\ written \in Nat
      /\ Remaining = PesLength(frame_count) - pes_offset
      /\ PesLength(frame_count) = 18 + 4 * frame_count
  BY <1>1, SizesAssumption
  DEF TypeOK, CallInProgress, Remaining, PesLength, Header, PcrField, PesHeader
<1>3. ~(written + PacketSize > Capacity)
  <2>1. 3 * PacketSize + 2 * PesLength(frame_count) <= Capacity
    BY <1>2, RoomAssumption
  <2>2. written <= 2 * (PacketSize + pes_offset)
    BY <1>1, <1>2 DEF CallInProgress
  <2> QED BY <1>1, <1>2, <2>1, <2>2
<1>4. /\ Send(AudioPacket) /\ pes_offset' = pes_offset + AudioPacket.size
      /\ UNCHANGED call
  BY <1>3 DEF WriteAudioPacket
<1> DEFINE size == AudioPacket.size
<1>5. /\ size \in Nat /\ size <= Remaining /\ size > 0
      /\ size < Remaining => 2 * size >= PacketSize
      /\ gathered' = pes_offset + size /\ intact' = TRUE
      /\ AudioPacket.pid = "AUDIO"
      /\ AudioPacket.cc = continuity_counter["AUDIO"] % 16
      /\ header' = IF pes_offset = 0 THEN PesHeaderNow ELSE header
  <2>1. intact'
    BY <1>1, <1>4, PassSendsNextBytes
  <2>2. intact' \in BOOLEAN
    BY <1>1, <1>4 DEF Send, Receive, TypeOK
  <2> QED BY <1>1, <1>4, <2>1, <2>2, PassSendsNextBytes
<1>6. /\ CountersAgree'
      /\ continuity_counter' \in [Pids -> 0..15]
      /\ heard' \in [Pids -> Nat] /\ last_counter' \in [Pids -> None..15]
  <2>1. AudioPacket.pid \in Pids
    BY <1>5 DEF Pids
  <2> QED BY <1>1, <1>4, <1>5, <2>1, SendCounts
<1>7. /\ written' = written + PacketSize
      /\ UNCHANGED <<pts_90khz, pts_numerator_remainder, frame_count, frames, call>>
      /\ pes_offset' = pes_offset + size
  BY <1>4 DEF Send
<1> HIDE DEF size
<1>8. TypeOK'
  BY <1>1, <1>2, <1>5, <1>6, <1>7 DEF TypeOK
<1>9. CallInProgress'
  <2>1. /\ frame_count' = frame_count /\ PesLength(frame_count)' = PesLength(frame_count)
        /\ call' = "write_audio"
    BY <1>1, <1>7 DEF PesLength
  <2>2. pes_offset' <= PesLength(frame_count) /\ written' >= 2 * PacketSize
    BY <1>1, <1>2, <1>5, <1>7
  <2>3. pes_offset' < PesLength(frame_count) => written' <= 2 * (PacketSize + pes_offset')
    <3>1. written <= 2 * (PacketSize + pes_offset)
      BY <1>1, <1>2 DEF CallInProgress
    <3> QED BY <1>2, <1>5, <1>7, <3>1
  <2> QED BY <1>2, <2>1, <2>2, <2>3 DEF CallInProgress
<1>10. ListenerAgrees'
  <2>1. header'.announced + 6 = PesLength(frame_count)
    <3>1. CASE pes_offset = 0
      <4>1. header'.announced = (4 + 4 * frame_count + 8) % 65536
        BY <1>5, <3>1 DEF PesHeaderNow
      <4>2. 4 * frame_count + 12 < 65536
        BY <1>2, RoomAssumption
      <4> QED BY <1>2, <4>1, <4>2
    <3>2. CASE pes_offset # 0
      <4>1. pes_offset > 0
        BY <1>2, <3>2
      <4> QED BY <1>1, <1>5, <3>2, <4>1 DEF ListenerAgrees
    <3> QED BY <3>1, <3>2
  <2>2. PesLength(frame_count)' = PesLength(frame_count) /\ call' = "write_audio"
    BY <1>1, <1>7 DEF PesLength
  <2> QED BY <1>5, <1>7, <2>1, <2>2 DEF ListenerAgrees
<1>11. ClockAgrees'
  <2>1. CASE pes_offset = 0
    <3>1. /\ header'.pts = pts_90khz % PtsModulus
          /\ header'.pcr = ((pts_90khz * 300) \div 300) % PtsModulus
          /\ header'.frames = frames
      BY <1>5, <2>1 DEF PesHeaderNow
    <3>2. pts_90khz \in Nat /\ (pts_90khz * 300) \div 300 = pts_90khz
      <4>1. pts_90khz \in Nat
        BY <1>1 DEF TypeOK
      <4> QED BY <4>1
    <3>3. (frames * ClockRate) \div SampleRate = pts_90khz
      <4>1. frames * ClockRate = pts_90khz * SampleRate + pts_numerator_remainder
        BY <1>1 DEF ClockAgrees
      <4>2. pts_numerator_remainder \in 0 .. SampleRate - 1 /\ SampleRate \in Nat \ {0}
        BY <1>1, RatesAssumption DEF TypeOK
      <4>3. (pts_90khz * SampleRate + pts_numerator_remainder) \div SampleRate = pts_90khz
        BY <3>2, <4>2, TicksOfTime
      <4> QED BY <4>1, <4>3
    <3> QED BY <1>1, <1>7, <3>1, <3>2, <3>3 DEF ClockAgrees
  <2>2. CASE pes_offset # 0
    BY <1>1, <1>5, <1>7, <2>2 DEF ClockAgrees
  <2> QED BY <2>1, <2>2
<1> QED BY <1>6, <1>8, <1>9, <1>10, <1>11 DEF InductiveInvariant

LEMMA FinishPreserves ==
    ASSUME InductiveInvariant, FinishAudio
    PROVE  InductiveInvariant'
<1>1. /\ call = "write_audio" /\ Remaining = 0 /\ call' = "none"
      /\ TypeOK /\ CountersAgree /\ CallInProgress /\ ListenerAgrees /\ ClockAgrees
      /\ frames' = frames + frame_count
      /\ pts_90khz' = pts_90khz + Numerator \div SampleRate
      /\ pts_numerator_remainder' = Numerator % SampleRate
      /\ UNCHANGED <<continuity_counter, heard, last_counter, gathered, intact, header,
                     frame_count, written, pes_offset>>
  BY DEF FinishAudio, InductiveInvariant, stream_mux_mpegts_advance_pts, listener
<1>2. /\ SampleRate \in Nat \ {0} /\ ClockRate \in Nat
      /\ frame_count \in Nat /\ frames \in Nat /\ pts_90khz \in Nat
      /\ pts_numerator_remainder \in Nat
  BY <1>1, RatesAssumption DEF TypeOK
<1>3. /\ frame_count * ClockRate \in Nat /\ frames * ClockRate \in Nat
      /\ (frames + frame_count) * ClockRate = frames * ClockRate + frame_count * ClockRate
  BY <1>2, ProductOfSum
<1>4. Numerator = frame_count * ClockRate + pts_numerator_remainder /\ Numerator \in Nat
  BY <1>2, <1>3 DEF Numerator
<1> DEFINE n == Numerator
<1> HIDE DEF n
<1>5. /\ n \div SampleRate \in Nat /\ n % SampleRate \in 0 .. SampleRate - 1
      /\ n = (n \div SampleRate) * SampleRate + (n % SampleRate)
  BY <1>2, <1>4, DivisionIsExact DEF n
<1>6. TypeOK'
  <2>1. /\ pts_90khz' \in Nat /\ pts_numerator_remainder' \in 0 .. SampleRate - 1
        /\ frames' \in Nat
    BY <1>1, <1>2, <1>5 DEF n
  <2> QED BY <1>1, <2>1 DEF TypeOK
<1>7. CountersAgree'
  BY <1>1 DEF CountersAgree
<1>8. CallInProgress'
  BY <1>1 DEF CallInProgress
<1>9. ListenerAgrees'
  <2>1. pes_offset \in Nat /\ pes_offset = PesLength(frame_count) /\ pes_offset > 0
    BY <1>1, <1>2 DEF Remaining, PesLength, PesHeader, TypeOK
  <2>2. intact /\ gathered = pes_offset /\ header.announced + 6 = PesLength(frame_count)
    BY <1>1, <2>1 DEF ListenerAgrees
  <2>3. PesLength(frame_count)' = PesLength(frame_count)
    BY <1>1 DEF PesLength
  <2> QED BY <1>1, <2>1, <2>2, <2>3 DEF ListenerAgrees
<1>10. ClockAgrees'
  <2>1. frames * ClockRate = pts_90khz * SampleRate + pts_numerator_remainder
    BY <1>1 DEF ClockAgrees
  <2>2. (pts_90khz + n \div SampleRate) * SampleRate
           = pts_90khz * SampleRate + (n \div SampleRate) * SampleRate
    BY <1>2, <1>5, ProductOfSum
  <2>3. /\ pts_90khz * SampleRate \in Nat /\ (n \div SampleRate) * SampleRate \in Nat
        /\ n % SampleRate \in Nat
    BY <1>2, <1>5, ProductOfSum
  <2>4. frames' * ClockRate = frames * ClockRate + frame_count * ClockRate
    BY <1>1, <1>3
  <2>5. pts_90khz' * SampleRate
           = pts_90khz * SampleRate + (n \div SampleRate) * SampleRate
    BY <1>1, <2>2 DEF n
  <2>6. n = frame_count * ClockRate + pts_numerator_remainder
        /\ pts_numerator_remainder' = n % SampleRate
    BY <1>1, <1>4 DEF n
  <2>7. frames' * ClockRate = pts_90khz' * SampleRate + pts_numerator_remainder'
    <3> DEFINE a == frames * ClockRate
               b == frame_count * ClockRate
               c == pts_90khz * SampleRate
               d == (n \div SampleRate) * SampleRate
               e == n % SampleRate
    <3>1. a \in Nat /\ b \in Nat /\ c \in Nat /\ d \in Nat /\ e \in Nat
      BY <1>3, <2>3
    <3>2. a = c + pts_numerator_remainder /\ n = b + pts_numerator_remainder /\ n = d + e
      BY <1>5, <2>1, <2>6
    <3> HIDE DEF a, b, c, d, e
    <3>3. a + b = (c + d) + e
      BY <1>2, <3>1, <3>2
    <3> QED BY <2>4, <2>5, <2>6, <3>3 DEF a, b, c, d, e
  <2> QED BY <1>1, <2>7 DEF ClockAgrees
<1> QED BY <1>6, <1>7, <1>8, <1>9, <1>10 DEF InductiveInvariant

LEMMA StutterPreserves ==
    ASSUME InductiveInvariant, UNCHANGED vars
    PROVE  InductiveInvariant'
<1>1. UNCHANGED <<continuity_counter, pts_90khz, pts_numerator_remainder, call, frame_count,
                  written, pes_offset, heard, last_counter, gathered, intact, header, frames>>
  BY DEF vars, mux, listener
<1>2. TypeOK'
  BY <1>1 DEF InductiveInvariant, TypeOK
<1>3. CountersAgree' /\ CallInProgress'
  BY <1>1 DEF InductiveInvariant, CountersAgree, CallInProgress, PesLength
<1>4. ListenerAgrees' /\ ClockAgrees'
  BY <1>1 DEF InductiveInvariant, ListenerAgrees, ClockAgrees, PesLength
<1> QED BY <1>2, <1>3, <1>4 DEF InductiveInvariant

LEMMA NextPreserves ==
    ASSUME InductiveInvariant, [Next]_vars
    PROVE  InductiveInvariant'
<1>1. CASE stream_mux_mpegts_write_pat_packet
  BY <1>1, PatPreserves
<1>2. CASE stream_mux_mpegts_write_pmt_packet
  BY <1>2, PmtPreserves
<1>3. ASSUME NEW f \in FrameCounts, stream_mux_mpegts_write_audio(f)
      PROVE  InductiveInvariant'
  BY <1>3, StartPreserves
<1>4. CASE WriteAudioPacket
  BY <1>4, PassPreserves
<1>5. CASE FinishAudio
  BY <1>5, FinishPreserves
<1>6. CASE UNCHANGED vars
  BY <1>6, StutterPreserves
<1> QED BY <1>1, <1>2, <1>3, <1>4, <1>5, <1>6 DEF Next

----
\* The invariant holds of every behaviour of the muxer.
THEOREM MuxInvariant == Spec => []InductiveInvariant
<1>1. Init => InductiveInvariant
  BY InitEstablishes
<1>2. InductiveInvariant /\ [Next]_vars => InductiveInvariant'
  BY NextPreserves
<1> QED BY <1>1, <1>2, PTL DEF Spec

\* On each PID the listener counts 0 to 15 again and again, without a gap.
THEOREM ListenerHearsNoGap == Spec => []CountersAreContinuous
<1>1. InductiveInvariant => CountersAreContinuous
  BY DEF InductiveInvariant, CountersAgree, CountersAreContinuous
<1> QED BY <1>1, MuxInvariant, PTL

\* Every chunk's PES packet arrives whole, and no call runs out of room.
THEOREM ListenerGetsWholePes == Spec => []PesIsWhole
<1>1. InductiveInvariant => PesIsWhole
  BY DEF InductiveInvariant, CallInProgress, ListenerAgrees, PesIsWhole
<1> QED BY <1>1, MuxInvariant, PTL

\* The PTS is the time of the frames sent, for ever.
THEOREM ClockDoesNotDrift == Spec => []ClockIsExact
<1>1. InductiveInvariant => ClockIsExact
  BY DEF InductiveInvariant, ClockAgrees, ClockIsExact
<1> QED BY <1>1, MuxInvariant, PTL

====
