---- MODULE MCMpegTsMux ----
\* The muxer with short packets: 35 bytes, so that chunks of a few frames end in
\* every kind of packet. A chunk of 1 frame is one stuffed packet; of 9, two full
\* ones; of 2, a nearly empty last one; of 32, a last one whose adaptation field is
\* its length byte alone.
EXTENDS MpegTsMux
====
