-------------------------------- MODULE Frame --------------------------------
(***************************************************************************)
(* The IP frame the tun device hands to handle_local_frame (src/src/       *)
(* route.c), reduced to the four numbers that decide what happens to it:   *)
(* the protocol, the header length in 32-bit words, the length field of    *)
(* the UDP header and the number of bytes read.                            *)
(***************************************************************************)
EXTENDS Integers

UDP == 17
UdpHeaderLen == 8

FrameHeaders == [proto : 0..255, ihl : 0..15, udplen : 0..(2^16 - 1), len : Nat]

\* read() on a tun device: a packet longer than the buffer is cut to fit, and
\* the headers still say how long it was.
Truncated(h, buflen) == IF h.len > buflen THEN [h EXCEPT !.len = buflen] ELSE h

\* Where the payload begins.
PayloadStart(h) == h.ihl * 4 + UdpHeaderLen

\* data_len of handle_local_frame.
DataLen(h) == h.len - PayloadStart(h)

\* Variant with a bug, for the mutants of PROJECT.json: the length of the
\* payload is not tested.
ForwardsShort(h) ==
    /\ h.proto = UDP
    /\ h.ihl * 4 + h.udplen = h.len

\* The frame is broadcast: the three tests of handle_local_frame.
Forwards(h) ==
    /\ h.proto = UDP
    /\ h.ihl * 4 + h.udplen = h.len
    /\ DataLen(h) >= 0
=============================================================================
