---------------------------- MODULE MCForwarding ----------------------------
(* Instances of the data path.  The frames: a UDP payload of 100 bytes, a    *)
(* datagram the tun buffer cuts short and one whose UDP header announces     *)
(* less than a UDP header.                                                   *)
EXTENDS Forwarding

CONSTANTS n1, n2

UdpFrame   == [proto |-> 17, ihl |-> 5, udplen |-> 108, len |-> 128]
LongFrame  == [proto |-> 17, ihl |-> 6, udplen |-> 2992, len |-> 3016]
ShortFrame == [proto |-> 17, ihl |-> 5, udplen |-> 4, len |-> 24]

AllHeaders == {UdpFrame, LongFrame, ShortFrame}
OneHeader  == {UdpFrame}

OneNode  == <<n1>>
TwoNodes == <<n1, n2>>
Unroutable == {n2}
None == {}
=============================================================================
