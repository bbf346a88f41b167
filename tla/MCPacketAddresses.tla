------------------------- MODULE MCPacketAddresses -------------------------
(* PacketAddresses with a few addresses, for TLC.                           *)
EXTENDS PacketAddresses

\* Three interfaces, two of which differ in the last octet only; octets with
\* and without a leading zero.
Interfaces == {<<0, 27, 119, 4, 5, 6>>, <<0, 27, 119, 4, 5, 7>>, <<0, 0, 0, 0, 0, 0>>}

\* Addresses whose texts are written in full, or have one stretch of zeros or
\* two, at either end or in the middle, or a single zero; and octets below 16.
Addresses == {
  <<8193, 4660, 4660, 4660, 65535, 61680, 4096, 65535>>,
  <<64512, 43690, 43690, 4369, 4369, 4112, 43690, 7967>>,
  <<43690, 0, 0, 0, 0, 0, 0, 2>>,
  <<8193, 0, 0, 3338, 0, 0, 0, 257>>,
  <<8193, 0, 2565, 0, 266, 0, 0, 0>>,
  <<65152, 0, 0, 1, 0, 0, 15, 0>>}
=============================================================================
