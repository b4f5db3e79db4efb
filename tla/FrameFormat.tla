----------------------------- MODULE FrameFormat -----------------------------
(***************************************************************************)
(* The wire format of the HC33's TCP port, in both directions (the header  *)
(* of firmware/src/tcp_proxy.h): a 2-byte big-endian length N and N bytes. *)
(***************************************************************************)
EXTENDS Integers, Sequences

Byte == 0 .. 255
U16 == 0 .. 256 * 256 - 1

Header(n) == <<n \div 256, n % 256>>

Encode(payload) == Header(Len(payload)) \o payload

\* The length the header at the front of a stream announces.
HeaderLen(stream) == 256 * stream[1] + stream[2]
=============================================================================
