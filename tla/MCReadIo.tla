------------------------------ MODULE MCReadIo ------------------------------
(***************************************************************************)
(* ReadIo on a small stream for TLC.                                       *)
(***************************************************************************)
EXTENDS ReadIo

\* Two lines, the first longer than the smallest buffer and the second with a
\* byte 0xFF in it, and a rest without a line feed.
SmallStream == <<"b", "b", "b", "N", "b", "F", "N", "b">>

=============================================================================
