------------------------------ MODULE WriteIo -------------------------------
(***************************************************************************)
(* The helpers that write a whole buffer to a descriptor: rio_write        *)
(* (utils/rio_r_w.h), http_Writen (utils/http_io.c), Write_s (inc/sock.h,  *)
(* and again in inc/common.h), called by a caller that sends a long text   *)
(* piece by piece and goes on where the count it got says.                 *)
(*                                                                         *)
(* A byte is its position in the text; 0 stands for a byte of memory       *)
(* outside the buffer of the call.  One action is one call of write with   *)
(* the code up to the next one.                                            *)
(*                                                                         *)
(* Variants are definitions with a plausible mistake, as in HandOff.       *)
(***************************************************************************)
EXTENDS Integers, Sequences

CONSTANTS
  Helpers,   \* the helpers a run looks at
  MaxText,   \* bound on the text
  MaxLen,    \* longest buffer of a call
  SizeT,     \* number of values of size_t
  MaxFail,   \* bound on failing writes
  MaxWire    \* bound on what the receiver reads

AllHelpers == {"rio_write", "http_Writen", "Write_s"}

ASSUME WriteIoAssumption ==
  /\ Helpers \subseteq AllHelpers
  /\ MaxText \in Nat /\ MaxLen \in Nat \ {0}
  /\ MaxFail \in Nat /\ MaxWire \in Nat
  /\ SizeT \in Nat /\ SizeT > 2 * (MaxLen + MaxFail)

VARIABLES
  fn,      \* the helper this caller uses
  pc,      \* "idle", "loop", or "over" after a result of -1
  len,     \* length of the buffer
  nleft,   \* the loop's counter
  ptr,     \* offset of the next byte to write, may leave the buffer
  base,    \* what the caller takes for sent: the buffer starts behind it
  fails,   \* failed writes so far
  cut,     \* history: a write took less than it was given
  wire     \* history: the bytes written

vars == <<fn, pc, len, nleft, ptr, base, fails, cut, wire>>

Least(a, b) == IF a <= b THEN a ELSE b

\* The byte of the text at offset i of the buffer.
ByteAt(i) == IF i \in 0..(len - 1) THEN base + 1 + i ELSE 0

Bytes(o, k) == [i \in 1..k |-> ByteAt(o + i - 1)]

\* What the loop hands to write: http_Writen always the length of the call.
Ask == IF fn = "http_Writen" THEN len ELSE nleft

Init ==
  /\ fn \in Helpers
  /\ pc = "idle"
  /\ len = 1 /\ nleft = 0 /\ ptr = 0 /\ base = 0
  /\ fails = 0 /\ cut = FALSE
  /\ wire = <<>>

Call ==
  /\ pc = "idle"
  /\ \E n \in 1..Least(MaxLen, MaxText - base) : len' = n /\ nleft' = n
  /\ pc' = "loop" /\ ptr' = 0
  /\ UNCHANGED <<fn, base, fails, cut, wire>>

\* The helper returns sz - nleft.  The caller goes on behind that many bytes,
\* or gives up if the size_t is a negative number to it.
Return(left) ==
  LET r == (len - left) % SizeT
  IN  IF 2 * r < SizeT
      THEN pc' = "idle" /\ base' = base + r
      ELSE pc' = "over" /\ UNCHANGED base

Continue == pc' = "loop" /\ UNCHANGED base

\* Variant: the pointer stays behind after a short write.
WriteSomeInPlace ==
  /\ pc = "loop"
  /\ \E k \in 1..Ask :
       /\ Len(wire) + k <= MaxWire
       /\ wire' = wire \o Bytes(ptr, k)
       /\ nleft' = (nleft - k) % SizeT
       /\ cut' = (cut \/ k < Ask)
  /\ IF nleft' = 0 THEN Return(nleft') ELSE Continue
  /\ UNCHANGED <<fn, len, ptr, fails>>

\* Variant: the counter stays where it was.
WriteSomeUncounted ==
  /\ pc = "loop"
  /\ \E k \in 1..Ask :
       /\ Len(wire) + k <= MaxWire
       /\ wire' = wire \o Bytes(ptr, k)
       /\ ptr' = ptr + k
       /\ cut' = (cut \/ k < Ask)
  /\ Continue
  /\ UNCHANGED <<fn, len, nleft, fails>>

\* write takes a part of what it is given.  In http_Writen the counter passes
\* zero when a whole length is written behind a short write.
WriteSome ==
  /\ pc = "loop"
  /\ \E k \in 1..Ask :
       /\ Len(wire) + k <= MaxWire
       /\ wire' = wire \o Bytes(ptr, k)
       /\ nleft' = (nleft - k) % SizeT
       /\ ptr' = ptr + k
       /\ cut' = (cut \/ k < Ask)
  /\ IF nleft' = 0 THEN Return(nleft') ELSE Continue
  /\ UNCHANGED <<fn, len, fails>>

\* write takes nothing, as some devices do: every helper ends the call.
WriteNothing ==
  /\ pc = "loop"
  /\ Return(nleft)
  /\ UNCHANGED <<fn, len, nleft, ptr, fails, cut, wire>>

\* Variant: EINTR starts the call over.
InterruptedStartsOver ==
  /\ pc = "loop" /\ fails < MaxFail
  /\ fn = "rio_write"
  /\ fails' = fails + 1
  /\ nleft' = len /\ ptr' = 0
  /\ UNCHANGED <<fn, pc, len, base, cut, wire>>

\* rio_write repeats a write that was interrupted.
Interrupted ==
  /\ pc = "loop" /\ fails < MaxFail
  /\ fn = "rio_write"
  /\ fails' = fails + 1
  /\ UNCHANGED <<fn, pc, len, nleft, ptr, base, cut, wire>>

\* Any other error ends rio_write with -1.
Failed ==
  /\ pc = "loop" /\ fails < MaxFail
  /\ fn = "rio_write"
  /\ fails' = fails + 1
  /\ pc' = "over"
  /\ UNCHANGED <<fn, len, nleft, ptr, base, cut, wire>>

\* Variant: -1 is taken for a byte written.
FailureIsProgress ==
  /\ pc = "loop" /\ fails < MaxFail
  /\ fn # "rio_write"
  /\ fails' = fails + 1
  /\ nleft' = (nleft - 1) % SizeT
  /\ ptr' = ptr + 1
  /\ IF nleft' = 0 THEN Return(nleft') ELSE Continue
  /\ UNCHANGED <<fn, len, cut, wire>>

\* In the others -1 is a size_t, never negative: whatever the error, the
\* counter and the pointer go one byte back and the loop goes on.
FailureGoesBack ==
  /\ pc = "loop" /\ fails < MaxFail
  /\ fn # "rio_write"
  /\ fails' = fails + 1
  /\ nleft' = (nleft + 1) % SizeT
  /\ ptr' = ptr - 1
  /\ IF nleft' = 0 THEN Return(nleft') ELSE Continue
  /\ UNCHANGED <<fn, len, cut, wire>>

Next ==
  \/ Call
  \/ WriteSome \/ WriteNothing
  \/ Interrupted \/ Failed \/ FailureGoesBack

Spec == Init /\ [][Next]_vars

\* The receiver reads on.
FairSpec == Spec /\ WF_vars(WriteSome)

-----------------------------------------------------------------------------
TypeOK ==
  /\ fn \in Helpers /\ pc \in {"idle", "loop", "over"}
  /\ len \in 1..MaxLen /\ nleft \in 0..(SizeT - 1)
  /\ ptr \in Int /\ base \in Nat
  /\ fails \in 0..MaxFail /\ cut \in BOOLEAN
  /\ wire \in Seq(Nat) /\ Len(wire) <= MaxWire

\* The cases a helper does not handle.
Uneven ==
  \/ fn = "http_Writen" /\ (cut \/ fails > 0)
  \/ fn = "Write_s" /\ fails > 0

\* The promise of a helper: what goes out, over all calls, is the text from its
\* start without a gap or a repetition, and between calls all of it that went
\* out was reported.  rio_write keeps it through short writes, interruptions and
\* errors, Write_s until a write fails, http_Writen until a write is short.
SendsTheText ==
  ~Uneven =>
    /\ \A i \in 1..Len(wire) : wire[i] = i
    /\ pc = "idle" => Len(wire) = base

\* Although Write_s goes back after an error, it never leaves out a byte it
\* reports as sent and never writes past the end of its buffer: pointer and
\* counter always add up to the length.
NothingSkipped ==
  fn # "http_Writen" =>
    /\ \A b \in 1..base : \E i \in 1..Len(wire) : wire[i] = b
    /\ pc = "loop" => ptr + nleft = len

\* What is repeated or read in front of the buffer is bounded by the failures:
\* with rio_write and Write_s at most one byte goes out beyond the text for
\* each failed write.
ExtraPerFailure ==
  fn # "http_Writen" /\ pc = "idle" => Len(wire) <= base + fails

\* A call ends once writes stop failing and the receiver reads.
CallReturns ==
  (pc = "loop") ~> (pc # "loop" \/ fn = "http_Writen")

=============================================================================
