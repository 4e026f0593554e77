------------------------------- MODULE ReadIo -------------------------------
(***************************************************************************)
(* The helpers that read from a descriptor, called again and again by a    *)
(* caller that wants the whole stream: rio_read (utils/rio_r_w.h),         *)
(* http_Readn, http_Fgets_s and http_Fgets (utils/http_io.c), Read_s       *)
(* (inc/sock.h, and again in inc/common.h).                                *)
(*                                                                         *)
(* A byte is its position in the stream; 0 stands for whatever else memory *)
(* holds.  One action is one system call with the code up to the next one. *)
(* `given' is what the caller took from its buffer, by the counts it got.  *)
(*                                                                         *)
(* Variants are definitions with a plausible mistake, as in HandOff.       *)
(***************************************************************************)
EXTENDS Integers, Sequences

CONSTANTS
  Stream,    \* what the sender writes: "b", "N" (line feed), "F" (byte 0xFF)
  MaxLen,    \* longest buffer of a call
  RioSize,   \* RIO_BUFSIZE
  SizeT,     \* number of values of size_t
  MaxFail    \* bound on failing system calls

ASSUME ReadIoAssumption ==
  /\ Stream \in Seq({"b", "N", "F"})
  /\ MaxLen \in Nat \ {0, 1} /\ RioSize \in Nat \ {0}
  /\ MaxFail \in Nat
  /\ SizeT \in Nat /\ SizeT > Len(Stream) + MaxLen + MaxFail

Helpers == {"rio_read", "http_Readn", "Read_s", "http_Fgets_s", "http_Fgets"}
LineHelpers == {"http_Fgets_s", "http_Fgets"}

VARIABLES
  fn,      \* the helper this caller uses
  pc,      \* "idle", "loop", or "dead" after memcpy of (size_t)-1 bytes
  len,     \* the length of the caller's buffer
  nleft,   \* the loop's counter
  ptr,     \* offset of the next character in the buffer
  mem,     \* the buffer
  rio,     \* rio_t: nread, and the stream position before its buffer's first byte
  taken,   \* bytes taken from the descriptor
  fails,   \* failed system calls so far
  uneven,  \* history: a call met a case its helper does not handle
  given    \* history: the bytes the caller took for the stream

call == <<pc, len, nleft, ptr, mem>>
vars == <<fn, call, rio, taken, fails, uneven, given>>

Least(a, b) == IF a <= b THEN a ELSE b

Offsets == 0..(MaxLen - 1)

\* How many bytes a read of at most n may return, the end of file apart.
Some(n) == 1..Least(n, Len(Stream) - taken)

AtEof == taken = Len(Stream)

\* m after a read of k bytes to offset o.
Filled(m, o, k) ==
  [i \in Offsets |-> IF i \in o..(o + k - 1) THEN taken + 1 + i - o ELSE m[i]]

Init ==
  /\ fn \in Helpers
  /\ pc = "idle"
  /\ len = 1 /\ nleft = 0 /\ ptr = 0
  /\ mem = [i \in Offsets |-> 0]
  /\ rio = [nread |-> 0, start |-> 0]
  /\ taken = 0 /\ fails = 0 /\ uneven = FALSE
  /\ given = <<>>

\* A call with a buffer of n bytes; http_Fgets' --n keeps one for the zero.
Call ==
  /\ pc = "idle"
  /\ \E n \in 2..MaxLen :
       /\ len' = n
       /\ nleft' = IF fn = "http_Fgets" THEN n - 1 ELSE n
  /\ pc' = "loop" /\ ptr' = 0 /\ mem' = [i \in Offsets |-> 0]
  /\ UNCHANGED <<fn, rio, taken, fails, uneven, given>>

\* The helper returns count, the caller takes that many bytes of its buffer m.
Return(m, count) ==
  /\ pc' = "idle"
  /\ given' = given \o [i \in 1..Least(count, len) |-> m[i - 1]]

Continue == pc' = "loop" /\ UNCHANGED given

Fail == fails < MaxFail /\ fails' = fails + 1

-----------------------------------------------------------------------------
(* rio_read: a buffer of its own between the descriptor and the caller.    *)

\* memcpy takes the bytes from the start of the buffer, not from rp->ptr.
RioTake(nread, start) ==
  LET cnt == Least(len, nread)
      m == [i \in Offsets |-> IF i < cnt THEN start + 1 + i ELSE 0]
  IN  /\ Return(m, cnt)
      /\ mem' = m
      /\ rio' = [nread |-> nread - cnt, start |-> start]
      /\ uneven' = (uneven \/ cnt < nread)

RioRead ==
  /\ fn = "rio_read" /\ pc = "loop"
  /\ \/ /\ rio.nread > 0
        /\ RioTake(rio.nread, rio.start)
        /\ UNCHANGED taken
     \/ /\ rio.nread <= 0
        /\ \E k \in Some(RioSize) : RioTake(k, taken) /\ taken' = taken + k
     \/ /\ rio.nread <= 0 /\ AtEof
        /\ Return(mem, 0)
        /\ rio' = [rio EXCEPT !.nread = 0]
        /\ UNCHANGED <<mem, taken, uneven>>
  /\ UNCHANGED <<fn, len, nleft, ptr, fails>>

\* EINTR leaves the loop with nread = -1, which becomes the count of memcpy;
\* any other error is returned.
RioReadFails ==
  /\ fn = "rio_read" /\ pc = "loop" /\ rio.nread <= 0
  /\ Fail
  /\ rio' = [rio EXCEPT !.nread = -1]
  /\ \E interrupted \in BOOLEAN : pc' = IF interrupted THEN "dead" ELSE "idle"
  /\ UNCHANGED <<fn, len, nleft, ptr, mem, taken, uneven, given>>

-----------------------------------------------------------------------------
(* http_Readn and Read_s.                                                  *)

Count(left) == (len - left) % SizeT

\* Variant: the buffer is not advanced after a short read.
ReadSomeAtStart ==
  /\ fn \in {"http_Readn", "Read_s"} /\ pc = "loop"
  /\ \E k \in Some(IF fn = "Read_s" THEN nleft ELSE len) :
       /\ mem' = Filled(mem, 0, k)
       /\ taken' = taken + k
       /\ nleft' = (nleft - k) % SizeT
       /\ uneven' = (uneven \/ (fn = "http_Readn" /\ nleft # len))
  /\ IF nleft' = 0 THEN Return(mem', len) ELSE Continue
  /\ UNCHANGED <<fn, len, ptr, rio, fails>>

\* Read_s reads the rest behind what it has; http_Readn asks for the whole
\* length again and puts it at the start of the buffer.
ReadSome ==
  /\ fn \in {"http_Readn", "Read_s"} /\ pc = "loop"
  /\ \E k \in Some(IF fn = "Read_s" THEN nleft ELSE len) :
       /\ mem' = Filled(mem, ptr, k)
       /\ taken' = taken + k
       /\ nleft' = (nleft - k) % SizeT
       /\ ptr' = IF fn = "Read_s" THEN ptr + k ELSE 0
       /\ uneven' = (uneven \/ (fn = "http_Readn" /\ nleft # len))
  /\ IF nleft' = 0 THEN Return(mem', len) ELSE Continue
  /\ UNCHANGED <<fn, len, rio, fails>>

\* Variant: the end of file is taken for a read of no bytes.
ReadEndGoesOn ==
  /\ fn \in {"http_Readn", "Read_s"} /\ pc = "loop" /\ AtEof
  /\ Continue
  /\ UNCHANGED <<fn, len, nleft, ptr, mem, rio, taken, fails, uneven>>

ReadEnd ==
  /\ fn \in {"http_Readn", "Read_s"} /\ pc = "loop" /\ AtEof
  /\ Return(mem, Count(nleft))
  /\ UNCHANGED <<fn, len, nleft, ptr, mem, rio, taken, fails, uneven>>

\* Read_s returns what it has.  In http_Readn -1 is a size_t: the counter grows
\* by one and the loop goes on.
ReadFails ==
  /\ fn \in {"http_Readn", "Read_s"} /\ pc = "loop" /\ Fail
  /\ IF fn = "Read_s"
     THEN Return(mem, Count(nleft)) /\ UNCHANGED <<nleft, uneven>>
     ELSE /\ nleft' = (nleft + 1) % SizeT
          /\ uneven' = TRUE
          /\ IF nleft' = 0 THEN Return(mem, len) ELSE Continue
  /\ UNCHANGED <<fn, len, ptr, mem, rio, taken>>

-----------------------------------------------------------------------------
(* http_Fgets_s and http_Fgets: one character at a time.                   *)

\* Variant: one character more than the buffer holds.
EndsLineLate(lf) == lf \/ nleft = 0

\* Variant: only the length ends a line.
EndsLineWhenFull(lf) == nleft' = 0

\* The loop ends behind a line feed, or when the buffer is full.
EndsLine(lf) == lf \/ nleft' = 0

Store(c, lf) ==
  /\ mem' = [mem EXCEPT ![ptr] = c]
  /\ ptr' = ptr + 1 /\ nleft' = nleft - 1
  /\ IF EndsLine(lf) THEN Return(mem', ptr') ELSE Continue

\* http_Fgets keeps the character in a char: the byte 0xFF is equal to EOF.  Its
\* getc takes the character from stdio's buffer; only this caller reads from it,
\* so for it `taken' counts what has left that buffer.
GetChar ==
  /\ fn \in LineHelpers /\ pc = "loop" /\ ~AtEof
  /\ taken' = taken + 1
  /\ IF fn = "http_Fgets" /\ Stream[taken'] = "F"
     THEN Return(mem, ptr) /\ uneven' = TRUE /\ UNCHANGED <<nleft, ptr, mem>>
     ELSE Store(taken', Stream[taken'] = "N") /\ UNCHANGED uneven
  /\ UNCHANGED <<fn, len, rio, fails>>

GetEof ==
  /\ fn \in LineHelpers /\ pc = "loop" /\ AtEof
  /\ Return(mem, ptr)
  /\ UNCHANGED <<fn, len, nleft, ptr, mem, rio, taken, fails, uneven>>

\* getc gives EOF.  In http_Fgets_s -1 is a size_t: the character read last is
\* stored again, or one never assigned, which may be a line feed.
GetFails ==
  /\ fn \in LineHelpers /\ pc = "loop" /\ Fail
  /\ IF fn = "http_Fgets"
     THEN Return(mem, ptr) /\ UNCHANGED <<nleft, ptr, mem, uneven>>
     ELSE /\ \/ ptr > 0 /\ Store(mem[ptr - 1], FALSE)
             \/ ptr = 0 /\ \E lf \in BOOLEAN : Store(0, lf)
          /\ uneven' = TRUE
  /\ UNCHANGED <<fn, len, rio, taken>>

-----------------------------------------------------------------------------
Serve ==
  \/ RioRead \/ RioReadFails
  \/ ReadSome \/ ReadEnd \/ ReadFails
  \/ GetChar \/ GetEof \/ GetFails

Next == Call \/ Serve

Spec == Init /\ [][Next]_vars

\* The sender goes on sending and closes in the end.
FairSpec ==
  Spec /\ WF_vars(RioRead \/ ReadSome \/ ReadEnd \/ GetChar \/ GetEof)

TypeOK ==
  /\ fn \in Helpers /\ pc \in {"idle", "loop", "dead"}
  /\ len \in 1..MaxLen /\ nleft \in 0..(SizeT - 1) /\ ptr \in 0..len
  /\ mem \in [Offsets -> 0..Len(Stream)]
  /\ rio \in [nread : -1..RioSize, start : 0..Len(Stream)]
  /\ taken \in 0..Len(Stream) /\ fails \in 0..MaxFail
  /\ uneven \in BOOLEAN
  /\ given \in Seq(0..Len(Stream))

IsPrefixOfStream(s) == \A i \in 1..Len(s) : s[i] = i

Held == IF rio.nread > 0 THEN rio.nread ELSE 0

\* The promise of a helper: what the caller gets, over all its calls, is the
\* stream from its start without a gap or a repetition, and between calls every
\* byte taken from the descriptor (in http_Fgets from stdio) has been given or is
\* in the rio buffer.  It
\* holds in Read_s through short reads, errors and the end of file, and in
\* the others up to the case they do not handle: bytes left in the buffer
\* (rio_read), a second read in a call (http_Readn), a failed read (http_Readn,
\* http_Fgets_s), the byte 0xFF (http_Fgets).
GivesTheStream ==
  /\ fn = "Read_s" => ~uneven
  /\ ~uneven => /\ IsPrefixOfStream(given)
                /\ pc = "idle" => Len(given) = taken - Held

\* A call of a line helper gives one line, also when a read fails and a character
\* is stored twice: a line feed can only be its last character, and without one
\* it ends at a full buffer or the end of the stream; or, in http_Fgets_s, at a
\* character that was never assigned; in http_Fgets, at a failed read or the
\* byte 0xFF.
LastCall == SubSeq(given, Len(given) - ptr + 1, Len(given))

IsLineFeed(c) == c # 0 /\ Stream[c] = "N"

EndsWithout ==
  \/ nleft = 0 \/ AtEof
  \/ fn = "http_Fgets_s" /\ LastCall[ptr] = 0
  \/ fn = "http_Fgets" /\ (fails > 0 \/ Stream[taken] = "F")

OneLinePerCall ==
  (fn \in LineHelpers /\ pc = "idle" /\ ptr > 0) =>
    /\ \A i \in 1..(ptr - 1) : ~IsLineFeed(LastCall[i])
    /\ IsLineFeed(LastCall[ptr]) \/ EndsWithout

\* Each call returns, whatever the sizes of the pieces, once reads stop failing
\* and the sender closes: also http_Readn, whose counter may have passed zero
\* and stand near the top of size_t.
CallReturns == (pc = "loop") ~> (pc \in {"idle", "dead"})

=============================================================================
