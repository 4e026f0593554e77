---------------------------- MODULE WriteIoProof ----------------------------
(***************************************************************************)
(* Proofs about WriteIo for every length of text and buffer, every number  *)
(* of failures and every width of size_t that holds them.                  *)
(***************************************************************************)
EXTENDS WriteIo, SequenceTheorems, TLAPS

-----------------------------------------------------------------------------
(* Arithmetic of size_t and of pieces of the buffer.                       *)

LEMMA ModRange ==
  ASSUME NEW s \in Nat \ {0}, NEW x \in Int
  PROVE  x % s \in 0..(s - 1)
  OBVIOUS

LEMMA ModSmall ==
  ASSUME NEW s \in Nat \ {0}, NEW x \in 0..(s - 1)
  PROVE  x % s = x
  OBVIOUS

\* A negative count is read back as one near the top of size_t.
LEMMA ModNegative ==
  ASSUME NEW s \in Nat \ {0}, NEW x \in (-s)..(-1)
  PROVE  x % s = x + s
  OBVIOUS

\* What a write of k bytes from offset o adds to the wire.
LEMMA WireGrows ==
  ASSUME len \in Nat, base \in Nat, wire \in Seq(Nat),
         NEW o \in Int, NEW k \in Nat,
         wire' = wire \o Bytes(o, k)
  PROVE  /\ wire' \in Seq(Nat)
         /\ Len(wire') = Len(wire) + k
         /\ \A i \in 1..Len(wire) : wire'[i] = wire[i]
         /\ \A i \in 1..k : wire'[Len(wire) + i] = ByteAt(o + i - 1)
<1>1. Bytes(o, k) \in [1..k -> Nat]
  <2>1. ASSUME NEW i \in 1..k PROVE ByteAt(o + i - 1) \in Nat
    BY DEF ByteAt
  <2> QED
    BY <2>1 DEF Bytes
<1>2. Bytes(o, k) \in Seq(Nat) /\ Len(Bytes(o, k)) = k
  <2>1. Bytes(o, k) \in Seq(Nat)
    BY <1>1, SeqDef
  <2>2. Len(Bytes(o, k)) \in Nat /\ DOMAIN Bytes(o, k) = 1..Len(Bytes(o, k))
    BY <2>1, LenProperties
  <2>3. DOMAIN Bytes(o, k) = 1..k
    BY <1>1
  <2>4. ASSUME NEW m \in Nat, NEW n \in Nat, 1..m = 1..n PROVE m = n
    <3>1. \A i \in Int : i \in 1..m <=> i \in 1..n
      BY <2>4
    <3>2. m \in 0..n /\ n \in 0..m
      BY <3>1, m = 0 \/ m \in 1..m, n = 0 \/ n \in 1..n, SMTT(30)
    <3> QED
      BY <3>2
  <2> QED
    BY <2>1, <2>2, <2>3, <2>4
<1>3. /\ wire' \in Seq(Nat)
      /\ Len(wire') = Len(wire) + k
      /\ \A i \in 1..(Len(wire) + k) :
           wire'[i] = IF i <= Len(wire) THEN wire[i] ELSE Bytes(o, k)[i - Len(wire)]
  BY <1>2, ConcatProperties
<1>4. Len(wire) \in Nat
  BY LenProperties
<1>5. \A i \in 1..Len(wire) : wire'[i] = wire[i]
  BY <1>3, <1>4
<1>6. ASSUME NEW i \in 1..k
      PROVE  wire'[Len(wire) + i] = ByteAt(o + i - 1)
  <2>1. wire'[Len(wire) + i] = Bytes(o, k)[i]
    BY <1>3, <1>4
  <2> QED
    BY <2>1 DEF Bytes
<1> QED
  BY <1>3, <1>5, <1>6

-----------------------------------------------------------------------------
(* Types.                                                                  *)

LEMMA InitTypeOK == Init => TypeOK
<1> SUFFICES ASSUME Init PROVE TypeOK
  OBVIOUS
<1>1. SizeT \in Nat /\ SizeT >= 1 /\ 1 \in 1..MaxLen /\ 0 \in 0..MaxFail /\ 0 <= MaxWire
  BY WriteIoAssumption
<1>2. wire \in Seq(Nat) /\ Len(wire) = 0
  BY EmptySeq DEF Init
<1>3. len \in 1..MaxLen /\ nleft \in 0..(SizeT - 1) /\ fails \in 0..MaxFail
  BY <1>1 DEF Init
<1>4. ptr \in Int /\ base \in Nat /\ Len(wire) <= MaxWire
  BY <1>1, <1>2 DEF Init
<1>5. fn \in Helpers /\ pc = "idle" /\ cut = FALSE
  BY DEF Init
<1> QED
  BY <1>2, <1>3, <1>4, <1>5 DEF TypeOK

\* What every end of a call does to the caller.
LEMMA ReturnTyped ==
  ASSUME TypeOK, NEW left \in 0..(SizeT - 1), Return(left)
  PROVE  /\ base' \in Nat
         /\ pc' \in {"idle", "over"}
<1>1. (len - left) % SizeT \in 0..(SizeT - 1)
  BY WriteIoAssumption, ModRange DEF TypeOK
<1> QED
  BY <1>1 DEF Return, TypeOK

LEMMA NextTypeOK == TypeOK /\ [Next]_vars => TypeOK'
<1> SUFFICES ASSUME TypeOK, [Next]_vars PROVE TypeOK'
  OBVIOUS
<1> USE WriteIoAssumption
<1>1. CASE Call
  BY <1>1 DEF Call, TypeOK, Least
<1>2. CASE WriteSome
  <2> PICK k \in 1..Ask :
        /\ Len(wire) + k <= MaxWire
        /\ wire' = wire \o Bytes(ptr, k)
        /\ nleft' = (nleft - k) % SizeT
        /\ ptr' = ptr + k
        /\ cut' = (cut \/ k < Ask)
    BY <1>2 DEF WriteSome
  <2>1. Ask \in Nat /\ k \in Nat /\ k >= 1
    BY DEF Ask, TypeOK
  <2>2. wire' \in Seq(Nat) /\ Len(wire') = Len(wire) + k
    <3>1. len \in Nat /\ base \in Nat /\ wire \in Seq(Nat) /\ ptr \in Int
      BY DEF TypeOK
    <3> QED
      BY <2>1, <3>1, WireGrows
  <2>3. nleft' \in 0..(SizeT - 1)
    BY <2>1, ModRange DEF TypeOK
  <2>4. base' \in Nat /\ pc' \in {"idle", "loop", "over"}
    BY <1>2, <2>3, ReturnTyped DEF WriteSome, Continue, TypeOK
  <2> QED
    BY <1>2, <2>1, <2>2, <2>3, <2>4 DEF WriteSome, TypeOK
<1>3. CASE WriteNothing
  <2>1. base' \in Nat /\ pc' \in {"idle", "over"}
    BY <1>3, ReturnTyped DEF WriteNothing, TypeOK
  <2> QED
    BY <1>3, <2>1 DEF WriteNothing, TypeOK
<1>4. CASE Interrupted
  BY <1>4 DEF Interrupted, TypeOK
<1>5. CASE Failed
  BY <1>5 DEF Failed, TypeOK
<1>6. CASE FailureGoesBack
  <2>1. nleft' \in 0..(SizeT - 1)
    BY <1>6, ModRange DEF FailureGoesBack, TypeOK
  <2>2. base' \in Nat /\ pc' \in {"idle", "loop", "over"}
    BY <1>6, <2>1, ReturnTyped DEF FailureGoesBack, Continue, TypeOK
  <2> QED
    BY <1>6, <2>1, <2>2 DEF FailureGoesBack, TypeOK
<1>7. CASE UNCHANGED vars
  BY <1>7 DEF vars, TypeOK
<1> QED
  BY <1>1, <1>2, <1>3, <1>4, <1>5, <1>6, <1>7 DEF Next

LEMMA TypeCorrect == Spec => []TypeOK
<1> QED
  BY InitTypeOK, NextTypeOK, PTL DEF Spec

-----------------------------------------------------------------------------
(* rio_write and Write_s.                                                  *)

\* Pointer and counter of a running call: together the length, and the pointer
\* is in front of the buffer at most by the writes that failed.
CallInv ==
  fn # "http_Writen" /\ pc = "loop" =>
    ptr + nleft = len /\ nleft >= 1 /\ ptr >= -fails

LEMMA NextCallInv == TypeOK /\ CallInv /\ [Next]_vars => CallInv'
<1> SUFFICES ASSUME TypeOK, CallInv, [Next]_vars, (fn # "http_Writen" /\ pc = "loop")'
             PROVE  (ptr + nleft = len /\ nleft >= 1 /\ ptr >= -fails)'
  BY DEF CallInv
<1> USE WriteIoAssumption
<1>1. CASE Call
  BY <1>1 DEF Call, TypeOK, Least
<1>2. CASE WriteSome
  <2>1. pc = "loop" /\ fn # "http_Writen" /\ nleft' # 0
    BY <1>2 DEF WriteSome, Return
  <2> PICK k \in 1..nleft : nleft' = (nleft - k) % SizeT /\ ptr' = ptr + k
    BY <1>2, <2>1 DEF WriteSome, Ask
  <2>2. nleft' = nleft - k
    <3>1. nleft - k \in 0..(SizeT - 1) /\ SizeT \in Nat \ {0}
      BY DEF TypeOK
    <3> QED
      BY <3>1, ModSmall
  <2> QED
    BY <1>2, <2>1, <2>2 DEF WriteSome, CallInv, TypeOK
<1>3. CASE WriteNothing
  BY <1>3 DEF WriteNothing, Return
<1>4. CASE Interrupted
  BY <1>4 DEF Interrupted, CallInv, TypeOK
<1>5. CASE Failed
  BY <1>5 DEF Failed
<1>6. CASE FailureGoesBack
  <2>1. pc = "loop" /\ fn # "http_Writen"
    BY <1>6 DEF FailureGoesBack
  <2>2. nleft + 1 \in 0..(SizeT - 1)
    BY <1>6, <2>1 DEF FailureGoesBack, CallInv, TypeOK
  <2>3. nleft' = nleft + 1
    BY <1>6, <2>2, ModSmall DEF FailureGoesBack
  <2> QED
    BY <1>6, <2>1, <2>3 DEF FailureGoesBack, CallInv, TypeOK
<1>7. CASE UNCHANGED vars
  BY <1>7 DEF vars, CallInv
<1> QED
  BY <1>1, <1>2, <1>3, <1>4, <1>5, <1>6, <1>7 DEF Next

\* The count a call returns is the distance the pointer went.
LEMMA ReturnCounts ==
  ASSUME TypeOK, NEW p \in Int, NEW left \in 0..(SizeT - 1),
         p + left = len, p >= -MaxFail, Return(left)
  PROVE  \/ pc' = "idle" /\ base' = base + p
         \/ pc' = "over" /\ base' = base
<1> USE WriteIoAssumption
<1>1. len - left = p /\ p <= MaxLen
  BY DEF TypeOK
<1>2. CASE p >= 0
  <2>1. p % SizeT = p
    BY <1>1, <1>2, ModSmall
  <2> QED
    BY <1>1, <2>1 DEF Return
<1>3. CASE p < 0
  <2>1. p % SizeT = p + SizeT
    BY <1>3, ModNegative
  <2>2. 2 * (p + SizeT) >= SizeT
    OBVIOUS
  <2> QED
    BY <1>1, <2>1, <2>2 DEF Return
<1> QED
  BY <1>2, <1>3

\* Where the two helpers stand after a write: in the loop, or returned.
LEMMA AfterWrite ==
  ASSUME TypeOK, TypeOK', CallInv, fn # "http_Writen", WriteSome
  PROVE  \E k \in 1..nleft :
           /\ wire' = wire \o Bytes(ptr, k) /\ ptr' = ptr + k
           /\ nleft' = nleft - k
           /\ \/ pc' = "loop" /\ base' = base
              \/ pc' = "idle" /\ base' = base + ptr' /\ ptr' = len
<1> USE WriteIoAssumption
<1> PICK k \in 1..nleft :
       wire' = wire \o Bytes(ptr, k) /\ ptr' = ptr + k /\ nleft' = (nleft - k) % SizeT
  BY DEF WriteSome, Ask
<1>1. nleft' = nleft - k
  <2>1. nleft - k \in 0..(SizeT - 1) /\ SizeT \in Nat \ {0}
    BY DEF TypeOK
  <2> QED
    BY <2>1, ModSmall
<1>2. ptr + nleft = len
  BY DEF WriteSome, CallInv
<1>3. CASE nleft' = 0
  <2>1. Return(nleft') /\ ptr' = len
    BY <1>1, <1>2, <1>3 DEF WriteSome, TypeOK
  <2>2. len - nleft' = len /\ len \in 0..(SizeT - 1) /\ SizeT \in Nat \ {0} /\ 2 * len < SizeT
    BY <1>3 DEF TypeOK
  <2>3. len % SizeT = len
    BY <2>2, ModSmall
  <2>4. pc' = "idle" /\ base' = base + ptr'
    BY <2>1, <2>2, <2>3 DEF Return
  <2> QED
    BY <1>1, <2>1, <2>4
<1>4. CASE nleft' # 0
  BY <1>1, <1>4 DEF WriteSome, Continue
<1> QED
  BY <1>3, <1>4

\* Where they stand after a write that took nothing: returned, or given up.
LEMMA AfterNothing ==
  ASSUME TypeOK, CallInv, fn # "http_Writen", WriteNothing
  PROVE  \/ pc' = "idle" /\ base' = base + ptr
         \/ pc' = "over" /\ base' = base
<1>1. ptr \in Int /\ nleft \in 0..(SizeT - 1) /\ Return(nleft)
  BY DEF WriteNothing, TypeOK
<1>2. ptr + nleft = len /\ ptr >= -MaxFail
  BY WriteIoAssumption DEF WriteNothing, CallInv, TypeOK
<1> QED
  BY <1>1, <1>2, ReturnCounts

\* Where they stand after an error: given up, or in the loop, where they were
\* or one byte in front of it.
LEMMA AfterError ==
  ASSUME TypeOK, CallInv, fn # "http_Writen",
         Interrupted \/ Failed \/ FailureGoesBack
  PROVE  /\ UNCHANGED <<base, wire>> /\ fails' = fails + 1
         /\ \/ pc' = "over"
            \/ pc = "loop" /\ pc' = "loop" /\ ptr' \in {ptr - 1, ptr}
<1>1. CASE Interrupted
  BY <1>1 DEF Interrupted
<1>2. CASE Failed
  BY <1>2 DEF Failed
<1>3. CASE FailureGoesBack
  <2>1. nleft + 1 \in 0..(SizeT - 1) /\ nleft + 1 # 0 /\ SizeT \in Nat \ {0}
    BY <1>3, WriteIoAssumption DEF FailureGoesBack, CallInv, TypeOK
  <2>2. nleft' # 0
    BY <1>3, <2>1, ModSmall DEF FailureGoesBack
  <2> QED
    BY <1>3, <2>2 DEF FailureGoesBack, Continue
<1> QED
  BY <1>1, <1>2, <1>3

-----------------------------------------------------------------------------
(* How much goes out too often.                                            *)

\* In a running call the surplus is bounded against the pointer.
ExtraInv ==
  fn # "http_Writen" =>
    /\ pc = "idle" => Len(wire) <= base + fails
    /\ pc = "loop" => Len(wire) <= base + ptr + fails

LEMMA NextExtraInv ==
  TypeOK /\ TypeOK' /\ CallInv /\ ExtraInv /\ [Next]_vars => ExtraInv'
<1> SUFFICES ASSUME TypeOK, TypeOK', CallInv, ExtraInv, [Next]_vars,
                    (fn # "http_Writen")'
             PROVE  /\ pc' = "idle" => Len(wire') <= base' + fails'
                    /\ pc' = "loop" => Len(wire') <= base' + ptr' + fails'
  BY DEF ExtraInv
<1>1. fn # "http_Writen"
  BY DEF Next, vars, Call, WriteSome, WriteNothing, Interrupted, Failed, FailureGoesBack
<1>2. /\ Len(wire) \in Nat /\ base \in Nat /\ ptr \in Int /\ fails \in Nat
      /\ len \in Nat /\ nleft \in Nat /\ wire \in Seq(Nat)
  BY WriteIoAssumption, LenProperties DEF TypeOK
<1>3. CASE Call
  BY <1>1, <1>2, <1>3 DEF Call, ExtraInv
<1>4. CASE WriteSome
  <2> PICK k \in 1..nleft :
        /\ wire' = wire \o Bytes(ptr, k) /\ ptr' = ptr + k
        /\ \/ pc' = "loop" /\ base' = base
           \/ pc' = "idle" /\ base' = base + ptr'
    BY <1>1, <1>4, AfterWrite
  <2>1. k \in Nat
    BY <1>2
  <2>2. Len(wire') = Len(wire) + k
    BY <1>2, <2>1, WireGrows
  <2>3. fails' = fails /\ Len(wire) <= base + ptr + fails
    BY <1>1, <1>4 DEF WriteSome, ExtraInv
  <2> QED
    BY <1>2, <2>1, <2>2, <2>3
<1>5. CASE WriteNothing
  <2>1. \/ pc' = "idle" /\ base' = base + ptr
        \/ pc' = "over" /\ base' = base
    BY <1>1, <1>5, AfterNothing
  <2>2. wire' = wire /\ fails' = fails /\ Len(wire) <= base + ptr + fails
    BY <1>1, <1>5 DEF WriteNothing, ExtraInv
  <2> QED
    BY <1>2, <2>1, <2>2
<1>6. CASE Interrupted \/ Failed \/ FailureGoesBack
  <2>1. /\ UNCHANGED <<base, wire>> /\ fails' = fails + 1
        /\ \/ pc' = "over"
           \/ pc = "loop" /\ pc' = "loop" /\ ptr' \in {ptr - 1, ptr}
    BY <1>1, <1>6, AfterError
  <2> QED
    BY <1>1, <1>2, <2>1 DEF ExtraInv
<1>7. CASE UNCHANGED vars
  BY <1>1, <1>7 DEF vars, ExtraInv
<1> QED
  BY <1>3, <1>4, <1>5, <1>6, <1>7 DEF Next

LEMMA InitCalls == Init => CallInv /\ ExtraInv
<1> SUFFICES ASSUME Init PROVE CallInv /\ ExtraInv
  OBVIOUS
<1>1. wire \in Seq(Nat) /\ Len(wire) = 0
  BY EmptySeq DEF Init
<1> QED
  BY <1>1 DEF Init, CallInv, ExtraInv

\* rio_write and Write_s put at most one byte too many on the wire for each
\* failed write (the byte before the buffer, or one sent before).
THEOREM ExtraBounded == Spec => []ExtraPerFailure
<1>1. Init => TypeOK /\ CallInv /\ ExtraInv
  BY InitTypeOK, InitCalls
<1>2. TypeOK /\ CallInv /\ ExtraInv /\ [Next]_vars => (TypeOK /\ CallInv /\ ExtraInv)'
  BY NextTypeOK, NextCallInv, NextExtraInv
<1>3. ExtraInv => ExtraPerFailure
  BY DEF ExtraInv, ExtraPerFailure
<1> QED
  BY <1>1, <1>2, <1>3, PTL DEF Spec

-----------------------------------------------------------------------------
(* Nothing is left out.                                                    *)

Sent(b) == \E i \in 1..Len(wire) : wire[i] = b

\* Up to the pointer the text is on the wire, wherever the pointer went before.
SkipInv ==
  fn # "http_Writen" =>
    /\ \A b \in 1..base : Sent(b)
    /\ pc = "loop" => \A b \in 1..(base + ptr) : Sent(b)

\* A write keeps what was sent and adds the bytes it took.
LEMMA WriteSends ==
  ASSUME len \in Nat, base \in Nat, wire \in Seq(Nat),
         NEW o \in Int, NEW k \in Nat, o + k <= len,
         wire' = wire \o Bytes(o, k)
  PROVE  /\ \A b : Sent(b) => Sent(b)'
         /\ \A b \in (base + 1)..(base + o + k) : b > base + o => Sent(b)'
<1>1. /\ Len(wire) \in Nat /\ Len(wire') = Len(wire) + k
      /\ \A i \in 1..Len(wire) : wire'[i] = wire[i]
      /\ \A i \in 1..k : wire'[Len(wire) + i] = ByteAt(o + i - 1)
  BY WireGrows, LenProperties
<1>2. ASSUME NEW b, Sent(b) PROVE Sent(b)'
  BY <1>1, <1>2 DEF Sent
<1>3. ASSUME NEW b \in (base + 1)..(base + o + k), b > base + o PROVE Sent(b)'
  <2> PICK i \in 1..k : b = base + o + i
    BY <1>3, b - base - o \in 1..k
  <2>1. o + i - 1 \in 0..(len - 1) /\ base + 1 + (o + i - 1) = b
    BY <1>3
  <2>2. ByteAt(o + i - 1) = b
    BY <2>1 DEF ByteAt
  <2>3. wire'[Len(wire) + i] = b /\ Len(wire) + i \in 1..Len(wire')
    BY <1>1, <2>2
  <2> QED
    BY <2>3 DEF Sent
<1> QED
  BY <1>2, <1>3

LEMMA NextSkipInv ==
  TypeOK /\ TypeOK' /\ CallInv /\ SkipInv /\ [Next]_vars => SkipInv'
<1> SUFFICES ASSUME TypeOK, TypeOK', CallInv, SkipInv, [Next]_vars,
                    (fn # "http_Writen")'
             PROVE  /\ \A b \in 1..base' : Sent(b)'
                    /\ pc' = "loop" => \A b \in 1..(base' + ptr') : Sent(b)'
  BY DEF SkipInv
<1>1. fn # "http_Writen"
  BY DEF Next, vars, Call, WriteSome, WriteNothing, Interrupted, Failed, FailureGoesBack
<1>2. /\ base \in Nat /\ ptr \in Int /\ len \in Nat /\ nleft \in Nat
      /\ wire \in Seq(Nat)
  BY WriteIoAssumption DEF TypeOK
<1>3. CASE Call
  BY <1>1, <1>2, <1>3 DEF Call, SkipInv, Sent
<1>4. CASE WriteSome
  <2> PICK k \in 1..nleft :
        /\ wire' = wire \o Bytes(ptr, k) /\ ptr' = ptr + k
        /\ \/ pc' = "loop" /\ base' = base
           \/ pc' = "idle" /\ base' = base + ptr'
    BY <1>1, <1>4, AfterWrite
  <2>1. k \in Nat /\ ptr + k <= len
    BY <1>1, <1>2, <1>4 DEF WriteSome, CallInv
  <2>2. /\ \A b : Sent(b) => Sent(b)'
        /\ \A b \in (base + 1)..(base + ptr + k) : b > base + ptr => Sent(b)'
    BY <1>2, <2>1, WriteSends
  <2>3. /\ \A b \in 1..base : Sent(b)
        /\ \A b \in 1..(base + ptr) : Sent(b)
    BY <1>1, <1>4 DEF WriteSome, SkipInv
  <2>4. ASSUME NEW b \in Nat, b >= 1, b <= base \/ b <= base + ptr'
        PROVE  Sent(b)'
    <3>1. CASE b <= base
      BY <1>2, <2>2, <2>3, <2>4, <3>1
    <3>2. CASE b <= base + ptr
      BY <1>2, <2>2, <2>3, <2>4, <3>2
    <3>3. CASE b > base /\ b > base + ptr
      BY <1>2, <2>1, <2>2, <2>4, <3>3
    <3> QED
      BY <1>2, <3>1, <3>2, <3>3
  <2>5. base' = base \/ base' = base + ptr'
    OBVIOUS
  <2>6. ASSUME NEW b \in 1..base' PROVE Sent(b)'
    BY <1>2, <2>1, <2>4, <2>5
  <2>7. ASSUME pc' = "loop", NEW b \in 1..(base' + ptr') PROVE Sent(b)'
    BY <1>2, <2>1, <2>4, <2>7
  <2> QED
    BY <2>6, <2>7
<1>5. CASE WriteNothing
  <2>1. \/ pc' = "idle" /\ base' = base + ptr
        \/ pc' = "over" /\ base' = base
    BY <1>1, <1>5, AfterNothing
  <2>2. pc = "loop" /\ wire' = wire
    BY <1>5 DEF WriteNothing
  <2>3. ASSUME NEW b \in 1..base' PROVE Sent(b)
    BY <1>1, <2>1, <2>2 DEF SkipInv
  <2> QED
    BY <2>1, <2>2, <2>3 DEF Sent
<1>6. CASE Interrupted \/ Failed \/ FailureGoesBack
  <2>1. /\ UNCHANGED <<base, wire>>
        /\ \/ pc' = "over"
           \/ pc = "loop" /\ pc' = "loop" /\ ptr' \in {ptr - 1, ptr}
    BY <1>1, <1>6, AfterError
  <2>2. ASSUME NEW b \in 1..base' PROVE Sent(b)
    BY <1>1, <2>1 DEF SkipInv
  <2>3. ASSUME pc' = "loop", NEW b \in 1..(base' + ptr') PROVE Sent(b)
    <3>1. b \in 1..(base + ptr) /\ pc = "loop"
      BY <1>2, <2>1, <2>3
    <3> QED
      BY <1>1, <3>1 DEF SkipInv
  <2> QED
    BY <2>1, <2>2, <2>3 DEF Sent
<1>7. CASE UNCHANGED vars
  BY <1>1, <1>7 DEF vars, SkipInv, Sent
<1> QED
  BY <1>3, <1>4, <1>5, <1>6, <1>7 DEF Next

\* Although Write_s goes back after an error, every byte that it or rio_write
\* reports is on the wire, and pointer and counter never leave the buffer at
\* its far end.
THEOREM ReportedIsSent == Spec => []NothingSkipped
<1>1. Init => TypeOK /\ CallInv /\ SkipInv
  <2>1. Init => SkipInv
    BY DEF Init, SkipInv
  <2> QED
    BY <2>1, InitTypeOK, InitCalls
<1>2. TypeOK /\ CallInv /\ SkipInv /\ [Next]_vars => (TypeOK /\ CallInv /\ SkipInv)'
  BY NextTypeOK, NextCallInv, NextSkipInv
<1>3. CallInv /\ SkipInv => NothingSkipped
  BY DEF CallInv, SkipInv, NothingSkipped, Sent
<1> QED
  BY <1>1, <1>2, <1>3, PTL DEF Spec

-----------------------------------------------------------------------------
(* The text, in the cases a helper handles.                                *)

\* Between calls all of the text that went out was reported; in a call what
\* went out ends at the pointer, and http_Writen has written nothing yet.
TextInv ==
  ~Uneven =>
    /\ \A i \in 1..Len(wire) : wire[i] = i
    /\ pc = "idle" => Len(wire) = base
    /\ pc = "loop" => /\ Len(wire) = base + ptr /\ ptr \in 0..len
                      /\ fn = "http_Writen" => ptr = 0 /\ nleft = len

\* The return of a count that is not negative.
LEMMA ReturnOf ==
  ASSUME TypeOK, NEW left \in 0..len, Return(left)
  PROVE  pc' = "idle" /\ base' = base + (len - left)
<1> USE WriteIoAssumption
<1>1. /\ len - left \in 0..(SizeT - 1) /\ SizeT \in Nat \ {0}
      /\ 2 * (len - left) < SizeT
  BY DEF TypeOK
<1>2. (len - left) % SizeT = len - left
  BY <1>1, ModSmall
<1> QED
  BY <1>1, <1>2 DEF Return

\* A whole length written behind the text continues it.
LEMMA TextGrows ==
  ASSUME TypeOK, NEW k \in Nat, ptr \in 0..len, ptr + k <= len,
         Len(wire) = base + ptr, \A i \in 1..Len(wire) : wire[i] = i,
         wire' = wire \o Bytes(ptr, k)
  PROVE  /\ Len(wire') = base + ptr + k
         /\ \A i \in 1..Len(wire') : wire'[i] = i
<1>1. /\ len \in Nat /\ base \in Nat /\ ptr \in Int /\ wire \in Seq(Nat)
      /\ Len(wire) \in Nat
  BY WriteIoAssumption, LenProperties DEF TypeOK
<1>2. /\ Len(wire') = Len(wire) + k
      /\ \A i \in 1..Len(wire) : wire'[i] = wire[i]
      /\ \A i \in 1..k : wire'[Len(wire) + i] = ByteAt(ptr + i - 1)
  BY <1>1, WireGrows
<1>3. ASSUME NEW i \in 1..Len(wire') PROVE wire'[i] = i
  <2>1. CASE i \in 1..Len(wire)
    BY <1>2, <2>1
  <2>2. CASE i \notin 1..Len(wire)
    <3> PICK j \in 1..k : i = Len(wire) + j
      BY <1>1, <1>2, <2>2, i - Len(wire) \in 1..k
    <3>1. ptr + j - 1 \in 0..(len - 1) /\ base + 1 + (ptr + j - 1) = i
      BY <1>1
    <3>2. ByteAt(ptr + j - 1) = i
      BY <3>1 DEF ByteAt
    <3> QED
      BY <1>2, <3>2
  <2> QED
    BY <2>1, <2>2
<1> QED
  BY <1>1, <1>2, <1>3

LEMMA NextTextInv ==
  TypeOK /\ TypeOK' /\ CallInv /\ TextInv /\ [Next]_vars => TextInv'
<1> SUFFICES ASSUME TypeOK, TypeOK', CallInv, TextInv, [Next]_vars, (~Uneven)'
             PROVE  /\ \A i \in 1..Len(wire') : wire'[i] = i
                    /\ pc' = "idle" => Len(wire') = base'
                    /\ pc' = "loop" =>
                         /\ Len(wire') = base' + ptr' /\ ptr' \in 0..len'
                         /\ fn' = "http_Writen" => ptr' = 0 /\ nleft' = len'
  BY DEF TextInv
<1> USE WriteIoAssumption
<1>1. /\ len \in Nat /\ base \in Nat /\ ptr \in Int /\ nleft \in 0..(SizeT - 1)
      /\ fails \in Nat
  BY DEF TypeOK
<1>2. ~Uneven
  BY <1>1 DEF Uneven, Next, vars, Call, WriteSome, WriteNothing, Interrupted,
              Failed, FailureGoesBack, TypeOK
<1>3. CASE Call
  BY <1>1, <1>2, <1>3 DEF Call, TextInv
<1>4. CASE WriteSome
  <2>1. /\ \A i \in 1..Len(wire) : wire[i] = i
        /\ Len(wire) = base + ptr /\ ptr \in 0..len
        /\ fn = "http_Writen" => ptr = 0 /\ nleft = len
        /\ len' = len /\ fn' = fn
    BY <1>2, <1>4 DEF WriteSome, TextInv
  <2>2. CASE fn = "http_Writen"
    <3> PICK k \in 1..len :
          /\ wire' = wire \o Bytes(ptr, k) /\ nleft' = (nleft - k) % SizeT
          /\ cut' = (cut \/ k < len)
      BY <1>4, <2>2 DEF WriteSome, Ask
    <3>1. k = len
      <4>1. ~cut'
        BY <2>1, <2>2 DEF Uneven
      <4>2. ~(k < len)
        BY <4>1, Zenon
      <4> QED
        BY <1>1, <4>2
    <3>2. nleft - k = 0 /\ 0 \in 0..(SizeT - 1) /\ SizeT \in Nat \ {0}
      BY <1>1, <2>1, <2>2, <3>1
    <3>3. nleft' = 0
      BY <3>2, ModSmall
    <3>4. pc' = "idle" /\ base' = base + (len - 0)
      BY <1>1, <1>4, <3>3, ReturnOf DEF WriteSome
    <3>5. /\ Len(wire') = base + ptr + k
          /\ \A i \in 1..Len(wire') : wire'[i] = i
      BY <1>1, <2>1, <2>2, <3>1, TextGrows
    <3> QED
      BY <1>1, <2>1, <2>2, <3>1, <3>4, <3>5
  <2>3. CASE fn # "http_Writen"
    <3> PICK k \in 1..nleft :
          /\ wire' = wire \o Bytes(ptr, k) /\ ptr' = ptr + k
          /\ \/ pc' = "loop" /\ base' = base
             \/ pc' = "idle" /\ base' = base + ptr'
      BY <1>4, <2>3, AfterWrite
    <3>1. k \in Nat /\ ptr + k <= len
      BY <1>1, <1>4, <2>3 DEF WriteSome, CallInv
    <3>2. /\ Len(wire') = base + ptr + k
          /\ \A i \in 1..Len(wire') : wire'[i] = i
      BY <2>1, <3>1, TextGrows
    <3> QED
      BY <1>1, <2>1, <2>3, <3>1, <3>2
  <2> QED
    BY <2>2, <2>3
<1>5. CASE WriteNothing
  <2>1. /\ \A i \in 1..Len(wire) : wire[i] = i
        /\ Len(wire) = base + ptr /\ ptr \in 0..len
        /\ fn = "http_Writen" => ptr = 0 /\ nleft = len
        /\ wire' = wire
    BY <1>2, <1>5 DEF WriteNothing, TextInv
  <2>2. nleft \in 0..len /\ len - nleft = ptr
    BY <1>1, <1>5, <2>1 DEF WriteNothing, CallInv
  <2>3. pc' = "idle" /\ base' = base + (len - nleft)
    BY <1>5, <2>2, ReturnOf DEF WriteNothing
  <2> QED
    BY <1>1, <2>1, <2>2, <2>3
<1>6. CASE Interrupted
  BY <1>2, <1>6 DEF Interrupted, TextInv
<1>7. CASE Failed
  BY <1>2, <1>7 DEF Failed, TextInv
<1>8. CASE FailureGoesBack
  <2>1. fn \in AllHelpers \ {"rio_write"} /\ fn' = fn /\ fails' > 0
    BY <1>1, <1>8 DEF FailureGoesBack, TypeOK
  <2> QED
    BY <2>1 DEF AllHelpers, Uneven
<1>9. CASE UNCHANGED vars
  BY <1>2, <1>9 DEF vars, TextInv
<1> QED
  BY <1>3, <1>4, <1>5, <1>6, <1>7, <1>8, <1>9 DEF Next

\* Through short writes, interruptions and errors rio_write sends the text
\* without a gap or a repetition and reports it all; Write_s does until a write
\* fails, http_Writen until a write is short.
THEOREM TextIsSent == Spec => []SendsTheText
<1>1. Init => TypeOK /\ CallInv /\ TextInv
  <2>1. ASSUME Init PROVE TextInv
    <3>1. wire \in Seq(Nat) /\ Len(wire) = 0
      BY <2>1, EmptySeq DEF Init
    <3> QED
      BY <2>1, <3>1 DEF Init, TextInv
  <2> QED
    BY <2>1, InitTypeOK, InitCalls
<1>2. TypeOK /\ CallInv /\ TextInv /\ [Next]_vars => (TypeOK /\ CallInv /\ TextInv)'
  BY NextTypeOK, NextCallInv, NextTextInv
<1>3. TextInv => SendsTheText
  BY DEF TextInv, SendsTheText
<1> QED
  BY <1>1, <1>2, <1>3, PTL DEF Spec

=============================================================================
