----------------------------- MODULE ReadIoProof ----------------------------
(***************************************************************************)
(* Proofs about ReadIo for every stream, every length of the buffers,      *)
(* every number of failures and every width of size_t that holds them.     *)
(***************************************************************************)
EXTENDS ReadIo, SequenceTheorems, TLAPS

Bytes == 0..Len(Stream)

-----------------------------------------------------------------------------
(* Arithmetic of size_t, and what a return gives to the caller.            *)

LEMMA ModRange ==
  ASSUME NEW s \in Nat \ {0}, NEW x \in Int
  PROVE  x % s \in 0..(s - 1)
  OBVIOUS

LEMMA ModSmall ==
  ASSUME NEW s \in Nat \ {0}, NEW x \in 0..(s - 1)
  PROVE  x % s = x
  OBVIOUS

LEMMA StreamLength == Len(Stream) \in Nat
  BY ReadIoAssumption, LenProperties

\* The caller takes the first bytes of m, as many as it was told, but never
\* more than it has room for.
LEMMA Returned ==
  ASSUME len \in 1..MaxLen, given \in Seq(Bytes),
         NEW m \in [Offsets -> Bytes], NEW count \in Nat, Return(m, count)
  PROVE  /\ pc' = "idle"
         /\ given' \in Seq(Bytes)
         /\ Len(given) \in Nat
         /\ Len(given') = Len(given) + Least(count, len)
         /\ \A i \in 1..Len(given) : given'[i] = given[i]
         /\ \A i \in 1..Least(count, len) : given'[Len(given) + i] = m[i - 1]
<1> DEFINE n == Least(count, len)
           t == [i \in 1..n |-> m[i - 1]]
<1>1. n \in Nat /\ n <= len /\ MaxLen \in Nat /\ len \in Nat /\ len <= MaxLen
  BY ReadIoAssumption DEF Least
<1>2. pc' = "idle" /\ given' = given \o t
  BY DEF Return
<1> HIDE DEF n
<1>3. t \in [1..n -> Bytes]
  <2>1. ASSUME NEW i \in 1..n PROVE m[i - 1] \in Bytes
    <3>1. i - 1 \in Offsets
      BY <1>1 DEF Offsets
    <3>2. QED
      BY <3>1
  <2>2. QED
    BY <2>1
<1>4. t \in Seq(Bytes) /\ Len(t) = n
  <2>1. t \in Seq(Bytes)
    BY <1>1, <1>3, SeqDef
  <2>2. Len(t) \in Nat /\ DOMAIN t = 1..Len(t)
    BY <2>1, LenProperties
  <2>3. DOMAIN t = 1..n
    BY <1>3
  <2>4. ASSUME NEW j \in Nat, NEW k \in Nat, 1..j = 1..k PROVE j = k
    <3>1. \A i \in Int : i \in 1..j <=> i \in 1..k
      BY <2>4
    <3>2. j \in 0..k /\ k \in 0..j
      BY <3>1, j = 0 \/ j \in 1..j, k = 0 \/ k \in 1..k
    <3>3. QED
      BY <3>2
  <2>5. QED
    BY <1>1, <2>1, <2>2, <2>3, <2>4
<1>5. \A i \in 1..n : t[i] = m[i - 1]
  OBVIOUS
<1> HIDE DEF t
<1>6. /\ given' \in Seq(Bytes) /\ Len(given) \in Nat
      /\ Len(given') = Len(given) + n
      /\ \A i \in 1..(Len(given) + n) :
           given'[i] = IF i <= Len(given) THEN given[i] ELSE t[i - Len(given)]
  BY <1>2, <1>4, ConcatProperties, LenProperties
<1>7. \A i \in 1..Len(given) : given'[i] = given[i]
  BY <1>1, <1>6
<1>8. ASSUME NEW i \in 1..n PROVE given'[Len(given) + i] = m[i - 1]
  <2> DEFINE p == Len(given) + i
  <2>1. p \in 1..(Len(given) + n) /\ ~(p <= Len(given)) /\ p - Len(given) = i
    BY <1>1, <1>6
  <2> HIDE DEF p
  <2>2. given'[p] = t[i]
    BY <1>6, <2>1
  <2>3. QED
    BY <1>5, <2>2 DEF p
<1>9. QED
  BY <1>2, <1>6, <1>7, <1>8 DEF n

-----------------------------------------------------------------------------
(* Types, and where a running call is.                                     *)

\* While a call runs, what the buffer has room for is what the counter says:
\* in http_Fgets one less.  http_Readn stays at the start of its buffer; the
\* bytes that rio_read keeps are of the stream.
CallInv ==
  /\ TypeOK
  /\ rio.nread > 0 => rio.start + rio.nread <= Len(Stream)
  /\ pc = "loop" =>
       /\ fn \in {"Read_s", "http_Fgets_s"} => nleft > 0 /\ ptr + nleft = len
       /\ fn = "http_Fgets" => nleft > 0 /\ ptr + nleft = len - 1
       /\ fn \in {"http_Readn", "rio_read"} => ptr = 0

LEMMA InitCallInv == Init => CallInv
<1> SUFFICES ASSUME Init PROVE CallInv
  OBVIOUS
<1>1. Len(Stream) \in Nat /\ SizeT \in Nat /\ SizeT >= 1 /\ MaxLen \in Nat /\ MaxLen >= 1
      /\ RioSize \in Nat /\ MaxFail \in Nat
  BY ReadIoAssumption, StreamLength
<1>2. given \in Seq(0..Len(Stream))
  BY EmptySeq DEF Init
<1>3. rio \in [nread : -1..RioSize, start : 0..Len(Stream)] /\ rio.nread = 0
  BY <1>1 DEF Init
<1>4. mem \in [Offsets -> 0..Len(Stream)]
  BY <1>1 DEF Init
<1>5. fn \in Helpers /\ pc = "idle" /\ uneven \in BOOLEAN
  BY DEF Init
<1>6. len = 1 /\ nleft = 0 /\ ptr = 0 /\ taken = 0 /\ fails = 0
  BY DEF Init
<1>7. /\ len \in 1..MaxLen /\ nleft \in 0..(SizeT - 1) /\ ptr \in 0..len
      /\ taken \in 0..Len(Stream) /\ fails \in 0..MaxFail
  BY <1>1, <1>6
<1>8. QED
  BY <1>2, <1>3, <1>4, <1>5, <1>7 DEF CallInv, TypeOK

\* The values of the constants and variables as the provers need them.
LEMMA Facts ==
  ASSUME CallInv
  PROVE  /\ Len(Stream) \in Nat /\ SizeT \in Nat \ {0} /\ MaxLen \in Nat \ {0, 1}
         /\ RioSize \in Nat \ {0} /\ MaxFail \in Nat
         /\ SizeT > Len(Stream) + MaxLen + MaxFail
         /\ fn \in Helpers /\ pc \in {"idle", "loop", "dead"}
         /\ len \in Nat /\ 1 <= len /\ len <= MaxLen
         /\ nleft \in Nat /\ nleft < SizeT
         /\ ptr \in Nat /\ ptr <= len
         /\ mem \in [Offsets -> Bytes]
         /\ rio \in [nread : -1..RioSize, start : Bytes]
         /\ rio.nread \in -1..RioSize /\ rio.start \in Bytes
         /\ taken \in Nat /\ taken <= Len(Stream)
         /\ fails \in Nat /\ fails <= MaxFail
         /\ given \in Seq(Bytes)
<1>1. Len(Stream) \in Nat /\ SizeT \in Nat /\ SizeT > Len(Stream) + MaxLen + MaxFail
      /\ MaxLen \in Nat \ {0, 1} /\ MaxFail \in Nat /\ RioSize \in Nat \ {0}
  BY ReadIoAssumption, StreamLength
<1>2. QED
  BY <1>1 DEF CallInv, TypeOK, Bytes

LEMMA Numbers ==
  ASSUME CallInv
  PROVE  /\ Len(Stream) \in Int /\ SizeT \in Int /\ MaxLen \in Int /\ MaxFail \in Int
         /\ 0 <= Len(Stream) /\ 2 <= MaxLen /\ 0 <= MaxFail
         /\ SizeT > Len(Stream) + MaxLen + MaxFail
         /\ len \in Int /\ 1 <= len /\ len <= MaxLen
         /\ nleft \in Int /\ 0 <= nleft /\ nleft < SizeT
         /\ ptr \in Int /\ 0 <= ptr /\ ptr <= len
         /\ taken \in Int /\ 0 <= taken /\ taken <= Len(Stream)
         /\ fails \in Int /\ 0 <= fails /\ fails <= MaxFail
  BY Facts, SMTT(30)

LEMMA SomeRange ==
  ASSUME CallInv, NEW n \in Nat, NEW k \in Some(n)
  PROVE  k \in Int /\ 1 <= k /\ k <= n /\ taken + k <= Len(Stream) /\ taken + k \in Bytes
<1>1. Len(Stream) \in Int /\ taken \in Int /\ 0 <= taken
  BY Numbers
<1>2. k \in 1..Least(n, Len(Stream) - taken)
  BY DEF Some
<1>3. Least(n, Len(Stream) - taken) \in Int
      /\ Least(n, Len(Stream) - taken) <= n
      /\ Least(n, Len(Stream) - taken) <= Len(Stream) - taken
  BY <1>1 DEF Least
<1>4. k \in Int /\ 1 <= k /\ k <= n /\ k <= Len(Stream) - taken
  BY <1>1, <1>2, <1>3
<1>5. taken + k <= Len(Stream) /\ taken + k \in Bytes
  BY <1>1, <1>4 DEF Bytes
<1>6. QED
  BY <1>4, <1>5

\* A read at offset o of at most the room behind it.
LEMMA FilledTyped ==
  ASSUME CallInv, NEW o \in Nat, NEW k \in Nat, taken + k <= Len(Stream)
  PROVE  Filled(mem, o, k) \in [Offsets -> Bytes]
<1>1. ASSUME NEW i \in Offsets
      PROVE  (IF i \in o..(o + k - 1) THEN taken + 1 + i - o ELSE mem[i]) \in Bytes
  <2>1. i \in Int
    BY Facts DEF Offsets
  <2>2. CASE i \in o..(o + k - 1)
    <3>1. o <= i /\ i <= o + k - 1
      BY <2>1, <2>2
    <3>2. taken \in Nat /\ Len(Stream) \in Nat
      BY Facts
    <3>3. taken + 1 + i - o \in 0..Len(Stream)
      BY <2>1, <3>1, <3>2
    <3>4. QED
      BY <2>2, <3>3 DEF Bytes
  <2>3. CASE i \notin o..(o + k - 1)
    BY <2>3, Facts
  <2>4. QED
    BY <2>2, <2>3
<1>2. QED
  BY <1>1 DEF Filled

\* Every step of a call either ends it or leaves `given' alone.
LEMMA StepGiven ==
  ASSUME CallInv, NEW m \in [Offsets -> Bytes], NEW count \in Nat,
         Return(m, count) \/ Continue
  PROVE  given' \in Seq(Bytes) /\ pc' \in {"idle", "loop"}
<1>1. len \in 1..MaxLen /\ given \in Seq(Bytes)
  BY Facts
<1>2. CASE Return(m, count)
  BY <1>1, <1>2, Returned
<1>3. CASE Continue
  BY <1>1, <1>3 DEF Continue
<1>4. QED
  BY <1>2, <1>3

LEMMA RioTakeCallInv ==
  ASSUME CallInv, NEW n \in 1..RioSize, NEW start \in Bytes, start + n <= Len(Stream),
         RioTake(n, start), UNCHANGED <<fn, len, nleft, ptr, fails>>,
         taken' \in Bytes
  PROVE  CallInv'
<1> DEFINE cnt == Least(len, n)
           m == [i \in Offsets |-> IF i < cnt THEN start + 1 + i ELSE 0]
<1>1. cnt \in Nat /\ cnt <= n /\ n \in Nat /\ n <= RioSize
  BY Facts DEF Least
<1>2. /\ Return(m, cnt) /\ mem' = m
      /\ rio' = [nread |-> n - cnt, start |-> start]
      /\ uneven' = (uneven \/ cnt < n)
  BY DEF RioTake
<1>3. m \in [Offsets -> Bytes]
  <2>1. ASSUME NEW i \in Offsets
        PROVE  (IF i < cnt THEN start + 1 + i ELSE 0) \in Bytes
    <3>1. i \in Nat /\ start \in Nat
      BY Facts DEF Offsets, Bytes
    <3>2. QED
      BY <1>1, <3>1, Facts, SMTT(30) DEF Bytes
  <2> HIDE DEF cnt
  <2>2. QED
    BY <2>1
<1> HIDE DEF cnt, m
<1>4. given' \in Seq(Bytes) /\ pc' = "idle"
  <2>1. len \in 1..MaxLen /\ given \in Seq(Bytes)
    BY Facts
  <2>2. QED
    BY <1>1, <1>2, <1>3, <2>1, Returned
<1>5. /\ rio' \in [nread : -1..RioSize, start : Bytes]
      /\ rio'.nread = n - cnt /\ rio'.start = start
  BY <1>1, <1>2, Facts, SMTT(30) DEF Bytes
<1>6. rio'.start + rio'.nread <= Len(Stream)
  BY <1>1, <1>5, Facts DEF Bytes
<1>7. QED
  BY <1>2, <1>3, <1>4, <1>5, <1>6 DEF CallInv, TypeOK, Bytes

LEMMA RioReadCallInv == CallInv /\ RioRead => CallInv'
<1> SUFFICES ASSUME CallInv, RioRead PROVE CallInv'
  OBVIOUS
<1>1. UNCHANGED <<fn, len, nleft, ptr, fails>>
  BY DEF RioRead
<1>2. CASE rio.nread > 0 /\ RioTake(rio.nread, rio.start) /\ UNCHANGED taken
  <2>1. rio.nread \in 1..RioSize /\ rio.start \in Bytes /\ taken' \in Bytes
    BY <1>2, Facts DEF Bytes
  <2>2. rio.start + rio.nread <= Len(Stream)
    BY <1>2 DEF CallInv
  <2>3. QED
    BY <1>1, <1>2, <2>1, <2>2, RioTakeCallInv
<1>3. ASSUME NEW k \in Some(RioSize), RioTake(k, taken), taken' = taken + k
      PROVE  CallInv'
  <2>1. k \in 1..RioSize /\ taken + k <= Len(Stream)
    BY SomeRange, ReadIoAssumption
  <2>2. taken \in Bytes /\ taken' \in Bytes
    BY <1>3, SomeRange, ReadIoAssumption, Numbers DEF Bytes
  <2>3. QED
    BY <1>1, <1>3, <2>1, <2>2, RioTakeCallInv
<1>4. CASE Return(mem, 0) /\ rio' = [rio EXCEPT !.nread = 0] /\ UNCHANGED <<mem, taken, uneven>>
  <2>1. len \in 1..MaxLen /\ given \in Seq(Bytes) /\ mem \in [Offsets -> Bytes]
    BY Facts
  <2>2. given' \in Seq(Bytes) /\ pc' = "idle"
    BY <1>4, <2>1, Returned
  <2>3. rio' \in [nread : -1..RioSize, start : 0..Len(Stream)] /\ rio'.nread = 0
    <3>1. rio \in [nread : -1..RioSize, start : Bytes]
      BY Facts
    <3>2. RioSize \in Nat
      BY ReadIoAssumption
    <3>3. 0 \in -1..RioSize
      BY <3>2
    <3>4. rio' = [rio EXCEPT !.nread = 0]
      BY <1>4
    <3> HIDE DEF Bytes
    <3>5. rio' \in [nread : -1..RioSize, start : Bytes] /\ rio'.nread = 0
      BY <3>1, <3>3, <3>4
    <3>6. QED
      BY <3>5 DEF Bytes
  <2>4. QED
    BY <1>1, <1>4, <2>2, <2>3 DEF CallInv, TypeOK, Bytes
<1>5. QED
  BY <1>2, <1>3, <1>4 DEF RioRead

LEMMA RioReadFailsCallInv == CallInv /\ RioReadFails => CallInv'
<1> SUFFICES ASSUME CallInv, RioReadFails PROVE CallInv'
  OBVIOUS
<1>1. /\ UNCHANGED <<fn, len, nleft, ptr, mem, taken, uneven, given>>
      /\ fails < MaxFail /\ fails' = fails + 1
      /\ rio' = [rio EXCEPT !.nread = -1]
  BY DEF RioReadFails, Fail
<1>2. pc' \in {"idle", "dead"}
  BY DEF RioReadFails
<1>3. fails' \in 0..MaxFail
  BY <1>1, Numbers
<1>4. rio' \in [nread : -1..RioSize, start : Bytes] /\ rio'.nread = -1
  <2>1. RioSize \in Nat /\ rio \in [nread : -1..RioSize, start : Bytes]
    BY Facts
  <2>2. -1 \in -1..RioSize
    BY <2>1
  <2>3. QED
    BY <1>1, <2>1, <2>2
<1>5. QED
  BY <1>1, <1>2, <1>3, <1>4 DEF CallInv, TypeOK, Bytes

LEMMA CallCallInv == CallInv /\ Call => CallInv'
<1> SUFFICES ASSUME CallInv, Call PROVE CallInv'
  OBVIOUS
<1>1. /\ UNCHANGED <<fn, rio, taken, fails, uneven, given>>
      /\ pc' = "loop" /\ ptr' = 0 /\ mem' = [i \in Offsets |-> 0]
  BY DEF Call
<1>2. PICK n \in 2..MaxLen :
        len' = n /\ nleft' = IF fn = "http_Fgets" THEN n - 1 ELSE n
  BY DEF Call
<1>3. mem' \in [Offsets -> Bytes]
  BY <1>1, Facts DEF Bytes
<1>4. len' \in 1..MaxLen /\ nleft' \in 0..(SizeT - 1) /\ ptr' \in 0..len' /\ nleft' > 0
  BY <1>1, <1>2, Numbers
<1>5. /\ fn = "http_Fgets" => ptr' + nleft' = len' - 1
      /\ fn # "http_Fgets" => ptr' + nleft' = len'
  BY <1>1, <1>2, Numbers
<1>6. QED
  BY <1>1, <1>3, <1>4, <1>5 DEF CallInv, TypeOK, Bytes

\* How much http_Readn or Read_s reads at once.
LEMMA ReadSomeRange ==
  ASSUME CallInv, fn \in {"http_Readn", "Read_s"}, pc = "loop",
         NEW k \in Some(IF fn = "Read_s" THEN nleft ELSE len)
  PROVE  /\ k \in Nat /\ k > 0 /\ k <= len
         /\ taken + k <= Len(Stream) /\ taken + k \in Bytes
         /\ fn = "Read_s" => k <= nleft /\ ptr + nleft = len /\ nleft - k = (nleft - k) % SizeT
         /\ fn = "http_Readn" => ptr = 0
         /\ (nleft - k) % SizeT \in 0..(SizeT - 1)
         /\ Filled(mem, ptr, k) \in [Offsets -> Bytes]
<1>1. /\ fn = "Read_s" => ptr + nleft = len
      /\ fn = "http_Readn" => ptr = 0
  BY DEF CallInv
<1>2. /\ k \in Nat /\ k > 0 /\ taken + k <= Len(Stream)
      /\ k <= IF fn = "Read_s" THEN nleft ELSE len
  <2>1. (IF fn = "Read_s" THEN nleft ELSE len) \in Nat
    BY Numbers
  <2>2. QED
    BY <2>1, SomeRange
<1>3. k <= len /\ taken + k \in Bytes
  BY <1>1, <1>2, Numbers, SMTT(30) DEF Bytes
<1>4. fn = "Read_s" => k <= nleft /\ nleft - k \in 0..(SizeT - 1)
  BY <1>2, Numbers, SMTT(30)
<1>5. (nleft - k) % SizeT \in 0..(SizeT - 1)
  <2>1. nleft - k \in Int /\ SizeT \in Nat \ {0}
    BY <1>2, Numbers
  <2>2. QED
    BY <2>1, ModRange
<1>6. fn = "Read_s" => nleft - k = (nleft - k) % SizeT
  <2>1. SizeT \in Nat \ {0}
    BY Numbers
  <2>2. QED
    BY <1>4, <2>1, ModSmall
<1>7. Filled(mem, ptr, k) \in [Offsets -> Bytes]
  BY <1>2, FilledTyped, Facts
<1>8. QED
  BY <1>1, <1>2, <1>3, <1>4, <1>5, <1>6, <1>7

LEMMA ReadSomeCallInv == CallInv /\ ReadSome => CallInv'
<1> SUFFICES ASSUME CallInv, ReadSome PROVE CallInv'
  OBVIOUS
<1>1. /\ fn \in {"http_Readn", "Read_s"} /\ pc = "loop"
      /\ IF nleft' = 0 THEN Return(mem', len) ELSE Continue
      /\ UNCHANGED <<fn, len, rio, fails>>
  BY DEF ReadSome
<1>2. PICK k \in Some(IF fn = "Read_s" THEN nleft ELSE len) :
        /\ mem' = Filled(mem, ptr, k)
        /\ taken' = taken + k
        /\ nleft' = (nleft - k) % SizeT
        /\ ptr' = IF fn = "Read_s" THEN ptr + k ELSE 0
        /\ uneven' = (uneven \/ (fn = "http_Readn" /\ nleft # len))
  BY DEF ReadSome
<1>3. /\ k \in Nat /\ k > 0 /\ k <= len
      /\ taken' \in Bytes
      /\ fn = "Read_s" => k <= nleft /\ ptr + nleft = len /\ nleft' = nleft - k
      /\ nleft' \in 0..(SizeT - 1)
      /\ mem' \in [Offsets -> Bytes]
  BY <1>1, <1>2, ReadSomeRange
<1>4. given' \in Seq(Bytes) /\ pc' \in {"idle", "loop"} /\ (pc' = "loop" => nleft' # 0)
  <2>1. len \in Nat
    BY Facts
  <2>2. CASE nleft' = 0
    BY <1>1, <1>3, <2>1, <2>2, StepGiven DEF Return
  <2>3. CASE nleft' # 0
    BY <1>1, <1>3, <2>1, <2>3, StepGiven
  <2>4. QED
    BY <2>2, <2>3
<1>5. /\ ptr' \in 0..len
      /\ fn = "Read_s" => ptr' + nleft' = len
      /\ fn = "http_Readn" => ptr' = 0
      /\ nleft' # 0 => nleft' > 0
  <2>1. nleft' # 0 => nleft' > 0
    BY <1>3, Numbers
  <2>2. CASE fn = "Read_s"
    <3>1. ptr' = ptr + k /\ nleft' = nleft - k /\ ptr + nleft = len /\ k \in Nat /\ k <= nleft
      BY <1>2, <1>3, <2>2
    <3>2. ptr \in Int /\ nleft \in Int /\ len \in Int /\ 0 <= ptr
      BY Numbers
    <3>3. ptr + k \in 0..len /\ (ptr + k) + (nleft - k) = len
      BY <3>1, <3>2
    <3>4. QED
      BY <2>1, <2>2, <3>1, <3>3
  <2>3. CASE fn = "http_Readn"
    BY <1>2, <2>1, <2>3, Numbers
  <2>4. QED
    BY <1>1, <2>2, <2>3
<1>6. uneven' \in BOOLEAN
  BY <1>2
<1>7. QED
  BY <1>1, <1>3, <1>4, <1>5, <1>6 DEF CallInv, TypeOK, Bytes

LEMMA CountRange ==
  ASSUME CallInv
  PROVE  /\ Count(nleft) \in Nat
         /\ nleft <= len => Count(nleft) = len - nleft
<1>1. len - nleft \in Int /\ (nleft <= len => len - nleft \in 0..(SizeT - 1))
  BY Facts, SMTT(30)
<1>2. (len - nleft) % SizeT \in 0..(SizeT - 1)
  BY <1>1, ModRange, Facts
<1>3. nleft <= len => (len - nleft) % SizeT = len - nleft
  BY <1>1, ModSmall, Facts
<1>4. QED
  BY <1>2, <1>3, Facts DEF Count

\* A call that ends without touching its buffer.
LEMMA ReturnCallInv ==
  ASSUME CallInv, NEW count \in Nat, Return(mem, count),
         UNCHANGED <<fn, len, ptr, mem, rio>>,
         nleft' \in 0..(SizeT - 1), taken' \in Bytes, fails' \in 0..MaxFail,
         uneven' \in BOOLEAN
  PROVE  CallInv'
<1>1. len \in 1..MaxLen /\ given \in Seq(Bytes) /\ mem \in [Offsets -> Bytes]
  BY Facts
<1>2. given' \in Seq(Bytes) /\ pc' = "idle"
  BY <1>1, Returned
<1>3. QED
  BY <1>2 DEF CallInv, TypeOK, Bytes

LEMMA ReadEndCallInv == CallInv /\ ReadEnd => CallInv'
<1> SUFFICES ASSUME CallInv, ReadEnd PROVE CallInv'
  OBVIOUS
<1>1. /\ Return(mem, Count(nleft))
      /\ UNCHANGED <<fn, len, nleft, ptr, mem, rio, taken, fails, uneven>>
  BY DEF ReadEnd
<1>2. nleft \in 0..(SizeT - 1) /\ taken \in Bytes /\ fails \in 0..MaxFail /\ uneven \in BOOLEAN
  BY DEF CallInv, TypeOK, Bytes
<1>3. QED
  BY <1>1, <1>2, CountRange, ReturnCallInv

LEMMA ReadFailsCallInv == CallInv /\ ReadFails => CallInv'
<1> SUFFICES ASSUME CallInv, ReadFails PROVE CallInv'
  OBVIOUS
<1>1. /\ fn \in {"http_Readn", "Read_s"} /\ pc = "loop"
      /\ UNCHANGED <<fn, len, ptr, mem, rio, taken>>
      /\ fails < MaxFail /\ fails' = fails + 1
  BY DEF ReadFails, Fail
<1>2. nleft \in 0..(SizeT - 1) /\ taken \in Bytes /\ fails' \in 0..MaxFail /\ uneven \in BOOLEAN
  <2>1. fails' \in 0..MaxFail
    BY <1>1, Facts, SMTT(30)
  <2>2. QED
    BY <2>1 DEF CallInv, TypeOK, Bytes
<1>3. CASE fn = "Read_s"
  <2>1. Return(mem, Count(nleft)) /\ UNCHANGED <<nleft, uneven>>
    BY <1>3 DEF ReadFails
  <2>2. QED
    BY <1>1, <1>2, <2>1, CountRange, ReturnCallInv
<1>4. CASE fn = "http_Readn"
  <2>1. /\ nleft' = (nleft + 1) % SizeT /\ uneven' = TRUE
        /\ IF nleft' = 0 THEN Return(mem, len) ELSE Continue
    BY <1>4 DEF ReadFails
  <2>2. nleft' \in 0..(SizeT - 1)
    <3>1. nleft + 1 \in Int /\ SizeT \in Nat \ {0}
      BY Numbers
    <3>2. QED
      BY <2>1, <3>1, ModRange
  <2>3. CASE nleft' = 0
    BY <1>1, <1>2, <2>1, <2>2, <2>3, ReturnCallInv, Facts
  <2>4. CASE Continue
    BY <1>1, <1>2, <1>4, <2>1, <2>2, <2>4 DEF CallInv, TypeOK, Bytes, Continue
  <2>5. QED
    BY <2>1, <2>3, <2>4
<1>5. QED
  BY <1>1, <1>3, <1>4

\* A character is stored where there is room for it.
LEMMA StoreCallInv ==
  ASSUME CallInv, fn \in LineHelpers, pc = "loop",
         NEW c \in Bytes, NEW lf \in BOOLEAN, Store(c, lf),
         UNCHANGED <<fn, len, rio>>,
         taken' \in Bytes, fails' \in 0..MaxFail, uneven' \in BOOLEAN
  PROVE  /\ CallInv'
         /\ ptr \in Offsets /\ mem' = [mem EXCEPT ![ptr] = c]
         /\ ptr' = ptr + 1 /\ nleft' = nleft - 1 /\ ptr' \in Nat /\ ptr' <= len
<1>1. /\ mem' = [mem EXCEPT ![ptr] = c]
      /\ ptr' = ptr + 1 /\ nleft' = nleft - 1
      /\ IF lf \/ nleft' = 0 THEN Return(mem', ptr') ELSE Continue
  BY DEF Store, EndsLine
<1>2. /\ nleft > 0
      /\ fn = "http_Fgets_s" => ptr + nleft = len
      /\ fn = "http_Fgets" => ptr + nleft = len - 1
      /\ fn \in {"http_Fgets_s", "http_Fgets"}
  BY DEF CallInv, LineHelpers
<1>3. /\ ptr \in Offsets /\ ptr' \in Nat /\ ptr' <= len /\ nleft' \in 0..(SizeT - 1)
      /\ fn = "http_Fgets_s" => ptr' + nleft' = len
      /\ fn = "http_Fgets" => ptr' + nleft' = len - 1
  <2>1. ptr + nleft <= len /\ nleft > 0
    BY <1>2, Numbers
  <2>2. ptr \in Offsets /\ ptr' \in Nat /\ ptr' <= len /\ nleft' \in 0..(SizeT - 1)
    <3>1. ptr' = ptr + 1 /\ nleft' = nleft - 1
      BY <1>1
    <3>2. nleft - 1 \in 0..(SizeT - 1) /\ ptr + 1 \in Nat /\ ptr + 1 <= len
      BY <2>1, Numbers, SMTT(30)
    <3>3. ptr \in 0..(MaxLen - 1)
      BY <2>1, Numbers
    <3>4. QED
      BY <3>1, <3>2, <3>3 DEF Offsets
  <2>3. ptr' + nleft' = ptr + nleft
    BY <1>1, Numbers
  <2>4. QED
    BY <1>2, <2>2, <2>3
<1>4. mem' \in [Offsets -> Bytes]
  BY <1>1, Facts
<1>5. given' \in Seq(Bytes) /\ pc' \in {"idle", "loop"} /\ (pc' = "loop" => nleft' # 0)
  <2>1. CASE lf \/ nleft' = 0
    BY <1>1, <1>3, <1>4, <2>1, StepGiven DEF Return
  <2>2. CASE ~(lf \/ nleft' = 0)
    BY <1>1, <1>3, <1>4, <2>2, StepGiven
  <2>3. QED
    BY <2>1, <2>2
<1>6. ptr' \in 0..len /\ (nleft' # 0 => nleft' > 0)
  BY <1>3, Facts
<1>7. CallInv'
  BY <1>2, <1>3, <1>4, <1>5, <1>6 DEF CallInv, TypeOK, Bytes
<1>8. QED
  BY <1>1, <1>3, <1>7

LEMMA GetCharCallInv == CallInv /\ GetChar => CallInv'
<1> SUFFICES ASSUME CallInv, GetChar PROVE CallInv'
  OBVIOUS
<1>1. /\ fn \in LineHelpers /\ pc = "loop" /\ taken # Len(Stream) /\ taken' = taken + 1
      /\ UNCHANGED <<fn, len, rio, fails>>
  BY DEF GetChar, AtEof
<1>2. taken' \in Bytes
  BY <1>1, Numbers DEF Bytes
<1>3. fails' \in 0..MaxFail /\ nleft \in 0..(SizeT - 1) /\ uneven \in BOOLEAN /\ ptr \in Nat
  BY <1>1, Numbers DEF CallInv, TypeOK
<1>4. CASE Return(mem, ptr) /\ uneven' = TRUE /\ UNCHANGED <<nleft, ptr, mem>>
  BY <1>1, <1>2, <1>3, <1>4, ReturnCallInv
<1>5. CASE Store(taken', Stream[taken'] = "N") /\ UNCHANGED uneven
  BY <1>1, <1>2, <1>3, <1>5, StoreCallInv
<1>6. QED
  BY <1>4, <1>5 DEF GetChar

LEMMA GetEofCallInv == CallInv /\ GetEof => CallInv'
<1> SUFFICES ASSUME CallInv, GetEof PROVE CallInv'
  OBVIOUS
<1>1. Return(mem, ptr) /\ UNCHANGED <<fn, len, nleft, ptr, mem, rio, taken, fails, uneven>>
  BY DEF GetEof
<1>2. nleft \in 0..(SizeT - 1) /\ taken \in Bytes /\ fails \in 0..MaxFail /\ uneven \in BOOLEAN
  BY DEF CallInv, TypeOK, Bytes
<1>3. QED
  BY <1>1, <1>2, ReturnCallInv, Facts

LEMMA GetFailsCallInv == CallInv /\ GetFails => CallInv'
<1> SUFFICES ASSUME CallInv, GetFails PROVE CallInv'
  OBVIOUS
<1>1. /\ fn \in LineHelpers /\ pc = "loop" /\ fails < MaxFail /\ fails' = fails + 1
      /\ UNCHANGED <<fn, len, rio, taken>>
  BY DEF GetFails, Fail
<1>2. fails' \in 0..MaxFail
  BY <1>1, Numbers
<1>3. taken' \in Bytes /\ nleft \in 0..(SizeT - 1) /\ uneven \in BOOLEAN /\ ptr \in Nat
  BY <1>1, Facts DEF CallInv, TypeOK, Bytes
<1>4. CASE fn = "http_Fgets"
  <2>1. Return(mem, ptr) /\ UNCHANGED <<nleft, ptr, mem, uneven>>
    BY <1>4 DEF GetFails
  <2>2. QED
    BY <1>1, <1>2, <1>3, <2>1, ReturnCallInv
<1>5. CASE fn # "http_Fgets"
  <2>1. /\ \/ ptr > 0 /\ Store(mem[ptr - 1], FALSE)
           \/ ptr = 0 /\ \E lf \in BOOLEAN : Store(0, lf)
        /\ uneven' = TRUE
    BY <1>5 DEF GetFails
  <2>2. CASE ptr > 0 /\ Store(mem[ptr - 1], FALSE)
    <3>1. mem[ptr - 1] \in Bytes
      <4>1. ptr - 1 \in Offsets
        BY <2>2, Facts, SMTT(30) DEF Offsets
      <4>2. QED
        BY <4>1, Facts
    <3>2. QED
      BY <1>1, <1>2, <1>3, <2>1, <2>2, <3>1, StoreCallInv
  <2>3. CASE \E lf \in BOOLEAN : Store(0, lf)
    <3>1. PICK lf \in BOOLEAN : Store(0, lf)
      BY <2>3
    <3>2. 0 \in Bytes
      BY Facts DEF Bytes
    <3>3. QED
      BY <1>1, <1>2, <1>3, <2>1, <3>1, <3>2, StoreCallInv
  <2>4. QED
    BY <2>1, <2>2, <2>3
<1>6. QED
  BY <1>4, <1>5

LEMMA StepCallInv == CallInv /\ [Next]_vars => CallInv'
<1>1. CallInv /\ UNCHANGED vars => CallInv'
  BY DEF vars, call, CallInv, TypeOK
<1>2. QED
  BY <1>1, CallCallInv, RioReadCallInv, RioReadFailsCallInv, ReadSomeCallInv, ReadEndCallInv,
     ReadFailsCallInv, GetCharCallInv, GetEofCallInv, GetFailsCallInv DEF Next, Serve

\* The types hold, and with them the bounds of the code: the buffer is never
\* written behind its end, in particular by the storing loops of http_Fgets_s
\* and http_Fgets after any number of failed reads, and the counters stay
\* within size_t.
THEOREM TypeCorrect == Spec => []TypeOK
<1>1. CallInv => TypeOK
  BY DEF CallInv
<1>2. QED
  BY <1>1, InitCallInv, StepCallInv, PTL DEF Spec

-----------------------------------------------------------------------------
(* Every byte once, in order.                                              *)

\* The k bytes the running call has are at the start of its buffer, and they are
\* the next ones of the stream after those given.
Has(k) ==
  /\ Len(given) + k = taken
  /\ \A i \in 0..(k - 1) : mem[i] = Len(given) + 1 + i

\* Up to the case its helper does not handle, what was given and what the
\* running call has is all that was taken, in the order of the stream; the rio
\* buffer is empty.  Read_s handles every case.
GivesInv ==
  /\ fn = "Read_s" => ~uneven
  /\ ~uneven =>
       /\ IsPrefixOfStream(given)
       /\ rio.nread <= 0
       /\ (pc # "loop" \/ fn = "rio_read") => Len(given) = taken
       /\ (pc = "loop" /\ fn = "http_Readn") =>
            nleft > 0 /\ nleft <= len /\ Has(len - nleft)
       /\ (pc = "loop" /\ fn \in {"Read_s", "http_Fgets_s", "http_Fgets"}) => Has(ptr)

LEMMA InitGivesInv == Init => GivesInv
<1> SUFFICES ASSUME Init PROVE GivesInv
  OBVIOUS
<1>1. given = <<>> /\ taken = 0 /\ pc = "idle" /\ uneven = FALSE /\ rio.nread = 0
  BY DEF Init
<1>2. Len(given) = 0 /\ IsPrefixOfStream(given)
  BY <1>1 DEF IsPrefixOfStream
<1>3. QED
  BY <1>1, <1>2 DEF GivesInv

\* A call that returns the next bytes of the stream.
LEMMA ReturnsNext ==
  ASSUME CallInv, IsPrefixOfStream(given),
         NEW m \in [Offsets -> Bytes], NEW count \in Nat, count <= len, Return(m, count),
         \A i \in 0..(count - 1) : m[i] = Len(given) + 1 + i
  PROVE  /\ pc' = "idle"
         /\ Len(given) \in Nat
         /\ IsPrefixOfStream(given') /\ Len(given') = Len(given) + count
<1>1. len \in 1..MaxLen /\ given \in Seq(Bytes) /\ len \in Nat
  BY Facts
<1>2. Least(count, len) = count
  BY <1>1 DEF Least
<1>3. /\ pc' = "idle" /\ Len(given) \in Nat
      /\ Len(given') = Len(given) + count
      /\ \A i \in 1..Len(given) : given'[i] = given[i]
      /\ \A i \in 1..count : given'[Len(given) + i] = m[i - 1]
  BY <1>1, <1>2, Returned
<1>4. ASSUME NEW i \in 1..Len(given') PROVE given'[i] = i
  <2>1. CASE i <= Len(given)
    <3>1. i \in 1..Len(given)
      BY <1>3, <2>1
    <3>2. QED
      BY <1>3, <3>1 DEF IsPrefixOfStream
  <2>2. CASE i > Len(given)
    <3> DEFINE j == i - Len(given)
    <3>1. j \in 1..count /\ j - 1 \in 0..(count - 1) /\ Len(given) + j = i
          /\ Len(given) + 1 + (j - 1) = i
      BY <1>3, <2>2
    <3> HIDE DEF j
    <3>2. given'[Len(given) + j] = m[j - 1]
      BY <1>3, <3>1
    <3>3. m[j - 1] = Len(given) + 1 + (j - 1)
      BY <3>1
    <3>4. QED
      BY <3>1, <3>2, <3>3
  <2>3. QED
    BY <1>3, <2>1, <2>2
<1>5. QED
  BY <1>3, <1>4 DEF IsPrefixOfStream

LEMMA CallGivesInv == CallInv /\ GivesInv /\ Call => GivesInv'
<1> SUFFICES ASSUME CallInv, GivesInv, Call PROVE GivesInv'
  OBVIOUS
<1>1. /\ UNCHANGED <<fn, rio, taken, fails, uneven, given>>
      /\ pc = "idle" /\ pc' = "loop" /\ ptr' = 0
  BY DEF Call
<1>2. fn = "http_Readn" => len' = nleft' /\ nleft' \in Nat \ {0}
  BY DEF Call
<1>3. Len(given) \in Nat
  BY Facts, LenProperties
<1>4. ASSUME ~uneven
      PROVE  /\ Has(ptr)'
             /\ fn = "http_Readn" => nleft' > 0 /\ nleft' <= len' /\ Has(len - nleft)'
             /\ IsPrefixOfStream(given) /\ rio.nread <= 0 /\ Len(given) = taken
  <2>1. IsPrefixOfStream(given) /\ rio.nread <= 0 /\ Len(given) = taken
    BY <1>1, <1>4 DEF GivesInv
  <2>2. Has(ptr)'
    BY <1>1, <1>3, <2>1 DEF Has
  <2>3. fn = "http_Readn" => nleft' > 0 /\ nleft' <= len' /\ Has(len - nleft)'
    BY <1>1, <1>2, <1>3, <2>1 DEF Has
  <2>4. QED
    BY <2>1, <2>2, <2>3
<1>5. QED
  BY <1>1, <1>4 DEF GivesInv

LEMMA RioReadGivesInv == CallInv /\ GivesInv /\ RioRead => GivesInv'
<1> SUFFICES ASSUME CallInv, GivesInv, RioRead PROVE GivesInv'
  OBVIOUS
<1>1. fn = "rio_read" /\ pc = "loop" /\ fn' = fn
  BY DEF RioRead
<1>2. SUFFICES ASSUME ~uneven'
               PROVE  IsPrefixOfStream(given') /\ rio'.nread <= 0 /\ Len(given') = taken'
  BY <1>1 DEF GivesInv
<1>3. ~uneven
  BY <1>2 DEF RioRead, RioTake
<1>4. IsPrefixOfStream(given) /\ rio.nread <= 0 /\ Len(given) = taken
  BY <1>1, <1>3 DEF GivesInv
<1>5. ~(rio.nread > 0)
  BY <1>4, Facts
<1>6. ASSUME NEW k \in Some(RioSize), RioTake(k, taken), taken' = taken + k
      PROVE  IsPrefixOfStream(given') /\ rio'.nread <= 0 /\ Len(given') = taken'
  <2> DEFINE cnt == Least(len, k)
             m == [i \in Offsets |-> IF i < cnt THEN taken + 1 + i ELSE 0]
  <2>1. /\ Return(m, cnt)
        /\ rio' = [nread |-> k - cnt, start |-> taken]
        /\ ~(cnt < k)
    BY <1>2, <1>6 DEF RioTake
  <2>2. k \in Nat /\ taken + k <= Len(Stream)
    BY SomeRange, ReadIoAssumption
  <2>3. cnt = k /\ k <= len
    BY <2>1, <2>2, Numbers DEF Least
  <2>4. ASSUME NEW i \in Offsets
        PROVE  (IF i < cnt THEN taken + 1 + i ELSE 0) \in Bytes
    <3>1. i \in Nat /\ taken \in Nat /\ Len(Stream) \in Nat
      BY Facts DEF Offsets
    <3>2. i < k => taken + 1 + i \in 0..Len(Stream)
      BY <2>2, <3>1
    <3>3. 0 \in 0..Len(Stream)
      BY <3>1
    <3>4. QED
      BY <2>3, <3>2, <3>3 DEF Bytes
  <2> HIDE DEF cnt
  <2>5. m \in [Offsets -> Bytes]
    BY <2>4
  <2>6. ASSUME NEW i \in 0..(k - 1) PROVE m[i] = Len(given) + 1 + i
    <3>1. i \in Offsets /\ i < k
      BY <2>2, <2>3, Numbers DEF Offsets
    <3>2. QED
      BY <1>4, <2>3, <3>1
  <2> HIDE DEF m
  <2>7. IsPrefixOfStream(given') /\ Len(given') = Len(given) + k
    BY <1>4, <2>1, <2>2, <2>3, <2>5, <2>6, ReturnsNext
  <2>8. rio'.nread = 0
    BY <2>1, <2>2, <2>3
  <2>9. QED
    BY <1>4, <1>6, <2>7, <2>8
<1>7. CASE Return(mem, 0) /\ rio' = [rio EXCEPT !.nread = 0] /\ UNCHANGED <<mem, taken, uneven>>
  <2>1. mem \in [Offsets -> Bytes] /\ 0 <= len /\ Len(given) + 0 = Len(given)
    BY Facts, LenProperties
  <2>2. IsPrefixOfStream(given') /\ Len(given') = Len(given) + 0
    BY <1>4, <1>7, <2>1, ReturnsNext
  <2>3. rio'.nread = 0
    BY <1>7, Facts
  <2>4. QED
    BY <1>4, <1>7, <2>1, <2>2, <2>3
<1>8. QED
  BY <1>5, <1>6, <1>7 DEF RioRead

LEMMA RioReadFailsGivesInv == CallInv /\ GivesInv /\ RioReadFails => GivesInv'
<1> SUFFICES ASSUME CallInv, GivesInv, RioReadFails PROVE GivesInv'
  OBVIOUS
<1>1. /\ UNCHANGED <<fn, taken, uneven, given>> /\ fn = "rio_read"
      /\ rio' = [rio EXCEPT !.nread = -1]
  BY DEF RioReadFails
<1>2. rio'.nread = -1
  BY <1>1, Facts
<1>3. QED
  BY <1>1, <1>2 DEF GivesInv

\* A read behind the bytes that the call has.
LEMMA FilledHas ==
  ASSUME CallInv, NEW o \in Nat, NEW k \in Nat, o + k <= len, Has(o)
  PROVE  \A i \in 0..(o + k - 1) : Filled(mem, o, k)[i] = Len(given) + 1 + i
<1> SUFFICES ASSUME NEW i \in 0..(o + k - 1)
             PROVE  Filled(mem, o, k)[i] = Len(given) + 1 + i
  OBVIOUS
<1>1. Len(given) \in Nat /\ Len(given) + o = taken
  BY Facts, LenProperties DEF Has
<1>2. i \in Offsets
  BY Numbers DEF Offsets
<1>3. Filled(mem, o, k)[i] = IF i \in o..(o + k - 1) THEN taken + 1 + i - o ELSE mem[i]
  BY <1>2 DEF Filled
<1>4. CASE i \in o..(o + k - 1)
  BY <1>1, <1>3, <1>4
<1>5. CASE i \notin o..(o + k - 1)
  <2>1. i \in 0..(o - 1)
    BY <1>5
  <2>2. QED
    BY <1>3, <1>5, <2>1 DEF Has
<1>6. QED
  BY <1>4, <1>5

LEMMA ReadSomeGivesInv == CallInv /\ GivesInv /\ ReadSome => GivesInv'
<1> SUFFICES ASSUME CallInv, GivesInv, ReadSome PROVE GivesInv'
  OBVIOUS
<1>1. /\ fn \in {"http_Readn", "Read_s"} /\ pc = "loop"
      /\ IF nleft' = 0 THEN Return(mem', len) ELSE Continue
      /\ UNCHANGED <<fn, len, rio, fails>>
  BY DEF ReadSome
<1>2. PICK k \in Some(IF fn = "Read_s" THEN nleft ELSE len) :
        /\ mem' = Filled(mem, ptr, k)
        /\ taken' = taken + k
        /\ nleft' = (nleft - k) % SizeT
        /\ ptr' = IF fn = "Read_s" THEN ptr + k ELSE 0
        /\ uneven' = (uneven \/ (fn = "http_Readn" /\ nleft # len))
  BY DEF ReadSome
<1>3. /\ k \in Nat /\ k > 0 /\ k <= len
      /\ fn = "Read_s" => k <= nleft /\ ptr + nleft = len /\ nleft' = nleft - k
      /\ fn = "http_Readn" => ptr = 0
      /\ mem' \in [Offsets -> Bytes]
      /\ nleft' \in Nat
  BY <1>1, <1>2, ReadSomeRange
<1>4. fn = "Read_s" => ~uneven'
  BY <1>2 DEF GivesInv
<1>5. SUFFICES ASSUME ~uneven'
      PROVE  /\ IsPrefixOfStream(given')
             /\ rio.nread <= 0
             /\ pc' # "loop" => Len(given') = taken'
             /\ (pc' = "loop" /\ fn = "http_Readn") =>
                  nleft' > 0 /\ nleft' <= len /\ Has(len - nleft)'
             /\ (pc' = "loop" /\ fn = "Read_s") => Has(ptr)'
  BY <1>1, <1>4 DEF GivesInv
<1>6. ~uneven /\ IsPrefixOfStream(given) /\ rio.nread <= 0
  BY <1>2, <1>5 DEF GivesInv
<1>7. /\ fn = "http_Readn" => nleft = len /\ Has(len - nleft)
      /\ fn = "Read_s" => Has(ptr)
  BY <1>1, <1>2, <1>5, <1>6 DEF GivesInv
<1> DEFINE new == ptr + k
<1>8. /\ Has(ptr) /\ ptr \in Nat /\ new \in Nat /\ new <= len
      /\ nleft' = len - new
      /\ fn = "Read_s" => ptr' = new
  <2>1. len \in Nat /\ nleft \in Nat /\ ptr \in Nat /\ SizeT \in Nat \ {0} /\ len < SizeT
    BY Numbers
  <2>2. CASE fn = "Read_s"
    <3>1. ptr + nleft = len /\ k <= nleft /\ nleft' = nleft - k /\ ptr' = new
      BY <1>2, <1>3, <2>2
    <3>2. new \in Nat /\ new <= len /\ nleft - k = len - new
      BY <1>3, <2>1, <3>1
    <3>3. QED
      BY <1>7, <2>1, <2>2, <3>1, <3>2
  <2>3. CASE fn = "http_Readn"
    <3>1. nleft = len /\ ptr = 0
      BY <1>3, <1>7, <2>3
    <3>2. Has(ptr)
      BY <1>7, <2>1, <2>3, <3>1
    <3>3. new = k /\ len - k \in 0..(SizeT - 1)
      BY <1>3, <2>1, <3>1
    <3>4. (len - k) % SizeT = len - k
      BY <2>1, <3>3, ModSmall
    <3>5. QED
      BY <1>2, <1>3, <2>1, <2>3, <3>1, <3>2, <3>3, <3>4
  <2>4. QED
    BY <1>1, <2>2, <2>3
<1>9. \A i \in 0..(new - 1) : mem'[i] = Len(given) + 1 + i
  BY <1>2, <1>3, <1>8, FilledHas
<1>10. Len(given) \in Nat /\ Len(given) + new = taken'
  <2>1. Len(given) \in Nat /\ Len(given) + ptr = taken
    BY <1>8, Facts, LenProperties DEF Has
  <2>2. QED
    BY <1>2, <1>3, <1>8, <2>1
<1>11. len \in Nat
  BY Facts
<1>12. CASE nleft' = 0
  <2>1. new = len /\ Return(mem', len) /\ len <= len
    BY <1>1, <1>8, <1>11, <1>12
  <2> HIDE DEF new
  <2>2. \A i \in 0..(len - 1) : mem'[i] = Len(given) + 1 + i
    BY <1>9, <2>1
  <2>3. pc' = "idle" /\ IsPrefixOfStream(given') /\ Len(given') = Len(given) + len
    BY <1>3, <1>6, <1>11, <2>1, <2>2, ReturnsNext
  <2>4. QED
    BY <1>6, <1>10, <2>1, <2>3
<1>13. CASE nleft' # 0
  <2>1. pc' = "loop" /\ given' = given
    BY <1>1, <1>13 DEF Continue
  <2>2. nleft' > 0 /\ nleft' <= len /\ len - nleft' = new
    BY <1>3, <1>8, <1>11, <1>13
  <2> HIDE DEF new
  <2>3. Has(len - nleft)'
    BY <1>1, <1>9, <1>10, <2>1, <2>2 DEF Has
  <2>4. fn = "Read_s" => Has(ptr)'
    BY <1>8, <1>9, <1>10, <2>1 DEF Has
  <2>5. QED
    BY <1>1, <1>6, <2>1, <2>2, <2>3, <2>4
<1>14. QED
  BY <1>12, <1>13

\* A call that returns what it has.
LEMMA ReturnGivesInv ==
  ASSUME CallInv, GivesInv, NEW count \in Nat, Return(mem, count),
         UNCHANGED <<fn, rio, taken>>,
         fn = "Read_s" => ~uneven',
         ~uneven' => ~uneven /\ count <= len /\ Has(count)
  PROVE  GivesInv'
<1>1. ASSUME ~uneven'
      PROVE  IsPrefixOfStream(given') /\ rio.nread <= 0 /\ Len(given') = taken /\ pc' = "idle"
  <2>1. IsPrefixOfStream(given) /\ rio.nread <= 0
    BY <1>1 DEF GivesInv
  <2>2. count <= len /\ Len(given) + count = taken
        /\ \A i \in 0..(count - 1) : mem[i] = Len(given) + 1 + i
    BY <1>1 DEF Has
  <2>3. mem \in [Offsets -> Bytes]
    BY Facts
  <2>4. pc' = "idle" /\ IsPrefixOfStream(given') /\ Len(given') = Len(given) + count
    BY <2>1, <2>2, <2>3, ReturnsNext
  <2>5. QED
    BY <2>1, <2>2, <2>4
<1>2. QED
  BY <1>1 DEF GivesInv

\* What Read_s and http_Readn count as read is what they have.
LEMMA CountHas ==
  ASSUME CallInv, GivesInv, fn \in {"http_Readn", "Read_s"}, pc = "loop", ~uneven
  PROVE  Count(nleft) \in Nat /\ Count(nleft) <= len /\ Has(Count(nleft))
<1>1. CASE fn = "Read_s"
  <2>1. ptr + nleft = len /\ Has(ptr)
    BY <1>1 DEF CallInv, GivesInv
  <2>2. Count(nleft) = ptr /\ ptr \in Nat /\ ptr <= len
    BY <2>1, CountRange, Numbers
  <2>3. QED
    BY <2>1, <2>2
<1>2. CASE fn = "http_Readn"
  <2>1. nleft <= len /\ Has(len - nleft)
    BY <1>2 DEF GivesInv
  <2>2. Count(nleft) = len - nleft /\ Count(nleft) \in Nat /\ Count(nleft) <= len
    BY <2>1, CountRange, Numbers
  <2>3. QED
    BY <2>1, <2>2
<1>3. QED
  BY <1>1, <1>2

LEMMA ReadEndGivesInv == CallInv /\ GivesInv /\ ReadEnd => GivesInv'
<1> SUFFICES ASSUME CallInv, GivesInv, ReadEnd PROVE GivesInv'
  OBVIOUS
<1>1. /\ fn \in {"http_Readn", "Read_s"} /\ pc = "loop" /\ Return(mem, Count(nleft))
      /\ UNCHANGED <<fn, rio, taken>> /\ uneven' = uneven
  BY DEF ReadEnd
<1>2. fn = "Read_s" => ~uneven'
  BY <1>1 DEF GivesInv
<1>3. ~uneven' => ~uneven /\ Count(nleft) <= len /\ Has(Count(nleft))
  BY <1>1, CountHas
<1>4. Count(nleft) \in Nat
  BY CountRange
<1> HIDE DEF Count
<1>5. QED
  BY <1>1, <1>2, <1>3, <1>4, ReturnGivesInv

LEMMA ReadFailsGivesInv == CallInv /\ GivesInv /\ ReadFails => GivesInv'
<1> SUFFICES ASSUME CallInv, GivesInv, ReadFails PROVE GivesInv'
  OBVIOUS
<1>1. /\ fn \in {"http_Readn", "Read_s"} /\ pc = "loop"
      /\ UNCHANGED <<fn, rio, taken>>
  BY DEF ReadFails
<1>2. CASE fn = "Read_s"
  <2>1. Return(mem, Count(nleft)) /\ uneven' = uneven
    BY <1>2 DEF ReadFails
  <2>2. fn = "Read_s" => ~uneven'
    BY <2>1 DEF GivesInv
  <2>3. ~uneven' => ~uneven /\ Count(nleft) <= len /\ Has(Count(nleft))
    BY <1>1, <2>1, CountHas
  <2>4. Count(nleft) \in Nat
    BY CountRange
  <2>5. QED
    BY <1>1, <2>1, <2>2, <2>3, <2>4, ReturnGivesInv
<1>3. CASE fn = "http_Readn"
  <2>1. uneven' = TRUE /\ fn' = "http_Readn"
    BY <1>1, <1>3 DEF ReadFails
  <2>2. QED
    BY <2>1 DEF GivesInv
<1>4. QED
  BY <1>1, <1>2, <1>3

\* A line helper that stores the next character of the stream, or ends there.
LEMMA GetCharGivesInv == CallInv /\ GivesInv /\ GetChar => GivesInv'
<1> SUFFICES ASSUME CallInv, GivesInv, GetChar PROVE GivesInv'
  OBVIOUS
<1>1. /\ fn \in LineHelpers /\ pc = "loop" /\ taken # Len(Stream) /\ taken' = taken + 1
      /\ UNCHANGED <<fn, len, rio, fails>>
  BY DEF GetChar, AtEof
<1>2. fn # "Read_s" /\ fn # "rio_read" /\ fn # "http_Readn"
      /\ fn \in {"Read_s", "http_Fgets_s", "http_Fgets"}
  BY <1>1 DEF LineHelpers
<1>3. CASE uneven'
  BY <1>1, <1>2, <1>3 DEF GivesInv
<1>4. CASE ~uneven'
  <2>1. /\ Store(taken', Stream[taken'] = "N")
        /\ uneven' = uneven
    BY <1>4 DEF GetChar
  <2>2. ~uneven /\ IsPrefixOfStream(given) /\ rio.nread <= 0 /\ Has(ptr)
    BY <1>1, <1>2, <1>4, <2>1 DEF GivesInv
  <2>3. Len(given) \in Nat /\ Len(given) + ptr = taken /\ ptr \in Nat /\ len \in Nat
    BY <2>2, Facts, LenProperties DEF Has
  <2>4. taken' \in Bytes /\ fails' \in 0..MaxFail /\ uneven' \in BOOLEAN
    <3>1. fails' \in 0..MaxFail
      BY <1>1, Numbers
    <3>2. taken + 1 \in Bytes
      BY <1>1, Numbers DEF Bytes
    <3>3. uneven' \in BOOLEAN
      BY <2>1 DEF CallInv, TypeOK
    <3>4. QED
      BY <1>1, <3>1, <3>2, <3>3
  <2>5. /\ ptr \in Offsets /\ mem' = [mem EXCEPT ![ptr] = taken']
        /\ ptr' = ptr + 1 /\ ptr' \in Nat /\ ptr' <= len
        /\ CallInv'
    BY <1>1, <2>1, <2>4, StoreCallInv
  <2>6. mem' \in [Offsets -> Bytes]
    BY <2>5, Facts DEF CallInv, TypeOK, Bytes
  <2>7. ASSUME NEW i \in 0..(ptr' - 1) PROVE mem'[i] = Len(given) + 1 + i
    <3>1. i \in Offsets
      BY <2>5, Numbers DEF Offsets
    <3>2. CASE i = ptr
      BY <1>1, <2>3, <2>5, <3>1, <3>2, Facts
    <3>3. CASE i # ptr
      <4>1. i \in 0..(ptr - 1) /\ mem'[i] = mem[i]
        BY <2>3, <2>5, <3>1, <3>3, Facts
      <4>2. QED
        BY <2>2, <4>1 DEF Has
    <3>4. QED
      BY <3>2, <3>3
  <2>8. Len(given) + ptr' = taken'
    BY <1>1, <2>3, <2>5
  <2>9. CASE Return(mem', ptr')
    <3>1. pc' = "idle" /\ IsPrefixOfStream(given') /\ Len(given') = Len(given) + ptr'
      BY <2>2, <2>5, <2>6, <2>7, <2>9, ReturnsNext
    <3>2. QED
      BY <1>1, <1>2, <2>2, <2>8, <3>1 DEF GivesInv
  <2>10. CASE Continue
    <3>1. pc' = "loop" /\ given' = given
      BY <2>10 DEF Continue
    <3>2. Has(ptr)'
      BY <2>7, <2>8, <3>1 DEF Has
    <3>3. QED
      BY <1>1, <1>2, <2>2, <3>1, <3>2 DEF GivesInv
  <2>11. QED
    BY <2>1, <2>9, <2>10 DEF Store
<1>5. QED
  BY <1>3, <1>4

LEMMA GetEofGivesInv == CallInv /\ GivesInv /\ GetEof => GivesInv'
<1> SUFFICES ASSUME CallInv, GivesInv, GetEof PROVE GivesInv'
  OBVIOUS
<1>1. /\ fn \in LineHelpers /\ pc = "loop" /\ Return(mem, ptr)
      /\ UNCHANGED <<fn, rio, taken>> /\ uneven' = uneven
  BY DEF GetEof
<1>2. ptr \in Nat /\ ptr <= len
  BY Facts
<1>3. ~uneven => Has(ptr)
  BY <1>1 DEF GivesInv, LineHelpers
<1>4. QED
  BY <1>1, <1>2, <1>3, ReturnGivesInv DEF LineHelpers

LEMMA GetFailsGivesInv == CallInv /\ GivesInv /\ GetFails => GivesInv'
<1> SUFFICES ASSUME CallInv, GivesInv, GetFails PROVE GivesInv'
  OBVIOUS
<1>1. /\ fn \in LineHelpers /\ pc = "loop" /\ UNCHANGED <<fn, rio, taken>>
  BY DEF GetFails
<1>2. CASE fn = "http_Fgets"
  <2>1. Return(mem, ptr) /\ uneven' = uneven
    BY <1>2 DEF GetFails
  <2>2. ptr \in Nat /\ ptr <= len
    BY Facts
  <2>3. ~uneven => Has(ptr)
    BY <1>1, <1>2 DEF GivesInv
  <2>4. QED
    BY <1>1, <1>2, <2>1, <2>2, <2>3, ReturnGivesInv
<1>3. CASE fn # "http_Fgets"
  <2>1. uneven' = TRUE
    BY <1>3 DEF GetFails
  <2>2. QED
    BY <1>1, <2>1 DEF GivesInv, LineHelpers
<1>4. QED
  BY <1>2, <1>3

LEMMA StepGivesInv == CallInv /\ GivesInv /\ [Next]_vars => GivesInv'
<1>1. GivesInv /\ UNCHANGED vars => GivesInv'
  BY DEF vars, call, GivesInv, Has, IsPrefixOfStream
<1>2. QED
  BY <1>1, CallGivesInv, RioReadGivesInv, RioReadFailsGivesInv, ReadSomeGivesInv,
     ReadEndGivesInv, ReadFailsGivesInv, GetCharGivesInv, GetEofGivesInv, GetFailsGivesInv
     DEF Next, Serve

\* Up to the case its helper does not handle, the caller gets the stream from its
\* start without a gap or a repetition, and between calls nothing taken from the
\* descriptor is lost: for every stream, every cut of it into pieces and every
\* sequence of failed reads.  Read_s promises it always.
THEOREM StreamGiven == Spec => []GivesTheStream
<1>1. CallInv /\ GivesInv => GivesTheStream
  <2> SUFFICES ASSUME CallInv, GivesInv PROVE GivesTheStream
    OBVIOUS
  <2>1. ASSUME ~uneven, pc = "idle" PROVE Len(given) = taken - Held
    <3>1. Len(given) = taken /\ rio.nread <= 0
      BY <2>1 DEF GivesInv
    <3>2. Held = 0
      BY <3>1, Facts DEF Held
    <3>3. QED
      BY <3>1, <3>2, Numbers
  <2>2. QED
    BY <2>1 DEF GivesTheStream, GivesInv
<1>2. Init => CallInv /\ GivesInv
  BY InitCallInv, InitGivesInv
<1>3. CallInv /\ GivesInv /\ [Next]_vars => (CallInv /\ GivesInv)'
  BY StepCallInv, StepGivesInv
<1>4. QED
  BY <1>1, <1>2, <1>3, PTL DEF Spec

-----------------------------------------------------------------------------
(* One line per call.                                                      *)

\* Why a call may end behind the character c without a line feed there.
EndedBy(c) ==
  \/ IsLineFeed(c) \/ nleft = 0 \/ taken = Len(Stream)
  \/ fn = "http_Fgets_s" /\ c = 0
  \/ fn = "http_Fgets" /\ (fails > 0 \/ Stream[taken] = "F")

\* The characters a running call has stored are no line feeds, and those of the
\* last call, which are still in the buffer, none but the last of them.
LineInv ==
  fn \in LineHelpers =>
    /\ pc = "loop" => \A i \in 1..ptr : ~IsLineFeed(mem[i - 1])
    /\ pc = "idle" =>
         /\ ptr <= Len(given)
         /\ \A i \in 1..ptr : given[Len(given) - ptr + i] = mem[i - 1]
         /\ \A i \in 1..(ptr - 1) : ~IsLineFeed(mem[i - 1])
         /\ ptr > 0 => EndedBy(mem[ptr - 1])

LEMMA InitLineInv == Init => LineInv
  BY EmptySeq, LenProperties DEF Init, LineInv

LEMMA CallLineInv == CallInv /\ LineInv /\ Call => LineInv'
  BY DEF Call, LineInv

\* What the caller gets from a line helper is what the call has stored.
LEMMA LineGiven ==
  ASSUME CallInv, mem' \in [Offsets -> Bytes], ptr' \in Nat, ptr' <= len,
         Return(mem', ptr')
  PROVE  /\ pc' = "idle"
         /\ ptr' <= Len(given')
         /\ \A i \in 1..ptr' : given'[Len(given') - ptr' + i] = mem'[i - 1]
<1>1. len \in 1..MaxLen /\ given \in Seq(Bytes) /\ len \in Nat
  BY Facts
<1>2. /\ pc' = "idle"
      /\ Len(given) \in Nat
      /\ Len(given') = Len(given) + Least(ptr', len)
      /\ \A i \in 1..Least(ptr', len) : given'[Len(given) + i] = mem'[i - 1]
  BY <1>1, Returned
<1>3. Least(ptr', len) = ptr'
  BY DEF Least
<1>4. Len(given') = Len(given) + ptr'
  BY <1>2, <1>3
<1>5. ptr' <= Len(given') /\ Len(given') - ptr' = Len(given)
  BY <1>2, <1>4
<1>6. QED
  BY <1>2, <1>3, <1>5

\* A call of a line helper that ends without another character.
LEMMA ReturnLineInv ==
  ASSUME CallInv, LineInv, fn \in LineHelpers, pc = "loop",
         Return(mem, ptr), UNCHANGED <<fn, ptr, mem>>,
         \/ taken' = Len(Stream)
         \/ fn = "http_Fgets" /\ (fails' > 0 \/ Stream[taken'] = "F")
  PROVE  LineInv'
<1>1. mem' \in [Offsets -> Bytes] /\ ptr' \in Nat /\ ptr' <= len /\ Return(mem', ptr')
  BY Facts
<1>2. /\ pc' = "idle"
      /\ ptr' <= Len(given')
      /\ \A i \in 1..ptr' : given'[Len(given') - ptr' + i] = mem'[i - 1]
  BY <1>1, LineGiven
<1>3. \A i \in 1..ptr : ~IsLineFeed(mem[i - 1])
  BY DEF LineInv
<1>4. \A i \in 1..(ptr - 1) : ~IsLineFeed(mem[i - 1])
  BY <1>3, Facts
<1>5. EndedBy(mem[ptr - 1])'
  BY DEF EndedBy
<1>6. QED
  BY <1>2, <1>4, <1>5 DEF LineInv

\* A call of a line helper that stores the character c.
LEMMA StoreLineInv ==
  ASSUME CallInv, LineInv, fn \in LineHelpers, pc = "loop",
         NEW c \in Bytes, NEW lf \in BOOLEAN, Store(c, lf),
         UNCHANGED <<fn, len, rio>>,
         taken' \in Bytes, fails' \in 0..MaxFail, uneven' \in BOOLEAN,
         lf => IsLineFeed(c) \/ (fn = "http_Fgets_s" /\ c = 0),
         IsLineFeed(c) => lf
  PROVE  LineInv'
<1>1. /\ CallInv'
      /\ ptr \in Offsets /\ mem' = [mem EXCEPT ![ptr] = c]
      /\ ptr' = ptr + 1 /\ ptr' \in Nat /\ ptr' <= len
  BY StoreCallInv
<1>2. mem \in [Offsets -> Bytes] /\ mem' \in [Offsets -> Bytes]
  BY <1>1, Facts
<1>3. ptr \in Int /\ 0 <= ptr /\ ptr \in 0..(MaxLen - 1)
  BY <1>1, Numbers DEF Offsets
<1>4. mem'[ptr' - 1] = c
  <2>1. ptr' - 1 = ptr
    BY <1>1, <1>3
  <2>2. QED
    BY <1>1, <1>2, <2>1
<1>5. ASSUME NEW i \in 1..(ptr' - 1) PROVE ~IsLineFeed(mem'[i - 1])
  <2>1. i \in 1..ptr /\ i - 1 # ptr
    BY <1>1, <1>3
  <2>2. i - 1 \in Offsets
    BY <1>3, <2>1, Numbers DEF Offsets
  <2>3. mem'[i - 1] = mem[i - 1]
    BY <1>1, <1>2, <2>1, <2>2
  <2>4. ~IsLineFeed(mem[i - 1])
    BY <2>1 DEF LineInv
  <2>5. QED
    BY <2>3, <2>4
<1>6. CASE EndsLine(lf) /\ Return(mem', ptr')
  <2>1. /\ pc' = "idle"
        /\ ptr' <= Len(given')
        /\ \A i \in 1..ptr' : given'[Len(given') - ptr' + i] = mem'[i - 1]
    BY <1>1, <1>2, <1>6, LineGiven
  <2>2. lf \/ nleft' = 0
    BY <1>6 DEF EndsLine
  <2>3. EndedBy(mem[ptr - 1])'
    BY <1>4, <2>2 DEF EndedBy
  <2>4. QED
    BY <1>5, <2>1, <2>3 DEF LineInv
<1>7. CASE ~EndsLine(lf) /\ Continue
  <2>1. pc' = "loop" /\ ~lf
    BY <1>7 DEF EndsLine, Continue
  <2>2. ASSUME NEW i \in 1..ptr' PROVE ~IsLineFeed(mem'[i - 1])
    <3>1. CASE i \in 1..(ptr' - 1)
      BY <1>5, <3>1
    <3>2. CASE i = ptr'
      BY <1>4, <2>1, <3>2
    <3>3. QED
      BY <1>1, <1>3, <3>1, <3>2
  <2>3. QED
    BY <2>1, <2>2 DEF LineInv
<1>8. QED
  BY <1>6, <1>7 DEF Store

LEMMA GetCharLineInv == CallInv /\ LineInv /\ GetChar => LineInv'
<1> SUFFICES ASSUME CallInv, LineInv, GetChar PROVE LineInv'
  OBVIOUS
<1>1. /\ fn \in LineHelpers /\ pc = "loop" /\ taken # Len(Stream) /\ taken' = taken + 1
      /\ UNCHANGED <<fn, len, rio, fails>>
  BY DEF GetChar, AtEof
<1>2. CASE /\ fn = "http_Fgets" /\ Stream[taken'] = "F"
           /\ Return(mem, ptr) /\ UNCHANGED <<nleft, ptr, mem>>
  BY <1>1, <1>2, ReturnLineInv
<1>3. CASE Store(taken', Stream[taken'] = "N") /\ UNCHANGED uneven
  <2>1. taken' \in Bytes /\ taken' # 0
    BY <1>1, Numbers DEF Bytes
  <2>2. fails' \in 0..MaxFail
    BY <1>1, Numbers
  <2>3. uneven' \in BOOLEAN
    BY <1>3 DEF CallInv, TypeOK
  <2>4. IsLineFeed(taken') <=> Stream[taken'] = "N"
    BY <2>1 DEF IsLineFeed
  <2>5. (Stream[taken'] = "N") \in BOOLEAN
    OBVIOUS
  <2>6. QED
    BY <1>1, <1>3, <2>1, <2>2, <2>3, <2>4, <2>5, StoreLineInv
<1>4. QED
  BY <1>2, <1>3 DEF GetChar

LEMMA GetEofLineInv == CallInv /\ LineInv /\ GetEof => LineInv'
<1> SUFFICES ASSUME CallInv, LineInv, GetEof PROVE LineInv'
  OBVIOUS
<1>1. /\ fn \in LineHelpers /\ pc = "loop" /\ Return(mem, ptr)
      /\ UNCHANGED <<fn, ptr, mem>> /\ taken' = Len(Stream)
  BY DEF GetEof, AtEof
<1>2. QED
  BY <1>1, ReturnLineInv

\* Where http_Fgets_s stores its last character again, that is no line feed.
LEMMA GetFailsLineInv == CallInv /\ LineInv /\ GetFails => LineInv'
<1> SUFFICES ASSUME CallInv, LineInv, GetFails PROVE LineInv'
  OBVIOUS
<1>1. /\ fn \in LineHelpers /\ pc = "loop" /\ UNCHANGED <<fn, len, rio, taken>>
      /\ fails < MaxFail /\ fails' = fails + 1
  BY DEF GetFails, Fail
<1>2. taken' \in Bytes /\ fails' \in 0..MaxFail /\ fails' > 0
  BY <1>1, Numbers DEF Bytes
<1>3. CASE fn = "http_Fgets"
  <2>1. Return(mem, ptr) /\ UNCHANGED <<ptr, mem>>
    BY <1>3 DEF GetFails
  <2>2. QED
    BY <1>1, <1>2, <1>3, <2>1, ReturnLineInv
<1>4. CASE fn # "http_Fgets"
  <2>1. /\ \/ ptr > 0 /\ Store(mem[ptr - 1], FALSE)
           \/ ptr = 0 /\ \E lf \in BOOLEAN : Store(0, lf)
        /\ uneven' \in BOOLEAN /\ fn = "http_Fgets_s"
    BY <1>1, <1>4 DEF GetFails, LineHelpers
  <2>2. CASE ptr > 0 /\ Store(mem[ptr - 1], FALSE)
    <3>1. ptr - 1 \in Offsets /\ ptr \in 1..ptr
      BY <2>2, Facts, SMTT(30) DEF Offsets
    <3>2. mem[ptr - 1] \in Bytes
      BY <3>1, Facts
    <3>3. ~IsLineFeed(mem[ptr - 1])
      BY <1>1, <3>1 DEF LineInv
    <3>4. QED
      BY <1>1, <1>2, <2>1, <2>2, <3>2, <3>3, StoreLineInv
  <2>3. CASE \E lf \in BOOLEAN : Store(0, lf)
    <3>1. PICK lf \in BOOLEAN : Store(0, lf)
      BY <2>3
    <3>2. 0 \in Bytes /\ ~IsLineFeed(0)
      BY Facts DEF Bytes, IsLineFeed
    <3>3. QED
      BY <1>1, <1>2, <2>1, <3>1, <3>2, StoreLineInv
  <2>4. QED
    BY <2>1, <2>2, <2>3
<1>5. QED
  BY <1>3, <1>4

LEMMA StepLineInv == CallInv /\ LineInv /\ [Next]_vars => LineInv'
<1>1. LineInv /\ UNCHANGED vars => LineInv'
  BY DEF vars, call, LineInv, EndedBy
<1>2. ASSUME fn \notin LineHelpers, fn' = fn PROVE LineInv'
  BY <1>2 DEF LineInv
<1>3. RioRead \/ RioReadFails \/ ReadSome \/ ReadEnd \/ ReadFails
        => fn \notin LineHelpers /\ fn' = fn
  BY DEF RioRead, RioReadFails, ReadSome, ReadEnd, ReadFails, LineHelpers
<1>4. QED
  BY <1>1, <1>2, <1>3, CallLineInv, GetCharLineInv, GetEofLineInv, GetFailsLineInv
     DEF Next, Serve

\* A call of a line helper gives one line, for every stream, every length of
\* the buffer and every sequence of failed reads: no line feed before its last
\* character, and none missing there but for a full buffer, the end of the stream
\* and what EndsWithout says of each helper.
THEOREM OneLine == Spec => []OneLinePerCall
<1>1. CallInv /\ LineInv => OneLinePerCall
  <2> SUFFICES ASSUME CallInv, LineInv, fn \in LineHelpers, pc = "idle", ptr > 0
               PROVE  /\ \A i \in 1..(ptr - 1) : ~IsLineFeed(LastCall[i])
                      /\ IsLineFeed(LastCall[ptr]) \/ EndsWithout
    BY DEF OneLinePerCall
  <2>1. /\ ptr <= Len(given)
        /\ \A i \in 1..ptr : given[Len(given) - ptr + i] = mem[i - 1]
        /\ \A i \in 1..(ptr - 1) : ~IsLineFeed(mem[i - 1])
        /\ EndedBy(mem[ptr - 1])
    BY DEF LineInv
  <2>2. given \in Seq(Bytes) /\ ptr \in Nat /\ Len(given) \in Nat
    BY Facts, LenProperties
  <2>3. ASSUME NEW i \in 1..ptr PROVE LastCall[i] = mem[i - 1]
    <3> DEFINE a == Len(given) - ptr + 1
    <3>1. a \in 1..(Len(given) + 1) /\ Len(given) \in a - 1 .. Len(given)
          /\ i \in 1..(Len(given) - a + 1)
          /\ a + i - 1 = Len(given) - ptr + i
      BY <2>1, <2>2
    <3> HIDE DEF a
    <3>2. SubSeq(given, a, Len(given))[i] = given[a + i - 1]
      BY <2>2, <3>1, SubSeqProperties
    <3>3. given[a + i - 1] = mem[i - 1]
      BY <2>1, <3>1
    <3>4. QED
      BY <3>2, <3>3 DEF LastCall, a
  <2>4. ASSUME NEW i \in 1..(ptr - 1) PROVE ~IsLineFeed(LastCall[i])
    <3>1. i \in 1..ptr
      BY <2>2
    <3>2. QED
      BY <2>1, <2>3, <3>1
  <2>5. LastCall[ptr] = mem[ptr - 1]
    <3>1. ptr \in 1..ptr
      BY <2>2
    <3>2. QED
      BY <2>3, <3>1
  <2>6. IsLineFeed(LastCall[ptr]) \/ EndsWithout
    BY <2>1, <2>5 DEF EndedBy, EndsWithout, AtEof
  <2>7. QED
    BY <2>4, <2>6
<1>2. Init => CallInv /\ LineInv
  BY InitCallInv, InitLineInv
<1>3. CallInv /\ LineInv /\ [Next]_vars => (CallInv /\ LineInv)'
  BY StepCallInv, StepLineInv
<1>4. QED
  BY <1>1, <1>2, <1>3, PTL DEF Spec

=============================================================================
