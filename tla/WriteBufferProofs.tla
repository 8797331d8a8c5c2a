------------------------- MODULE WriteBufferProofs -------------------------
(***************************************************************************)
(* Facts about the write buffer and its arithmetic, for every size.        *)
(***************************************************************************)
EXTENDS WriteBuffer, TLAPS

LEMMA SizePositive == Size \in Nat \ {0} /\ Blk \in Nat \ {0}
BY BytesAssumption, WriteBufferAssumption, SMT DEF Size

LEMMA ModIndex == ASSUME NEW n \in Int PROVE n % Size \in Index
BY SizePositive, SMT DEF Index

LEMMA ModNat == ASSUME NEW n \in Int PROVE n % Size \in Nat
BY SizePositive, SMT

(* Head and tail as integers. *)
LEMMA IndexInt ==
  ASSUME NEW wb \in WriteBufferType
  PROVE  /\ wb.head \in Index /\ wb.tail \in Index
         /\ wb.head \in Nat /\ wb.tail \in Nat
BY SizePositive, SMT DEF WriteBufferType, Index

LEMMA RoundDownBounds ==
  ASSUME NEW o \in Nat
  PROVE  /\ RoundDown(o) \in Nat
         /\ RoundDown(o) <= o
         /\ o - RoundDown(o) < Blk
<1>. DEFINE q == o \div Blk
            r == o % Blk
<1>1. Blk \in Nat \ {0} BY BytesAssumption
<1>2. q \in Nat /\ r \in 0 .. Blk - 1 /\ o = Blk * q + r BY <1>1, SMT
<1>3. q * Blk = Blk * q /\ Blk * q \in Nat BY <1>1, <1>2, SMT
<1>. HIDE DEF q, r
<1>4. o - q * Blk = r /\ q * Blk \in Nat BY <1>1, <1>2, <1>3, SMT
<1>. QED BY <1>1, <1>2, <1>4, SMT DEF RoundDown, q

LEMMA RoundUpBounds ==
  ASSUME NEW n \in Nat
  PROVE  roundUp(n) \in Nat /\ n <= roundUp(n)
BY BytesAssumption, SMT DEF roundUp

LEMMA OpenType == write_buffer_open \in WriteBufferType
BY SizePositive, BytesAssumption, SMT
DEF write_buffer_open, WriteBufferType, Index, Byte

(* Adding keeps the type as long as the log has room for the bytes. *)
LEMMA AddType ==
  ASSUME NEW wb \in WriteBufferType, NEW first \in Nat, NEW len \in Nat,
         first + len <= MaxLog + 1
  PROVE  write_buffer_add(wb, first, len) \in WriteBufferType
<1>. DEFINE b == [i \in Index |->
                    LET k == (i - wb.head) % Size
                    IN  IF k < len THEN first + k ELSE wb.buffer[i]]
<1>1. ASSUME NEW i \in Index PROVE b[i] \in Byte
  <2>. DEFINE k == (i - wb.head) % Size
  <2>0. i - wb.head \in Int BY SizePositive, IndexInt, SMT DEF Index
  <2>1. k \in Nat BY <2>0, ModNat
  <2>2. wb.buffer[i] \in Byte BY DEF WriteBufferType
  <2>. HIDE DEF k
  <2>3. (IF k < len THEN first + k ELSE wb.buffer[i]) \in Byte
    BY <2>1, <2>2, BytesAssumption, SMT DEF Byte
  <2>. QED BY <2>3 DEF k
<1>2. b \in [Index -> Byte] BY <1>1
<1>3. (wb.head + len) % Size \in Index
  <2>1. wb.head + len \in Int BY IndexInt, SMT
  <2>. QED BY <2>1, ModIndex
<1>. HIDE DEF b
<1>4. [wb EXCEPT !.buffer = b, !.head = (wb.head + len) % Size]
        \in WriteBufferType
  BY <1>2, <1>3 DEF WriteBufferType
<1>. QED BY <1>4 DEF write_buffer_add, b

LEMMA AvailableNat ==
  ASSUME NEW head \in Index, NEW tail \in Index
  PROVE  Available(head, tail) \in Nat
<1>1. CASE tail <= head
  BY <1>1, WriteBufferAssumption, SizePositive, SMT DEF Available, Index
<1>2. CASE ~(tail <= head)
  BY <1>2, SizePositive, SMT DEF Available, Index
<1>. QED BY <1>1, <1>2

LEMMA FlushLenNat ==
  ASSUME NEW wb \in WriteBufferType, NEW dont \in BOOLEAN
  PROVE  FlushLen(wb, dont) \in Nat
<1>1. wb.head \in Index /\ wb.tail \in Index BY DEF WriteBufferType
<1>2. Available(wb.head, wb.tail) \in Nat BY <1>1, AvailableNat
<1>3. FlushHead(wb, dont) \in Index
  <2>. DEFINE h == (wb.head - (Available(wb.head, wb.tail) - Blk)) % Word
  <2>1. h \in Int
    BY <1>1, <1>2, SizePositive, WriteBufferAssumption, SMT DEF Index
  <2>. HIDE DEF h
  <2>2. h % Size \in Index BY <2>1, ModIndex
  <2>. QED BY <1>1, <2>2 DEF FlushHead, h
<1>. QED BY <1>1, <1>3, AvailableNat DEF FlushLen

LEMMA AfterFlushType ==
  ASSUME NEW wb \in WriteBufferType, NEW dont \in BOOLEAN
  PROVE  AfterFlush(wb, dont) \in WriteBufferType
<1>. DEFINE n == FlushLen(wb, dont)
<1>1. n \in Nat BY FlushLenNat
<1>. HIDE DEF n
<1>2. (wb.tail + n) % Size \in Index
  <2>1. wb.tail + n \in Int BY <1>1, IndexInt, SMT
  <2>. QED BY <2>1, ModIndex
<1>3. /\ [wb EXCEPT !.last_avail = n] \in WriteBufferType
      /\ [wb EXCEPT !.last_avail = 0, !.tail = (wb.tail + n) % Size]
           \in WriteBufferType
  BY <1>1, <1>2 DEF WriteBufferType
<1>. QED BY <1>3 DEF AfterFlush, n

LEMMA FlushImageType ==
  ASSUME NEW wb \in WriteBufferType, NEW dont \in BOOLEAN
  PROVE  FlushImage(wb, dont) \in Seq(Byte)
<1>. DEFINE n == FlushLen(wb, dont)
            byte(k) == IF k <= n THEN wb.buffer[(wb.tail + k) % Size] ELSE 0
<1>1. n \in Nat BY FlushLenNat
<1>2. roundUp(n) \in Nat BY <1>1, RoundUpBounds
<1>3. ASSUME NEW k \in 1 .. roundUp(n) PROVE byte(k) \in Byte
  <2>0. wb.tail + k \in Int BY <1>2, IndexInt, SMT
  <2>1. (wb.tail + k) % Size \in Index BY <2>0, ModIndex
  <2>. QED BY <2>1, BytesAssumption, SMT DEF WriteBufferType, Byte
<1>4. [k \in 1 .. roundUp(n) |-> byte(k)] \in Seq(Byte)
  BY <1>2, <1>3
<1>. QED BY <1>4 DEF FlushImage

-----------------------------------------------------------------------------
(* Remainders and multiples. *)

LEMMA ModLess ==
  ASSUME NEW n \in Nat \ {0}, NEW x \in Nat, x < n
  PROVE  x % n = x
BY SMT

LEMMA ModOnce ==
  ASSUME NEW n \in Nat \ {0}, NEW x \in Nat, n <= x, x < 2 * n
  PROVE  x % n = x - n
BY SMT

LEMMA ModMinus ==
  ASSUME NEW n \in Nat \ {0}, NEW x \in Int, x < 0, 0 <= x + n
  PROVE  x % n = x + n
BY SMT

LEMMA Multiple ==
  ASSUME NEW n \in Nat \ {0}, NEW a \in Int
  PROVE  a % n = 0 <=> \E q \in Int : a = n * q
<1>1. ASSUME a % n = 0 PROVE \E q \in Int : a = n * q
  <2>1. a = n * (a \div n) /\ a \div n \in Int BY <1>1, SMT
  <2>. QED BY <2>1
<1>2. ASSUME NEW q \in Int, a = n * q PROVE a % n = 0
  BY <1>2, SMT
<1>. QED BY <1>1, <1>2

LEMMA MultiplesApart ==
  ASSUME NEW n \in Nat \ {0}, NEW a \in Int, NEW b \in Int,
         a % n = 0, b % n = 0, a < b
  PROVE  a + n <= b
<1>1. PICK p \in Int : a = n * p BY Multiple
<1>2. PICK q \in Int : b = n * q BY Multiple
<1>3. p < q BY <1>1, <1>2, SMT
<1>4. n * (p + 1) <= n * q BY <1>3, SMT
<1>5. n * (p + 1) = n * p + n BY SMT
<1>. QED BY <1>1, <1>2, <1>4, <1>5, SMT

LEMMA MultiplePlus ==
  ASSUME NEW n \in Nat \ {0}, NEW a \in Int, a % n = 0
  PROVE  (a + n) % n = 0
<1>1. PICK p \in Int : a = n * p BY Multiple
<1>2. a + n = n * (p + 1) /\ p + 1 \in Int /\ a + n \in Int BY <1>1, SMT
<1>. QED BY <1>2, Multiple

(* Positions in the circular buffer. *)
LEMMA Wrap ==
  ASSUME NEW x \in Nat, x < 2 * Size
  PROVE  x % Size = IF x < Size THEN x ELSE x - Size
<1>1. CASE x < Size BY <1>1, SizePositive, ModLess
<1>2. CASE ~(x < Size)
  <2>1. Size <= x BY <1>2, SizePositive, SMT
  <2>. QED BY <1>2, <2>1, SizePositive, ModOnce
<1>. QED BY <1>1, <1>2

LEMMA WrapBack ==
  ASSUME NEW x \in Int, -Size <= x, x < Size
  PROVE  x % Size = IF x < 0 THEN x + Size ELSE x
<1>1. CASE x < 0
  <2>1. 0 <= x + Size BY SizePositive, SMT
  <2>. QED BY <1>1, <2>1, SizePositive, ModMinus
<1>2. CASE ~(x < 0)
  <2>1. x \in Nat BY <1>2, SMT
  <2>. QED BY <1>2, <2>1, SizePositive, ModLess
<1>. QED BY <1>1, <1>2

(* amount_buffered: the head is that many bytes behind the tail. *)
LEMMA BufferedIs ==
  ASSUME NEW wb \in WriteBufferType
  PROVE  /\ Buffered(wb) \in Nat /\ Buffered(wb) < Size
         /\ wb.head = IF wb.tail + 1 + Buffered(wb) < Size
                      THEN wb.tail + 1 + Buffered(wb)
                      ELSE wb.tail + 1 + Buffered(wb) - Size
BY SizePositive, IndexInt, SMT DEF Buffered, Index

(* Adding appends the bytes to those that are buffered. *)
LEMMA AddIs ==
  ASSUME NEW wb \in WriteBufferType, NEW first \in Nat, NEW len \in Nat,
         Buffered(wb) + len < Size
  PROVE  LET new == write_buffer_add(wb, first, len)
         IN  /\ Fits(wb, len)
             /\ Buffered(new) = Buffered(wb) + len
             /\ new.tail = wb.tail /\ new.last_avail = wb.last_avail
             /\ \A i \in Nat :
                  LET at == (wb.tail + 1 + i) % Size
                  IN  /\ i < Buffered(wb) => new.buffer[at] = wb.buffer[at]
                      /\ Buffered(wb) <= i /\ i < Buffered(wb) + len =>
                           new.buffer[at] = first + i - Buffered(wb)
<1>. DEFINE new == write_buffer_add(wb, first, len)
            b   == Buffered(wb)
            h   == wb.head
            t   == wb.tail
<1>1. /\ h \in Nat /\ t \in Nat /\ h < Size /\ t < Size /\ b \in Nat
      /\ b < Size
      /\ h = IF t + 1 + b < Size THEN t + 1 + b ELSE t + 1 + b - Size
  BY IndexInt, BufferedIs, SizePositive, SMT DEF Index
<1>2. /\ new.head = (h + len) % Size /\ new.tail = t
      /\ new.last_avail = wb.last_avail
      /\ new.buffer = [i \in Index |->
                         LET k == (i - h) % Size
                         IN  IF k < len THEN first + k ELSE wb.buffer[i]]
  BY DEF write_buffer_add, WriteBufferType
<1>3. Fits(wb, len)
  BY <1>1, SizePositive, SMT DEF Fits, Room
<1>. HIDE DEF new, b
<1>4. new.head = IF h + len < Size THEN h + len ELSE h + len - Size
  <2>1. h + len \in Nat /\ h + len < 2 * Size
    BY <1>1, SizePositive, SMT DEF b
  <2>2. (h + len) % Size =
          IF h + len < Size THEN h + len ELSE h + len - Size
    BY <1>1, <2>1, SizePositive, Wrap
  <2>. QED BY <1>2, <2>2
<1>5. Buffered(new) = b + len
  BY <1>1, <1>2, <1>4, SizePositive, SMT DEF Buffered, b
<1>6. ASSUME NEW i \in Nat, i < b + len
      PROVE  LET at == (t + 1 + i) % Size
             IN  /\ i < b => new.buffer[at] = wb.buffer[at]
                 /\ b <= i => new.buffer[at] = first + i - b
  <2>. DEFINE at == (t + 1 + i) % Size
              k  == (at - h) % Size
  <2>1. at = IF t + 1 + i < Size THEN t + 1 + i ELSE t + 1 + i - Size
    BY <1>1, <1>6, Wrap, SizePositive, SMT DEF b
  <2>2. at \in Index BY <1>1, ModIndex
  <2>. HIDE DEF at
  <2>3. k = IF at - h < 0 THEN at - h + Size ELSE at - h
    <3>1. at - h \in Int /\ -Size <= at - h /\ at - h < Size
      BY <1>1, <2>2, SizePositive, SMT DEF Index
    <3>. QED BY <3>1, WrapBack
  <2>4. new.buffer[at] = IF k < len THEN first + k ELSE wb.buffer[at]
    BY <1>2, <2>2
  <2>. HIDE DEF k
  <2>5. /\ i < b => ~(k < len)
        /\ b <= i => k < len /\ k = i - b
    BY <1>1, <1>6, <2>1, <2>3, SizePositive, SMT DEF b
  <2>6. i < b => new.buffer[at] = wb.buffer[at]
    BY <2>4, <2>5
  <2>7. b <= i => new.buffer[at] = first + i - b
    BY <1>1, <2>4, <2>5, SMT
  <2>. QED BY <2>6, <2>7 DEF at
<1>7. \A i \in Nat :
        LET at == (t + 1 + i) % Size
        IN  /\ i < b => new.buffer[at] = wb.buffer[at]
            /\ b <= i /\ i < b + len => new.buffer[at] = first + i - b
  <2>. TAKE i \in Nat
  <2>1. i < b => i < b + len BY <1>1, SMT
  <2>. QED BY <1>6, <2>1
<1>. QED BY <1>2, <1>3, <1>5, <1>7 DEF new, b

LEMMA NextBlock ==
  ASSUME NEW n \in Nat, 0 < n, n <= Blk
  PROVE  roundUp(n) = Blk
<1>1. CASE n = Blk
  <2>1. (-n) % Blk = 0 BY <1>1, SizePositive, SMT
  <2>. QED BY <1>1, <2>1, SizePositive, SMT DEF roundUp
<1>2. CASE n < Blk
  <2>1. -n \in Int /\ -n < 0 /\ 0 <= -n + Blk BY SMT, SizePositive
  <2>2. (-n) % Blk = -n + Blk BY <2>1, SizePositive, ModMinus
  <2>. QED BY <2>2, SizePositive, SMT DEF roundUp
<1>. QED BY <1>1, <1>2, SizePositive, SMT

LEMMA AvailableIs ==
  ASSUME NEW head \in Index, NEW tail \in Index, NEW b \in Nat,
         b < Size - 1,
         head = IF tail + 1 + b < Size THEN tail + 1 + b
                                       ELSE tail + 1 + b - Size
  PROVE  Available(head, tail) = b
<1>1. CASE tail <= head
  <2>1. head - tail - 1 = b BY <1>1, SizePositive, SMT DEF Index
  <2>2. b < Word BY WriteBufferAssumption, SizePositive, SMT
  <2>3. b % Word = b BY <2>2, WriteBufferAssumption, ModLess
  <2>. QED BY <1>1, <2>1, <2>3 DEF Available
<1>2. CASE ~(tail <= head)
  BY <1>2, SizePositive, SMT DEF Available, Index
<1>. QED BY <1>1, <1>2

(* What a flush takes: all that is buffered, or one block of it. *)
LEMMA FlushLenIs ==
  ASSUME NEW wb \in WriteBufferType, NEW dont \in BOOLEAN,
         Size > 2, 2 * Blk <= Size, Buffered(wb) < 2 * Blk,
         dont => Buffered(wb) <= Blk
  PROVE  FlushLen(wb, dont) = IF Buffered(wb) <= Blk THEN Buffered(wb) ELSE Blk
<1>. DEFINE b == Buffered(wb)
            h == wb.head
            t == wb.tail
<1>1. /\ h \in Nat /\ t \in Nat /\ h < Size /\ t < Size /\ b \in Nat
      /\ h = IF t + 1 + b < Size THEN t + 1 + b ELSE t + 1 + b - Size
      /\ h \in Index /\ t \in Index
  BY IndexInt, BufferedIs, SizePositive, SMT DEF Index
<1>. HIDE DEF b
<1>2. Blk < Size - 1 BY SizePositive, SMT
<1>3. CASE b <= Blk
  <2>1. b < Size - 1 BY <1>1, <1>2, <1>3, SizePositive, SMT
  <2>2. Available(h, t) = b BY <1>1, <2>1, AvailableIs
  <2>3. ~(b > Blk) BY <1>1, <1>3, SizePositive, SMT
  <2>4. FlushHead(wb, dont) = h BY <2>2, <2>3 DEF FlushHead
  <2>. QED BY <1>3, <2>2, <2>4 DEF FlushLen, b
<1>4. CASE ~(b <= Blk)
  <2>0. ~dont BY <1>4 DEF b
  <2>. DEFINE a   == Available(h, t)
              new == IF t + 1 + Blk < Size THEN t + 1 + Blk
                                           ELSE t + 1 + Blk - Size
  <2>1. a > Blk /\ a \in Nat /\ ((h - (a - Blk)) % Word) % Size = new
    <3>1. CASE b < Size - 1
      <4>1. a = b BY <1>1, <3>1, AvailableIs
      <4>. HIDE DEF a
      <4>2. a > Blk BY <1>1, <1>4, <4>1, SizePositive, SMT
      <4>. DEFINE x == h - (a - Blk)
      <4>3. /\ x \in Int /\ -Size <= x /\ x < Size
            /\ x = IF x < 0 THEN new - Size ELSE new
        BY <1>1, <1>4, <4>1, SizePositive, SMT DEF b
      <4>4. x >= 0 => (x % Word) % Size = new
        <5>. SUFFICES ASSUME x >= 0 PROVE (x % Word) % Size = new OBVIOUS
        <5>. HIDE DEF x, new
        <5>1. x \in Nat /\ x < Word BY <4>3, WriteBufferAssumption, SizePositive, SMT
        <5>2. x % Word = x BY <5>1, WriteBufferAssumption, ModLess
        <5>3. x % Size = x BY <4>3, <5>1, SizePositive, ModLess
        <5>4. x = new BY <4>3, SMT
        <5>. QED BY <5>2, <5>3, <5>4
      <4>5. x < 0 => (x % Word) % Size = new
        <5>. SUFFICES ASSUME x < 0 PROVE (x % Word) % Size = new OBVIOUS
        <5>0. new \in Nat /\ new < Size BY <1>1, <1>2, SizePositive, SMT
        <5>. HIDE DEF x, new
        <5>1. 0 <= x + Word BY <4>3, WriteBufferAssumption, SizePositive, SMT
        <5>2. Word \in Nat \ {0} BY WriteBufferAssumption, SizePositive, SMT
        <5>3. x % Word = x + Word BY <4>3, <5>1, <5>2, ModMinus
        <5>4. x + Word = Word - Size + new BY <4>3, <5>2, SizePositive, <5>0, SMT
        <5>5. (Word - Size + new) % Size = new
          <6>1. PICK q \in Int : Word = Size * q
            BY <5>2, SizePositive, WriteBufferAssumption, Multiple
          <6>2. Word - Size + new = Size * (q - 1) + new
            BY <5>0, <6>1, SizePositive, SMT
          <6>. QED BY <5>0, <6>2, SizePositive, SMT
        <5>. QED BY <5>3, <5>4, <5>5
      <4>6. a \in Nat BY <1>1, <4>1
      <4>7. x >= 0 \/ x < 0 BY <4>3, SMT
      <4>. QED BY <4>2, <4>4, <4>5, <4>6, <4>7
    <3>2. CASE ~(b < Size - 1)
      <4>1. b = Size - 1 /\ h = t /\ Size = 2 * Blk
        BY <1>1, <3>2, SizePositive, SMT DEF b
      <4>2. a = (-1) % Word
        <5>1. h - t - 1 = -1 /\ t <= h BY <1>1, <4>1, SMT
        <5>. QED BY <5>1 DEF Available
      <4>. HIDE DEF a
      <4>3. Word \in Nat \ {0} BY WriteBufferAssumption, SizePositive, SMT
      <4>4. a = Word - 1
        <5>1. -1 \in Int /\ -1 < 0 /\ 0 <= -1 + Word BY <4>3, SMT
        <5>2. (-1) % Word = -1 + Word BY <4>3, <5>1, ModMinus
        <5>. QED BY <4>2, <4>3, <5>2, SMT
      <4>5. a > Blk /\ a \in Nat BY <4>3, <4>4, SizePositive, WriteBufferAssumption, SMT
      <4>6. h - (a - Blk) = (h + 1 + Blk) - Word
        BY <1>1, <4>3, <4>4, SizePositive, SMT
      <4>7. ((h + 1 + Blk) - Word) % Word = h + 1 + Blk
        <5>1. /\ (h + 1 + Blk) - Word \in Int
              /\ (h + 1 + Blk) - Word < 0
              /\ 0 <= (h + 1 + Blk) - Word + Word
          BY <1>1, <1>2, <4>3, SizePositive, WriteBufferAssumption, SMT
        <5>2. ((h + 1 + Blk) - Word) % Word = (h + 1 + Blk) - Word + Word
          BY <4>3, <5>1, ModMinus
        <5>. QED BY <1>1, <4>3, <5>2, SizePositive, SMT
      <4>8. (h + 1 + Blk) % Size = new
        <5>1. h + 1 + Blk \in Nat /\ h + 1 + Blk < 2 * Size
          BY <1>1, <1>2, SizePositive, SMT
        <5>2. (h + 1 + Blk) % Size =
                IF h + 1 + Blk < Size THEN h + 1 + Blk ELSE h + 1 + Blk - Size
          BY <1>1, <5>1, SizePositive, Wrap
        <5>. QED BY <4>1, <5>2
      <4>. QED BY <4>5, <4>6, <4>7, <4>8
    <3>. QED BY <3>1, <3>2
  <2>2. FlushHead(wb, dont) = new
    BY <2>0, <2>1 DEF FlushHead
  <2>3. new \in Index BY <1>1, <1>2, SizePositive, SMT DEF Index
  <2>4. Available(new, t) = Blk
    <3>. HIDE DEF new
    <3>1. new = IF t + 1 + Blk < Size THEN t + 1 + Blk ELSE t + 1 + Blk - Size
      BY DEF new
    <3>. QED BY <1>1, <1>2, <2>3, <3>1, SizePositive, AvailableIs
  <2>. QED BY <1>4, <2>2, <2>4 DEF FlushLen, b
<1>. QED BY <1>3, <1>4

(* A flush that dequeues moves the tail behind what it took. *)
LEMMA DequeueIs ==
  ASSUME NEW wb \in WriteBufferType, NEW n \in Nat, n <= Buffered(wb),
         NEW dont \in BOOLEAN, ~dont, n = FlushLen(wb, dont)
  PROVE  LET new == AfterFlush(wb, dont)
         IN  /\ Buffered(new) = Buffered(wb) - n
             /\ new.buffer = wb.buffer /\ new.last_avail = 0
             /\ \A i \in Nat : i < Buffered(wb) - n =>
                  (new.tail + 1 + i) % Size = (wb.tail + 1 + (n + i)) % Size
<1>. DEFINE new == AfterFlush(wb, dont)
            b == Buffered(wb)
            h == wb.head
            t == wb.tail
<1>1. /\ h \in Nat /\ t \in Nat /\ h < Size /\ t < Size /\ b \in Nat
      /\ b < Size
      /\ h = IF t + 1 + b < Size THEN t + 1 + b ELSE t + 1 + b - Size
  BY IndexInt, BufferedIs, SizePositive, SMT DEF Index
<1>2. /\ new.head = h /\ new.tail = (t + n) % Size
      /\ new.last_avail = 0 /\ new.buffer = wb.buffer
  BY DEF AfterFlush, WriteBufferType
<1>. HIDE DEF new, b
<1>3. new.tail = IF t + n < Size THEN t + n ELSE t + n - Size
  <2>1. t + n \in Nat /\ t + n < 2 * Size BY <1>1, SizePositive, SMT DEF b
  <2>2. (t + n) % Size = IF t + n < Size THEN t + n ELSE t + n - Size
    BY <1>1, <2>1, SizePositive, Wrap
  <2>. QED BY <1>2, <2>2
<1>4. Buffered(new) = b - n
  <2>1. n <= b BY DEF b
  <2>. QED BY <1>1, <1>2, <1>3, <2>1, SizePositive, SMT DEF Buffered
<1>5. ASSUME NEW i \in Nat, i < b - n
      PROVE  (new.tail + 1 + i) % Size = (t + 1 + (n + i)) % Size
  <2>1. new.tail + 1 + i \in Nat /\ new.tail + 1 + i < 2 * Size
    BY <1>1, <1>3, <1>5, SizePositive, SMT DEF b
  <2>2. t + 1 + (n + i) \in Nat /\ t + 1 + (n + i) < 2 * Size
    BY <1>1, <1>5, SizePositive, SMT DEF b
  <2>3. (new.tail + 1 + i) % Size = IF new.tail + 1 + i < Size
          THEN new.tail + 1 + i ELSE new.tail + 1 + i - Size
    BY <1>1, <1>3, <2>1, SizePositive, Wrap
  <2>4. (t + 1 + (n + i)) % Size = IF t + 1 + (n + i) < Size
          THEN t + 1 + (n + i) ELSE t + 1 + (n + i) - Size
    BY <1>1, <2>2, SizePositive, Wrap
  <2>. QED BY <1>1, <1>3, <1>5, <2>3, <2>4, SizePositive, SMT DEF b
<1>. QED BY <1>2, <1>4, <1>5 DEF new, b

(* One that does not dequeue only notes how much it wrote. *)
LEMMA KeepIs ==
  ASSUME NEW wb \in WriteBufferType, NEW dont \in BOOLEAN, dont
  PROVE  LET new == AfterFlush(wb, dont)
         IN  /\ Buffered(new) = Buffered(wb)
             /\ new.buffer = wb.buffer /\ new.tail = wb.tail
             /\ new.last_avail = FlushLen(wb, dont)
<1>1. LET new == AfterFlush(wb, dont)
      IN  /\ new.buffer = wb.buffer /\ new.tail = wb.tail
          /\ new.head = wb.head /\ new.last_avail = FlushLen(wb, dont)
  BY DEF AfterFlush, WriteBufferType
<1>. QED BY <1>1, Zenon DEF Buffered

(* What a flush writes: the bytes behind the tail, in one block. *)
LEMMA ImageIs ==
  ASSUME NEW wb \in WriteBufferType, NEW dont \in BOOLEAN, NEW n \in Nat,
         n = FlushLen(wb, dont), 0 < n, n <= Blk
  PROVE  /\ Len(FlushImage(wb, dont)) = Blk
         /\ \A k \in 1 .. Blk : k <= n =>
              FlushImage(wb, dont)[k] = wb.buffer[(wb.tail + k) % Size]
<1>1. roundUp(n) = Blk BY NextBlock
<1>2. FlushImage(wb, dont) =
        [k \in 1 .. Blk |->
           IF k <= n THEN wb.buffer[(wb.tail + k) % Size] ELSE 0]
  BY <1>1 DEF FlushImage
<1>3. Len(FlushImage(wb, dont)) = Blk
  BY <1>2, SizePositive
<1>4. \A k \in 1 .. Blk : k <= n =>
        FlushImage(wb, dont)[k] = wb.buffer[(wb.tail + k) % Size]
  BY <1>2
<1>. QED BY <1>3, <1>4

(* The block of an offset starts at a multiple of the size of a block. *)
LEMMA RoundDownIs ==
  ASSUME NEW o \in Nat
  PROVE  /\ RoundDown(o) % Blk = 0
         /\ o % Blk = 0 => RoundDown(o) = o
<1>. DEFINE q == o \div Blk
            r == o % Blk
<1>1. Blk \in Nat \ {0} BY BytesAssumption
<1>2. q \in Nat /\ r \in 0 .. Blk - 1 /\ o = Blk * q + r BY <1>1, SMT
<1>. HIDE DEF q, r
<1>3. q * Blk = Blk * q /\ q * Blk \in Int BY <1>1, <1>2, SMT
<1>4. (q * Blk) % Blk = 0 BY <1>1, <1>2, <1>3, Multiple
<1>5. r = 0 => q * Blk = o BY <1>1, <1>2, <1>3, SMT
<1>. QED BY <1>4, <1>5 DEF RoundDown, q, r

LEMMA BlocksApart ==
  ASSUME NEW a \in Nat, NEW b \in Nat, a % Blk = 0, b % Blk = 0, a # b
  PROVE  a + Blk <= b \/ b + Blk <= a
<1>1. a \in Int /\ b \in Int /\ Blk \in Nat \ {0} BY SizePositive, SMT
<1>2. ASSUME NEW x \in Int, NEW y \in Int, x % Blk = 0, y % Blk = 0, x < y
      PROVE  x + Blk <= y
  BY <1>1, <1>2, MultiplesApart
<1>3. a < b \/ b < a BY SMT
<1>. QED BY <1>1, <1>2, <1>3
=============================================================================
