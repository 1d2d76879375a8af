----------------------------- MODULE WireLemmas -----------------------------
(***************************************************************************)
(* What comes back of the numbers, strings and packages of Wire, for every *)
(* number that fits its width and every string that fits its length.       *)
(***************************************************************************)
EXTENDS Wire, LayoutLemmas

\* The sequences of n bytes.
Row(n) == [1 .. n -> Byte]

\* They are sequences of bytes, and their elements numbers.
LEMMA RowIsSeq ==
    ASSUME NEW n \in Nat, NEW s \in Row(n)
    PROVE  s \in Seq(Byte) /\ Len(s) = n /\ \A i \in 1 .. n : s[i] \in Int
<1>1. s \in [1 .. n -> Byte]
  BY DEF Row
<1>2. \A i \in 1 .. n : s[i] \in Byte
  BY <1>1
<1>3. \A x \in Byte : x \in Int
  BY DEF Byte
<1>4. s \in Seq(Byte) /\ Len(s) = n
  BY <1>1
<1> QED
  BY <1>2, <1>3, <1>4

\* The quotients of v by the powers of 256.
Quotients(w, v, f) ==
    /\ f \in [0 .. w -> Int] /\ f[0] = v
    /\ \A i \in 1 .. w : f[i] = f[i - 1] \div 256

\* A number has its quotients.
LEMMA QuotientsExist ==
    ASSUME NEW w \in Nat, NEW v \in Int
    PROVE  \E f : Quotients(w, v, f)
<1> DEFINE step == [x \in Int |-> x \div 256]
<1>1. step \in [Int -> Int]
  OBVIOUS
<1>2. Repeats(Int, step, v, w)
  <2> HIDE DEF step
  <2> QED
    BY <1>1, LoopExists
<1>3. PICK f \in [0 .. w -> Int] : f[0] = v /\ \A i \in 1 .. w : f[i] = step[f[i - 1]]
  BY <1>2 DEF Repeats
<1>4. \A i \in 1 .. w : f[i] = f[i - 1] \div 256
  <2> TAKE i \in 1 .. w
  <2>1. PICK x \in Int : x = f[i - 1]
    <3>1. i - 1 \in 0 .. w
      OBVIOUS
    <3> QED
      BY <1>3, <3>1
  <2>2. f[i] = step[x]
    BY <1>3, <2>1
  <2>3. step[x] = x \div 256
    OBVIOUS
  <2> QED
    BY <2>1, <2>2, <2>3
<1>5. f \in [0 .. w -> Int] /\ f[0] = v
  BY <1>3
<1> QED
  BY <1>4, <1>5, Zenon DEF Quotients

\* g is a solution of the equation that Bytes takes its digits from.
High(w, v, g) == g = [i \in 1 .. w |-> IF i = 1 THEN v ELSE g[i - 1] \div 256]

\* A recursive function with a solution is one.
LEMMA BytesFrom ==
    ASSUME NEW w, NEW v, NEW g, High(w, v, g)
    PROVE  \E h : High(w, v, h) /\ Bytes(w, v) = [i \in 1 .. w |-> h[i] % 256]
<1> DEFINE h == CHOOSE f : High(w, v, f)
<1>1. High(w, v, h)
  OBVIOUS
<1>2. Bytes(w, v) = [i \in 1 .. w |-> h[i] % 256]
  BY DEF Bytes, High
<1> HIDE DEF h
<1> QED
  BY <1>1, <1>2

\* What a solution has at each place.
LEMMA HighAt ==
    ASSUME NEW w, NEW v, NEW h, High(w, v, h), NEW i \in 1 .. w
    PROVE  /\ i = 1 => h[i] = v
           /\ i # 1 => h[i] = h[i - 1] \div 256
<1> DEFINE r == [j \in 1 .. w |-> IF j = 1 THEN v ELSE h[j - 1] \div 256]
<1>1. h = r
  BY Zenon DEF High
<1>2. /\ i = 1 => r[i] = v
      /\ i # 1 => r[i] = h[i - 1] \div 256
  BY Zenon
<1> HIDE DEF r
<1>3. h[i] = r[i]
  BY <1>1, Zenon
<1> QED
  BY <1>2, <1>3

\* The bytes of a number are the remainders of its quotients.
LEMMA BytesAre ==
    ASSUME NEW w \in Nat, NEW v \in Int, NEW f, Quotients(w, v, f)
    PROVE  /\ Bytes(w, v) \in Row(w)
           /\ \A i \in 1 .. w : Bytes(w, v)[i] = f[i - 1] % 256
<1> USE DEF Quotients
<1> DEFINE g == [i \in 1 .. w |-> f[i - 1]]
<1>1. High(w, v, g)
  BY DEF High
<1> HIDE DEF g
<1>2. PICK h : High(w, v, h) /\ Bytes(w, v) = [i \in 1 .. w |-> h[i] % 256]
  BY <1>1, BytesFrom
<1> DEFINE T == {i \in 1 .. w : h[i] # f[i - 1]}
<1>3. T = {}
  <2> SUFFICES ASSUME T # {} PROVE FALSE
    OBVIOUS
  <2>1. T \subseteq Nat
    OBVIOUS
  <2>2. PICK m \in T : \A j \in T : m <= j
    <3> HIDE DEF T
    <3> QED
      BY <2>1, LeastExists
  <2>3. m \in 1 .. w /\ High(w, v, h)
    BY <1>2
  <2>4. (m = 1 => h[m] = v) /\ (m # 1 => h[m] = h[m - 1] \div 256)
    BY ONLY <2>3, HighAt
  <2>5. m # 1
    BY <2>4
  <2>6. m - 1 \in 1 .. w /\ h[m - 1] = f[m - 1 - 1]
    BY <2>2, <2>5
  <2>7. h[m] = h[m - 1] \div 256
    BY <2>4, <2>5
  <2> QED
    BY <2>6, <2>7
<1>4. \A i \in 1 .. w : h[i] = f[i - 1] /\ h[i] % 256 \in Byte
  <2>1. \A i \in 1 .. w : h[i] = f[i - 1]
    BY <1>3
  <2>2. \A i \in 1 .. w : f[i - 1] \in Int
    OBVIOUS
  <2> HIDE DEF Quotients, T
  <2>3. \A x \in Int : x % 256 \in Byte
    BY DEF Byte
  <2> QED
    BY <2>1, <2>2, <2>3
<1> HIDE DEF T
<1> QED
  BY <1>2, <1>4 DEF Row

\* g is a solution of the equation that Unsigned takes its value from.
From(s, g) ==
    g = [i \in 1 .. Len(s) + 1 |-> IF i > Len(s) THEN 0 ELSE s[i] + 256 * g[i + 1]]

\* A recursive function with a solution is one.
LEMMA UnsignedFrom ==
    ASSUME NEW s, NEW g, From(s, g)
    PROVE  \E h : From(s, h) /\ Unsigned(s) = h[1]
<1> DEFINE h == CHOOSE f : From(s, f)
<1>1. From(s, h)
  OBVIOUS
<1>2. Unsigned(s) = h[1]
  BY DEF Unsigned, From
<1> HIDE DEF h
<1> QED
  BY <1>1, <1>2

\* What a solution has at each place.
LEMMA FromAt ==
    ASSUME NEW s, NEW h, From(s, h), NEW n, n = Len(s), NEW i \in 1 .. n + 1
    PROVE  /\ i > n => h[i] = 0
           /\ ~(i > n) => h[i] = s[i] + 256 * h[i + 1]
<1> DEFINE r == [j \in 1 .. Len(s) + 1 |-> IF j > Len(s) THEN 0 ELSE s[j] + 256 * h[j + 1]]
<1>1. h = r
  BY Zenon DEF From
<1>2. i \in 1 .. Len(s) + 1
  OBVIOUS
<1>3. /\ i > Len(s) => r[i] = 0
      /\ ~(i > Len(s)) => r[i] = s[i] + 256 * h[i + 1]
  BY <1>2, Zenon
<1> HIDE DEF r
<1>4. h[i] = r[i]
  BY <1>1, Zenon
<1> QED
  BY <1>3, <1>4

\* g[i] is the number that the bytes from the i-th on show.
Shows(s, n, g) ==
    /\ Len(s) = n
    /\ g \in [1 .. n + 1 -> Int] /\ g[n + 1] = 0
    /\ \A i \in 1 .. n : s[i] \in Int /\ g[i] = s[i] + 256 * g[i + 1]

\* The number a sequence of bytes shows.
LEMMA UnsignedIs ==
    ASSUME NEW s, NEW n \in Nat, NEW g, Shows(s, n, g)
    PROVE  Unsigned(s) = g[1]
<1>0. /\ Len(s) = n
      /\ g \in [1 .. n + 1 -> Int] /\ g[n + 1] = 0
      /\ \A i \in 1 .. n : s[i] \in Int /\ g[i] = s[i] + 256 * g[i + 1]
  BY DEF Shows
<1>1. From(s, g)
  <2> DEFINE r == [i \in 1 .. n + 1 |-> IF i > n THEN 0 ELSE s[i] + 256 * g[i + 1]]
  <2>1. \A i \in 1 .. n + 1 : g[i] = r[i]
    BY <1>0
  <2>2. g = r
    BY <1>0, <2>1
  <2> QED
    BY <1>0, <2>2 DEF From
<1>2. PICK h : From(s, h) /\ Unsigned(s) = h[1]
  BY <1>1, UnsignedFrom
<1>3. h[n + 1] = 0 /\ \A i \in 1 .. n : h[i] = s[i] + 256 * h[i + 1]
  <2>1. ASSUME NEW i \in 1 .. n + 1
        PROVE  /\ i > n => h[i] = 0
               /\ ~(i > n) => h[i] = s[i] + 256 * h[i + 1]
    <3>1. From(s, h) /\ n = Len(s)
      BY <1>0, <1>2, Zenon
    <3> QED
      BY <3>1, FromAt
  <2>2. n + 1 \in 1 .. n + 1 /\ n + 1 > n
    OBVIOUS
  <2>3. h[n + 1] = 0
    BY <2>1, <2>2, Zenon
  <2>4. \A i \in 1 .. n : i \in 1 .. n + 1 /\ ~(i > n)
    OBVIOUS
  <2> QED
    BY <2>1, <2>3, <2>4, Zenon
<1> DEFINE T == {k \in 0 .. n : h[n + 1 - k] # g[n + 1 - k]}
<1>4. T = {}
  <2> SUFFICES ASSUME T # {} PROVE FALSE
    OBVIOUS
  <2>1. T \subseteq Nat
    OBVIOUS
  <2>2. PICK k \in T : \A j \in T : k <= j
    <3> HIDE DEF T
    <3> QED
      BY <2>1, LeastExists
  <2>3. k # 0
    BY <1>0, <1>3
  <2>4. k \in 0 .. n /\ k - 1 \in 0 .. n /\ ~(k - 1 \in T)
    <3>1. k \in 0 .. n
      OBVIOUS
    <3>2. k - 1 \in 0 .. n /\ k - 1 < k
      BY <2>3, <3>1
    <3> HIDE DEF T
    <3> QED
      BY <2>2, <3>1, <3>2
  <2>5. h[n + 1 - (k - 1)] = g[n + 1 - (k - 1)]
    BY <2>4
  <2>6. n + 1 - k \in 1 .. n /\ n + 1 - (k - 1) = (n + 1 - k) + 1
    BY <2>3, <2>4
  <2>7. h[n + 1 - k] # g[n + 1 - k]
    BY <2>2
  <2> HIDE DEF T
  <2> DEFINE i == n + 1 - k
  <2>8. i \in 1 .. n /\ h[i + 1] = g[i + 1] /\ h[i] # g[i]
    BY <2>5, <2>6, <2>7
  <2> HIDE DEF i
  <2>9. h[i] = s[i] + 256 * h[i + 1]
    BY <1>3, <2>8, Zenon
  <2>10. g[i] = s[i] + 256 * g[i + 1]
    BY <1>0, <2>8, Zenon
  <2> QED
    BY <2>8, <2>9, <2>10, Zenon
<1>5. h[1] = g[1]
  <2>1. n \in 0 .. n /\ n + 1 - n = 1
    OBVIOUS
  <2>2. h[n + 1 - n] = g[n + 1 - n]
    BY <1>4, <2>1
  <2> QED
    BY <2>1, <2>2
<1> QED
  BY <1>2, <1>5

\* What comes back of a number that fits its width is the number.
LEMMA NumberComesBack ==
    ASSUME NEW w \in Nat, NEW v \in Int, NEW f, Quotients(w, v, f), f[w] = 0
    PROVE  Bytes(w, v) \in Row(w) /\ Unsigned(Bytes(w, v)) = v
<1>0. f \in [0 .. w -> Int] /\ f[0] = v /\ \A i \in 1 .. w : f[i] = f[i - 1] \div 256
  BY DEF Quotients
<1>1. Bytes(w, v) \in Row(w) /\ \A i \in 1 .. w : Bytes(w, v)[i] = f[i - 1] % 256
  BY BytesAre
<1>2. \A x \in Int : x = (x % 256) + 256 * (x \div 256)
  OBVIOUS
<1>3. \A i \in 1 .. w : f[i - 1] \in Int
  BY <1>0
<1> DEFINE g == [i \in 1 .. w + 1 |-> f[i - 1]]
<1>5. g \in [1 .. w + 1 -> Int] /\ g[w + 1] = 0
  BY <1>0
<1>6. \A i \in 1 .. w : g[i] = Bytes(w, v)[i] + 256 * g[i + 1]
  <2> TAKE i \in 1 .. w
  <2>1. f[i - 1] = (f[i - 1] % 256) + 256 * (f[i - 1] \div 256)
    BY <1>2, <1>3
  <2>2. g[i] = f[i - 1] /\ g[i + 1] = f[i] /\ f[i] = f[i - 1] \div 256
    BY <1>0
  <2>3. Bytes(w, v)[i] = f[i - 1] % 256
    BY <1>1
  <2> QED
    BY <2>1, <2>2, <2>3
<1>7. Len(Bytes(w, v)) = w /\ \A i \in 1 .. w : Bytes(w, v)[i] \in Int
  BY <1>1, RowIsSeq
<1>8. g[1] = v
  BY <1>0
<1> HIDE DEF g
<1> DEFINE s == Bytes(w, v)
<1>9. Len(s) = w /\ \A i \in 1 .. w : s[i] \in Int /\ g[i] = s[i] + 256 * g[i + 1]
  BY <1>6, <1>7
<1> HIDE DEF s
<1>10. Unsigned(s) = g[1]
  <2>1. Shows(s, w, g)
    BY <1>5, <1>9 DEF Shows
  <2> QED
    BY <2>1, UnsignedIs
<1> QED
  BY <1>1, <1>8, <1>10 DEF s

\* A quotient loses one byte of the number.
LEMMA Quotient ==
    ASSUME NEW x \in Nat
    PROVE  /\ x \div 256 \in Nat
           /\ \A m \in Nat : x < 256 * m => x \div 256 < m
OBVIOUS

\* Two bytes hold what is below 2^16; the sign is the highest bit.
LEMMA TwoComeBack ==
    ASSUME NEW v \in Nat, v < 256 * 256
    PROVE  /\ Bytes(2, v) \in Row(2) /\ Unsigned(Bytes(2, v)) = v
           /\ v < 256 * 128 => Signed(Bytes(2, v)) = v
<1>1. PICK f : Quotients(2, v, f)
  BY QuotientsExist
<1>2. f[0] = v /\ f[1] = f[0] \div 256 /\ f[2] = f[1] \div 256
  BY <1>1 DEF Quotients
<1>3. f[1] \in Nat /\ f[1] < 256 /\ (v < 256 * 128 => f[1] < 128)
  <2>1. \A m \in Nat : v < 256 * m => f[1] < m
    BY <1>2, Quotient
  <2> QED
    BY <1>2, <2>1, Quotient
<1>4. f[2] = 0 /\ f[1] % 256 = f[1]
  BY <1>2, <1>3
<1>5. Bytes(2, v) \in Row(2) /\ Unsigned(Bytes(2, v)) = v
  BY <1>1, <1>4, NumberComesBack
<1>6. Bytes(2, v)[2] = f[1]
  <2>1. \A i \in 1 .. 2 : Bytes(2, v)[i] = f[i - 1] % 256
    BY <1>1, BytesAre
  <2> QED
    BY <1>4, <2>1
<1>7. Len(Bytes(2, v)) = 2
  BY <1>5, RowIsSeq
<1> QED
  BY <1>3, <1>5, <1>6, <1>7 DEF Signed

\* Four bytes hold what is below 2^32.
LEMMA FourComeBack ==
    ASSUME NEW v \in Nat, v < 256 * (256 * (256 * 256))
    PROVE  /\ Bytes(4, v) \in Row(4) /\ Unsigned(Bytes(4, v)) = v
           /\ v < 256 * (256 * (256 * 128)) => Signed(Bytes(4, v)) = v
<1>1. PICK f : Quotients(4, v, f)
  BY QuotientsExist
<1>2. /\ f[0] = v /\ f[1] = f[0] \div 256 /\ f[2] = f[1] \div 256
      /\ f[3] = f[2] \div 256 /\ f[4] = f[3] \div 256
  BY <1>1 DEF Quotients
<1>3. f[3] \in Nat /\ f[3] < 256 /\ (v < 256 * (256 * (256 * 128)) => f[3] < 128)
  <2>1. f[1] \in Nat /\ \A m \in Nat : v < 256 * m => f[1] < m
    BY <1>2, Quotient
  <2>2. f[2] \in Nat /\ \A m \in Nat : f[1] < 256 * m => f[2] < m
    BY <1>2, <2>1, Quotient
  <2>3. f[3] \in Nat /\ \A m \in Nat : f[2] < 256 * m => f[3] < m
    BY <1>2, <2>2, Quotient
  <2>4. \A m \in Nat : v < 256 * (256 * (256 * m)) => f[3] < m
    <3> TAKE m \in Nat
    <3> HAVE v < 256 * (256 * (256 * m))
    <3>1. f[1] < 256 * (256 * m)
      BY <2>1
    <3>2. f[2] < 256 * m
      BY <2>2, <3>1
    <3> QED
      BY <2>3, <3>2
  <2> QED
    BY <2>3, <2>4
<1>4. f[4] = 0 /\ f[3] % 256 = f[3]
  BY <1>2, <1>3
<1>5. Bytes(4, v) \in Row(4) /\ Unsigned(Bytes(4, v)) = v
  BY <1>1, <1>4, NumberComesBack
<1>6. Bytes(4, v)[4] = f[3]
  <2>1. \A i \in 1 .. 4 : Bytes(4, v)[i] = f[i - 1] % 256
    BY <1>1, BytesAre
  <2> QED
    BY <1>4, <2>1
<1>7. Len(Bytes(4, v)) = 4
  BY <1>5, RowIsSeq
<1> QED
  BY <1>3, <1>5, <1>6, <1>7 DEF Signed

\* The low bytes of a number are the same in every width.
LEMMA LowBytes ==
    ASSUME NEW v \in Int
    PROVE  Bytes(8, v) \in Row(8) /\ \A i \in 1 .. 4 : Bytes(8, v)[i] = Bytes(4, v)[i]
<1>1. PICK f : Quotients(8, v, f)
  BY QuotientsExist
<1> DEFINE g == [i \in 0 .. 4 |-> f[i]]
<1>2. Quotients(4, v, g)
  BY <1>1 DEF Quotients
<1>3. \A i \in 1 .. 4 : g[i - 1] = f[i - 1]
  OBVIOUS
<1> HIDE DEF g
<1>4. Bytes(8, v) \in Row(8) /\ \A i \in 1 .. 8 : Bytes(8, v)[i] = f[i - 1] % 256
  BY <1>1, BytesAre
<1>5. \A i \in 1 .. 4 : Bytes(4, v)[i] = g[i - 1] % 256
  BY <1>2, BytesAre
<1> QED
  BY <1>3, <1>4, <1>5

\* The identifier of a package has eight bytes: more than enough for four.
LEMMA EightComeBack ==
    ASSUME NEW v \in Nat, v < 256 * (256 * (256 * 256))
    PROVE  Bytes(8, v) \in Row(8) /\ Signed(Bytes(8, v)) = v
<1>1. PICK f : Quotients(8, v, f)
  BY QuotientsExist
<1>2. f[0] = v /\ \A i \in 1 .. 8 : f[i] = f[i - 1] \div 256
  BY <1>1 DEF Quotients
<1>3. 0 \div 256 = 0 /\ 0 % 256 = 0
  OBVIOUS
<1>4. f[4] = 0
  <2>0. f[1] = v \div 256 /\ f[2] = f[1] \div 256 /\ f[3] = f[2] \div 256 /\ f[4] = f[3] \div 256
    BY <1>2
  <2>1. f[1] \in Nat /\ \A m \in Nat : v < 256 * m => f[1] < m
    BY <2>0, Quotient
  <2>2. f[2] \in Nat /\ \A m \in Nat : f[1] < 256 * m => f[2] < m
    BY <2>0, <2>1, Quotient
  <2>3. f[3] \in Nat /\ \A m \in Nat : f[2] < 256 * m => f[3] < m
    BY <2>0, <2>2, Quotient
  <2>4. f[3] < 256
    <3>1. f[1] < 256 * (256 * 256)
      BY <2>1
    <3>2. f[2] < 256 * 256
      BY <2>2, <3>1
    <3> QED
      BY <2>3, <3>2
  <2> QED
    BY <2>0, <2>3, <2>4
<1>5. f[7] = 0 /\ f[8] = 0
  <2>1. f[5] = f[4] \div 256 /\ f[6] = f[5] \div 256 /\ f[7] = f[6] \div 256 /\ f[8] = f[7] \div 256
    BY <1>2
  <2>2. f[5] = 0
    BY <1>3, <1>4, <2>1
  <2>3. f[6] = 0
    BY <1>3, <2>1, <2>2
  <2>4. f[7] = 0
    BY <1>3, <2>1, <2>3
  <2> QED
    BY <1>3, <2>1, <2>4
<1>6. Bytes(8, v) \in Row(8) /\ Unsigned(Bytes(8, v)) = v
  BY <1>1, <1>5, NumberComesBack
<1>7. Bytes(8, v)[8] = 0
  <2>1. \A i \in 1 .. 8 : Bytes(8, v)[i] = f[i - 1] % 256
    BY <1>1, BytesAre
  <2> QED
    BY <1>3, <1>5, <2>1
<1>8. Len(Bytes(8, v)) = 8
  BY <1>6, RowIsSeq
<1> QED
  BY <1>6, <1>7, <1>8 DEF Signed

\* An error number comes back: in two's complement its high bytes are 255.
LEMMA ErrorComesBack ==
    ASSUME NEW v \in {-1, -2}
    PROVE  Bytes(8, v) \in Row(8) /\ Signed(Bytes(8, v)) = v
<1>1. PICK f : Quotients(8, v, f)
  BY QuotientsExist
<1>2. f[0] = v /\ \A i \in 1 .. 8 : f[i] = f[i - 1] \div 256
  BY <1>1 DEF Quotients
<1>3. \A x \in Int : x < 0 /\ -256 <= x => x \div 256 = -1 /\ x % 256 = 256 + x
  OBVIOUS
<1>4. \A i \in 1 .. 8 : f[i] = -1
  <2>1. f[1] = -1
    BY <1>2, <1>3
  <2>2. ASSUME NEW i \in 2 .. 8, f[i - 1] = -1
        PROVE  f[i] = -1
    BY <1>2, <1>3, <2>2
  <2>3. f[2] = -1 /\ f[3] = -1 /\ f[4] = -1
    BY <2>1, <2>2
  <2>4. f[5] = -1 /\ f[6] = -1
    BY <2>2, <2>3
  <2>5. f[7] = -1 /\ f[8] = -1
    BY <2>2, <2>4
  <2> QED
    BY <2>1, <2>3, <2>4, <2>5
<1> DEFINE s == Bytes(8, v)
<1>5. s \in Row(8) /\ \A i \in 1 .. 8 : s[i] = f[i - 1] % 256
  BY <1>1, BytesAre
<1>6. s \in Seq(Byte) /\ Len(s) = 8
  BY <1>5, RowIsSeq
<1>7. s[1] = 256 + v /\ \A i \in 2 .. 8 : s[i] = 255
  <2>1. s[1] = v % 256
    BY <1>2, <1>5
  <2>2. ASSUME NEW i \in 2 .. 8
        PROVE  s[i] = 255
    <3>1. PICK x \in Int : x = f[i - 1] /\ x < 0 /\ -256 <= x /\ 256 + x = 255
      BY <1>4
    <3>2. x % 256 = 256 + x
      BY <1>3, <3>1
    <3>3. s[i] = x % 256
      BY <1>5, <3>1
    <3> QED
      BY <3>1, <3>2, <3>3
  <2> QED
    BY <1>3, <2>1, <2>2
<1> HIDE DEF s
<1> DEFINE c == [i \in 1 .. 8 |-> 255 - s[i]]
           g == [i \in 1 .. 9 |-> IF i = 1 THEN -1 - v ELSE 0]
<1>8. Unsigned(c) = g[1]
  <2>1. c[1] = -1 - v /\ \A i \in 2 .. 8 : c[i] = 0
    BY <1>7
  <2>2. Len(c) = 8
    OBVIOUS
  <2> HIDE DEF c
  <2>3. Shows(c, 8, g)
    <3>1. g \in [1 .. 8 + 1 -> Int] /\ g[8 + 1] = 0
      OBVIOUS
    <3>2. ASSUME NEW i \in 1 .. 8
          PROVE  c[i] \in Int /\ g[i] = c[i] + 256 * g[i + 1]
      BY <2>1
    <3> QED
      BY <2>2, <3>1, <3>2 DEF Shows
  <2> HIDE DEF g
  <2> QED
    BY <2>3, UnsignedIs
<1>9. Signed(s) = -1 - Unsigned(c)
  BY <1>6, <1>7 DEF Signed
<1> HIDE DEF c
<1>10. Signed(s) = v
  BY <1>8, <1>9
<1> QED
  BY <1>5, <1>10 DEF s

\* What the identifier of a package may be: a number, or an error.
Identifier(v) == v \in {-1, -2} \/ (v \in Nat /\ v < 256 * (256 * (256 * 256)))

\* An identifier comes back.
LEMMA IdentifierIs ==
    ASSUME NEW v, Identifier(v)
    PROVE  Bytes(8, v) \in Row(8) /\ Signed(Bytes(8, v)) = v
BY EightComeBack, ErrorComesBack DEF Identifier

\* The bytes s lie in d behind the first i.
At(d, i, s) == \A j \in 1 .. Len(s) : i + j <= Len(d) /\ d[i + j] = s[j]

\* What lies in d can be copied from there.
LEMMA CopyAt ==
    ASSUME NEW d, NEW i \in Nat, NEW s \in Seq(Byte), At(d, i, s)
    PROVE  Copy(d, i, Len(s)) = s
<1>1. Copy(d, i, Len(s)) = [j \in 1 .. Len(s) |-> s[j]]
  BY DEF Copy, At
<1>2. s = [j \in 1 .. Len(s) |-> s[j]]
  OBVIOUS
<1> QED
  BY <1>1, <1>2

\* Bytes behind bytes are bytes.
LEMMA Joined ==
    ASSUME NEW a \in Seq(Byte), NEW b \in Seq(Byte)
    PROVE  a \o b \in Seq(Byte) /\ Len(a \o b) = Len(a) + Len(b)
OBVIOUS

\* What lies in a lies in the same place of a with something behind it.
LEMMA AtLeft ==
    ASSUME NEW a \in Seq(Byte), NEW b \in Seq(Byte), NEW i \in Nat, NEW s \in Seq(Byte),
           At(a, i, s)
    PROVE  At(a \o b, i, s)
<1> SUFFICES ASSUME NEW j \in 1 .. Len(s)
             PROVE  i + j <= Len(a \o b) /\ (a \o b)[i + j] = s[j]
  BY DEF At
<1>1. i + j <= Len(a) /\ a[i + j] = s[j]
  BY DEF At
<1>2. i + j \in 1 .. Len(a) /\ Len(a \o b) = Len(a) + Len(b)
  BY <1>1
<1> QED
  BY <1>1, <1>2

\* What is put behind a lies behind a.
LEMMA AtRight ==
    ASSUME NEW a \in Seq(Byte), NEW b \in Seq(Byte)
    PROVE  At(a \o b, Len(a), b)
<1> SUFFICES ASSUME NEW j \in 1 .. Len(b)
             PROVE  Len(a) + j <= Len(a \o b) /\ (a \o b)[Len(a) + j] = b[j]
  BY DEF At
<1> QED
  OBVIOUS

\* Bytes lie at their own beginning.
LEMMA AtStart ==
    ASSUME NEW a \in Seq(Byte)
    PROVE  At(a, 0, a)
BY DEF At

\* A package as it should be: its number and its size fit their fields, and
\* the size is that of the data.
Sound(p) ==
    /\ p = [message_id |-> p.message_id, size |-> p.size, data |-> p.data]
    /\ Identifier(p.message_id)
    /\ p.data \in Seq(Byte) /\ p.size = Len(p.data)
    /\ p.size < 256 * (256 * (256 * 256))

\* A package comes back from the stream as it was, whatever is behind it, and
\* what is behind it is left.
LEMMA PackageSent ==
    ASSUME NEW p, Sound(p), NEW t \in Seq(Byte)
    PROVE  /\ send_package(p) \in Seq(Byte)
           /\ receive_package(send_package(p) \o t) = p
           /\ Rest(send_package(p) \o t) = t
<1> DEFINE a == Bytes(8, p.message_id)
           b == Bytes(4, p.size)
           c == p.data
           s == send_package(p) \o t
<1>1. /\ p = [message_id |-> p.message_id, size |-> p.size, data |-> c]
      /\ Identifier(p.message_id) /\ c \in Seq(Byte) /\ p.size = Len(c) /\ p.size \in Nat
  BY DEF Sound
<1>2. a \in Seq(Byte) /\ Len(a) = 8 /\ Signed(a) = p.message_id
  BY <1>1, IdentifierIs, RowIsSeq DEF Sound
<1>3. b \in Seq(Byte) /\ Len(b) = 4 /\ Unsigned(b) = p.size
  <2>1. p.size < 256 * (256 * (256 * 256))
    BY DEF Sound
  <2>2. Bytes(4, p.size) \in Row(4) /\ Unsigned(Bytes(4, p.size)) = p.size
    BY <1>1, <2>1, FourComeBack
  <2> QED
    BY <2>2, RowIsSeq
<1>4. s = ((a \o b) \o c) \o t
  BY DEF send_package
<1> HIDE DEF a, b, c, s
<1>5. /\ a \o b \in Seq(Byte) /\ Len(a \o b) = 12
      /\ (a \o b) \o c \in Seq(Byte) /\ Len((a \o b) \o c) = 12 + p.size
  <2>1. a \o b \in Seq(Byte) /\ Len(a \o b) = 12
    <3>1. a \o b \in Seq(Byte) /\ Len(a \o b) = Len(a) + Len(b)
      BY <1>2, <1>3, Joined
    <3> QED
      BY <1>2, <1>3, <3>1
  <2> QED
    BY <1>1, <2>1, Joined
<1>6. At(s, 0, a) /\ At(s, 8, b) /\ At(s, 12, c)
  <2>1. At(a \o b, 0, a) /\ At(a \o b, 8, b)
    BY <1>2, <1>3, AtStart, AtLeft, AtRight
  <2>2. At((a \o b) \o c, 0, a) /\ At((a \o b) \o c, 8, b) /\ At((a \o b) \o c, 12, c)
    BY <1>1, <1>2, <1>3, <1>5, <2>1, AtLeft, AtRight
  <2> QED
    BY <1>1, <1>2, <1>3, <1>4, <1>5, <2>2, AtLeft
<1>7. Copy(s, 0, 8) = a /\ Copy(s, 8, 4) = b /\ Copy(s, 12, p.size) = c
  <2>1. Copy(s, 0, 8) = a
    <3>1. Len(a) = 8 /\ At(s, 0, a) /\ a \in Seq(Byte)
      BY <1>2, <1>6
    <3>2. Copy(s, 0, Len(a)) = a
      BY <3>1, CopyAt
    <3> QED
      BY <3>1, <3>2
  <2>2. Copy(s, 8, 4) = b
    <3>1. Len(b) = 4 /\ At(s, 8, b) /\ b \in Seq(Byte)
      BY <1>3, <1>6
    <3>2. Copy(s, 8, Len(b)) = b
      BY <3>1, CopyAt
    <3> QED
      BY <3>1, <3>2
  <2>3. Copy(s, 12, p.size) = c
    BY <1>1, <1>6, CopyAt
  <2> QED
    BY <2>1, <2>2, <2>3
<1>8. receive_package(s) = p
  BY <1>1, <1>2, <1>3, <1>7 DEF receive_package, HEAD_SIZE, c
<1>9. Rest(s) = t
  <2> DEFINE d == (a \o b) \o c
             n == 12 + p.size
  <2>1. d \in Seq(Byte) /\ Len(d) = n /\ s = d \o t /\ n \in Nat
    BY <1>1, <1>4, <1>5
  <2>2. Rest(s) = SubSeq(s, n + 1, Len(s))
    BY <1>8 DEF Rest, HEAD_SIZE
  <2> HIDE DEF d, n
  <2>3. SubSeq(d \o t, n + 1, Len(d \o t)) = t
    BY <2>1
  <2> QED
    BY <2>1, <2>2, <2>3
<1>10. send_package(p) \in Seq(Byte)
  BY <1>5 DEF send_package, a, b, c
<1> QED
  BY <1>8, <1>9, <1>10 DEF s

\* Numbers that fit two and four bytes.
Short(v) == v \in Nat /\ v < 256 * 256
Word(v)  == v \in Nat /\ v < 256 * (256 * (256 * 256))

\* Also as signed numbers.
LowShort(v) == v \in Nat /\ v < 256 * 128
LowWord(v)  == v \in Nat /\ v < 256 * (256 * (256 * 128))

\* What fits as a signed number fits, and what fits a short fits a word.
LEMMA Limits ==
    /\ \A v : LowShort(v) => Short(v)
    /\ \A v : LowWord(v) => Word(v)
    /\ \A v : Short(v) => v \in Int /\ Word(v)
BY DEF Short, Word, LowShort, LowWord

\* The two bytes of a short.
LEMMA ShortIs ==
    ASSUME NEW v, Short(v)
    PROVE  /\ Bytes(2, v) \in Seq(Byte) /\ Len(Bytes(2, v)) = 2
           /\ Unsigned(Bytes(2, v)) = v
           /\ LowShort(v) => Signed(Bytes(2, v)) = v
<1>1. /\ Bytes(2, v) \in Row(2) /\ Unsigned(Bytes(2, v)) = v
      /\ LowShort(v) => Signed(Bytes(2, v)) = v
  BY TwoComeBack DEF Short, LowShort
<1>2. Bytes(2, v) \in Seq(Byte) /\ Len(Bytes(2, v)) = 2
  BY <1>1, RowIsSeq
<1> QED
  BY <1>1, <1>2

\* The four bytes of a word.
LEMMA WordIs ==
    ASSUME NEW v, Word(v)
    PROVE  /\ Bytes(4, v) \in Seq(Byte) /\ Len(Bytes(4, v)) = 4
           /\ Unsigned(Bytes(4, v)) = v
           /\ LowWord(v) => Signed(Bytes(4, v)) = v
<1>1. /\ Bytes(4, v) \in Row(4) /\ Unsigned(Bytes(4, v)) = v
      /\ LowWord(v) => Signed(Bytes(4, v)) = v
  BY FourComeBack DEF Word, LowWord
<1>2. Bytes(4, v) \in Seq(Byte) /\ Len(Bytes(4, v)) = 4
  BY <1>1, RowIsSeq
<1> QED
  BY <1>1, <1>2

\* What lies in d as a whole lies there in its parts.
LEMMA AtParts ==
    ASSUME NEW d, NEW i \in Nat, NEW a \in Seq(Byte), NEW b \in Seq(Byte), At(d, i, a \o b)
    PROVE  At(d, i, a) /\ At(d, i + Len(a), b)
<1>1. Len(a) \in Nat /\ Len(b) \in Nat /\ Len(a \o b) = Len(a) + Len(b)
  OBVIOUS
<1>2. At(d, i, a)
  <2> SUFFICES ASSUME NEW j \in 1 .. Len(a) PROVE i + j <= Len(d) /\ d[i + j] = a[j]
    BY DEF At
  <2>1. j \in 1 .. Len(a \o b) /\ (a \o b)[j] = a[j]
    BY <1>1
  <2> QED
    BY <2>1 DEF At
<1>3. At(d, i + Len(a), b)
  <2> SUFFICES ASSUME NEW j \in 1 .. Len(b)
               PROVE  i + Len(a) + j <= Len(d) /\ d[i + Len(a) + j] = b[j]
    BY DEF At
  <2>1. Len(a) + j \in 1 .. Len(a \o b) /\ (a \o b)[Len(a) + j] = b[j]
    BY <1>1
  <2>2. i + (Len(a) + j) <= Len(d) /\ d[i + (Len(a) + j)] = (a \o b)[Len(a) + j]
    BY <2>1 DEF At
  <2>3. i + (Len(a) + j) = i + Len(a) + j
    BY <1>1
  <2> QED
    BY <2>1, <2>2, <2>3
<1> QED
  BY <1>2, <1>3

\* A short in the place where it lies.
LEMMA ShortAt ==
    ASSUME NEW d, NEW i \in Nat, NEW v, Short(v), At(d, i, Bytes(2, v))
    PROVE  /\ Unsigned(Copy(d, i, 2)) = v
           /\ LowShort(v) => Signed(Copy(d, i, 2)) = v
<1>1. Copy(d, i, Len(Bytes(2, v))) = Bytes(2, v)
  BY ShortIs, CopyAt
<1> QED
  BY <1>1, ShortIs

\* A word in the place where it lies.
LEMMA WordAt ==
    ASSUME NEW d, NEW i \in Nat, NEW v, Word(v), At(d, i, Bytes(4, v))
    PROVE  /\ Unsigned(Copy(d, i, 4)) = v
           /\ LowWord(v) => Signed(Copy(d, i, 4)) = v
<1>1. Copy(d, i, Len(Bytes(4, v))) = Bytes(4, v)
  BY WordIs, CopyAt
<1> QED
  BY <1>1, WordIs

\* A string that a short can count, with its terminating zero.
ShortString(s) == s \in Seq(Byte) /\ Short(Len(s) + 1)

\* What _serialize_string makes of a string.
LEMMA StringIs ==
    ASSUME NEW s, ShortString(s)
    PROVE  /\ _serialize_string(s) = Bytes(2, Len(s) + 1) \o (s \o <<0>>)
           /\ _serialize_string(s) \in Seq(Byte)
           /\ Len(_serialize_string(s)) = _string_serialized_size(s)
           /\ _string_serialized_size(s) = Len(s) + 3
           /\ s \o <<0>> \in Seq(Byte) /\ Len(s \o <<0>>) = Len(s) + 1
<1> DEFINE b == Bytes(2, Len(s) + 1)
<1>1. s \in Seq(Byte) /\ Len(s) \in Nat /\ Short(Len(s) + 1) /\ <<0>> \in Seq(Byte)
  BY DEF ShortString, Byte
<1>2. b \in Seq(Byte) /\ Len(b) = 2
  BY <1>1, ShortIs
<1>3. _serialize_string(s) = (b \o s) \o <<0>>
  BY DEF _serialize_string, size_string_len
<1> HIDE DEF b
<1>4. (b \o s) \o <<0>> = b \o (s \o <<0>>)
  BY <1>1, <1>2
<1>5. s \o <<0>> \in Seq(Byte) /\ Len(s \o <<0>>) = Len(s) + 1
  BY <1>1
<1>6. b \o (s \o <<0>>) \in Seq(Byte) /\ Len(b \o (s \o <<0>>)) = Len(b) + Len(s \o <<0>>)
  BY <1>2, <1>5, Joined
<1>7. _string_serialized_size(s) = Len(s) + 3
  BY <1>1 DEF _string_serialized_size, size_string_len
<1>8. Len(b) + Len(s \o <<0>>) = Len(s) + 3
  BY <1>1, <1>2, <1>5
<1> QED
  BY <1>3, <1>4, <1>5, <1>6, <1>7, <1>8 DEF b

\* A string in the place where it lies, and the place behind it.
LEMMA StringFound ==
    ASSUME NEW d, NEW i \in Nat, NEW s, ShortString(s), At(d, i, _serialize_string(s))
    PROVE  /\ StringAt(d, i) = s \o <<0>>
           /\ After(d, i) = i + _string_serialized_size(s)
<1> DEFINE b == Bytes(2, Len(s) + 1)
           c == s \o <<0>>
<1>1. Short(Len(s) + 1) /\ Len(s) \in Nat
  BY DEF ShortString
<1>2. b \in Seq(Byte) /\ Len(b) = 2
  BY <1>1, ShortIs
<1>3. c \in Seq(Byte) /\ Len(c) = Len(s) + 1 /\ At(d, i, b \o c)
  BY StringIs
<1>4. At(d, i, b) /\ At(d, i + 2, c)
  <2> HIDE DEF b, c
  <2>1. At(d, i, b) /\ At(d, i + Len(b), c)
    BY <1>2, <1>3, AtParts
  <2> QED
    BY <1>2, <2>1
<1>5. Unsigned(Copy(d, i, 2)) = Len(s) + 1
  BY <1>1, <1>4, ShortAt
<1>6. Copy(d, i + 2, Len(c)) = c
  <2> HIDE DEF b, c
  <2> QED
    BY <1>3, <1>4, CopyAt
<1> HIDE DEF c
<1>7. StringAt(d, i) = c
  BY <1>3, <1>5, <1>6 DEF StringAt, size_string_len
<1>8. After(d, i) = i + _string_serialized_size(s)
  BY <1>1, <1>5 DEF After, _string_serialized_size, size_string_len
<1> QED
  BY <1>7, <1>8 DEF c

\* The operations; SAC is the number of the handshake.
Operation == DOMAIN t_identifier_message \ {"SAC"}

\* The number of an operation is a byte that no other has.
LEMMA OperationIs ==
    ASSUME NEW op \in Operation
    PROVE  /\ t_identifier_message[op] \in Byte
           /\ (CHOOSE o \in DOMAIN t_identifier_message :
                  t_identifier_message[o] = t_identifier_message[op]) = op
<1>1. Operation = {"open", "close", "write", "read", "remove", "mkdir", "rmdir", "stat",
                   "readdir", "rename", "truncate"}
  BY DEF Operation, t_identifier_message
<1>2. t_identifier_message[op] \in Byte
  BY <1>1 DEF t_identifier_message, Byte
<1>3. \A o \in DOMAIN t_identifier_message :
          t_identifier_message[o] = t_identifier_message[op] => o = op
  BY <1>1 DEF t_identifier_message
<1>4. op \in DOMAIN t_identifier_message
  BY DEF Operation
<1> QED
  BY <1>2, <1>3, <1>4

\* The package of an operation is as it should be.
LEMMA PackageIs ==
    ASSUME NEW op \in Operation, NEW c \in Seq(Byte), NEW n, n = Len(c), Word(n)
    PROVE  /\ Sound(Package(op, n, c))
           /\ Package(op, n, c).data = c
           /\ Package(op, n, c).message_id = t_identifier_message[op]
<1>1. Copy(c, 0, Len(c)) = c
  BY AtStart, CopyAt
<1>2. Package(op, n, c) = [message_id |-> t_identifier_message[op], size |-> n, data |-> c]
  BY <1>1 DEF Package
<1>3. PICK i \in Byte : i = t_identifier_message[op]
  BY OperationIs
<1>4. i \in Nat /\ i < 256 * (256 * (256 * 256))
  BY DEF Byte
<1>5. PICK p : p = Package(op, n, c)
  OBVIOUS
<1>6. p.message_id = i /\ p.size = n /\ p.data = c
      /\ p = [message_id |-> p.message_id, size |-> p.size, data |-> p.data]
  BY <1>2, <1>3, <1>5
<1>7. Sound(p)
  BY <1>4, <1>6 DEF Sound, Word, Identifier
<1> QED
  BY <1>3, <1>5, <1>6, <1>7

\* What deserialize takes from the data.
Arguments(op, d) ==
    CASE op \in {"open", "mkdir", "stat"} -> deserialize_open(d)
      [] op = "close"    -> <<Unsigned(Copy(d, 0, size_fd))>>
      [] op = "write"    -> deserialize_write(d)
      [] op = "read"     -> deserialize_read(d)
      [] op = "rename"   -> deserialize_rename(d)
      [] op = "truncate" -> deserialize_truncate(d)
      [] OTHER           -> <<StringAt(d, 0)>>

\* deserialize finds the operation by its number.
LEMMA FunctionIs ==
    ASSUME NEW op \in Operation, NEW p, p.message_id = t_identifier_message[op]
    PROVE  deserialize(p) = [op |-> op, args |-> Arguments(op, p.data)]
<1>1. (CHOOSE o \in DOMAIN t_identifier_message :
         t_identifier_message[o] = p.message_id) = op
  BY OperationIs
<1>2. ~(\A o \in DOMAIN t_identifier_message \ {"SAC"} :
          t_identifier_message[o] # p.message_id)
  BY DEF Operation
<1> HIDE DEF Operation
<1> QED
  BY <1>1, <1>2 DEF deserialize, Arguments

\* A path can be sent, alone or behind another, with a size_t behind it.
Sendable(path) == path \in Seq(Byte) /\ LowShort(Len(path) + 16)

\* The bytes of a path that can be sent.
LEMMA PathIs ==
    ASSUME NEW path, Sendable(path)
    PROVE  /\ ShortString(path)
           /\ _serialize_string(path) \in Seq(Byte)
           /\ _string_serialized_size(path) \in Nat
           /\ _string_serialized_size(path) < 256 * 128
           /\ Len(_serialize_string(path)) = _string_serialized_size(path)
<1>1. ShortString(path) /\ Len(path) \in Nat
  BY DEF Sendable, ShortString, Short, LowShort
<1> QED
  BY <1>1, StringIs DEF Sendable, LowShort

\* Limits without large numbers.
LEMMA Small ==
    /\ \A n \in Nat : n < 256 * 256 * 256 => Word(n)
    /\ 256 * 128 \in Nat /\ 256 * 128 + 256 * 128 < 256 * 256 * 256
BY DEF Word
-----------------------------------------------------------------------------
(***************************************************************************)
(* Answers.                                                                *)
(***************************************************************************)
\* A string without a zero ends where the server looks for its end.
LEMMA StringEnds ==
    ASSUME NEW p \in Seq(Byte), \A i \in 1 .. Len(p) : p[i] # 0
    PROVE  CString(p \o <<0>>) = p
<1> DEFINE s == p \o <<0>>
           n == Len(p)
           zeros == {i \in 1 .. Len(s) : s[i] = 0}
<1>1. n \in Nat /\ Len(s) = n + 1 /\ s[n + 1] = 0 /\ \A i \in 1 .. n : s[i] = p[i]
  OBVIOUS
<1>2. zeros = {n + 1}
  <2> HIDE DEF s
  <2>1. \A i \in 1 .. n : s[i] # 0
    BY <1>1
  <2>2. \A i \in 1 .. n + 1 : i \in 1 .. n \/ i = n + 1
    BY <1>1
  <2> QED
    BY <1>1, <2>1, <2>2
<1>3. PICK i : i = CHOOSE m \in zeros : \A j \in zeros : m <= j
  OBVIOUS
<1>4. i = n + 1
  <2> HIDE DEF zeros
  <2>1. \E j \in zeros : \A m \in zeros : j <= m
    BY <1>1, <1>2
  <2> QED
    BY <1>2, <1>3, <2>1
<1>5. zeros # {}
  <2> HIDE DEF zeros
  <2> QED
    BY <1>2
<1>6. CString(s) = SubSeq(s, 1, i - 1)
  BY <1>3, <1>5 DEF CString
<1>7. i - 1 = n
  BY <1>1, <1>4
<1>8. SubSeq(s, 1, n) = p
  BY <1>1
<1> QED
  BY <1>6, <1>7, <1>8

\* A package that is alone in the stream comes back.
LEMMA AnswerSent ==
    ASSUME NEW p, Sound(p)
    PROVE  send_package(p) \in Seq(Byte) /\ receive_package(send_package(p)) = p
<1>1. <<>> \in Seq(Byte)
  OBVIOUS
<1>2. send_package(p) \in Seq(Byte) /\ receive_package(send_package(p) \o <<>>) = p
  BY <1>1, PackageSent
<1>3. send_package(p) \o <<>> = send_package(p)
  BY <1>2
<1> QED
  BY <1>2, <1>3

\* A package with its data.
LEMMA SoundIs ==
    ASSUME NEW id, Identifier(id), NEW n, Word(n), NEW s \in Seq(Byte), Len(s) = n
    PROVE  Sound([message_id |-> id, size |-> n, data |-> s])
<1>1. PICK p : p = [message_id |-> id, size |-> n, data |-> s]
  OBVIOUS
<1>2. /\ p.message_id = id /\ p.size = n /\ p.data = s
      /\ p = [message_id |-> p.message_id, size |-> p.size, data |-> p.data]
  BY <1>1
<1>3. Sound(p)
  BY <1>2 DEF Sound, Word
<1> QED
  BY <1>1, <1>3

\* An answer without data.
LEMMA DefaultIs ==
    ASSUME NEW id, Identifier(id)
    PROVE  Sound(create_default_package(id))
<1>1. <<>> \in Seq(Byte) /\ Len(<<>>) = 0 /\ Word(0)
  BY Small
<1> QED
  BY <1>1, SoundIs DEF create_default_package

\* The answer to a read: as many bytes as its size says.
LEMMA ReadAnswerIs ==
    ASSUME NEW n, Word(n)
    PROVE  Sound([message_id |-> 0, size |-> n, data |-> Copy(<<>>, 0, n)])
<1>1. n \in Nat
  BY DEF Word
<1>2. Copy(<<>>, 0, n) \in Row(n)
  <2>1. \A j \in 1 .. n : ~(0 + j <= 0)
    BY <1>1
  <2>2. Len(<<>>) = 0 /\ UNINIT \in Byte
    BY WireAssumption
  <2>3. Copy(<<>>, 0, n) = [j \in 1 .. n |-> UNINIT]
    BY <2>1, <2>2 DEF Copy
  <2> QED
    BY <2>2, <2>3 DEF Row
<1>3. Identifier(0)
  BY DEF Identifier
<1> QED
  BY <1>1, <1>2, <1>3, RowIsSeq, SoundIs

\* The answer to a stat shows the attributes it was made from.
LEMMA StatAnswerIs ==
    ASSUME NEW st, Short(st.ino), Word(st.size)
    PROVE  /\ Sound(StatAnswer(st))
           /\ StatAnswer(st).message_id = 0
           /\ __fill_stat_from_buffer(StatAnswer(st).data) =
                 [state |-> IF st.state = 2 THEN 2 ELSE 1, ino |-> st.ino, size |-> st.size]
<1> DEFINE k == IF st.state = 2 THEN 2 ELSE 1
           a == Bytes(2, k)
           b == Bytes(2, st.ino)
           c == Bytes(4, st.size)
           z == Bytes(8, 0)
           d == (((a \o b) \o c) \o z) \o z
<1>1. k \in {1, 2} /\ LowShort(k) /\ Short(k)
  BY DEF LowShort, Short
<1>2. a \in Seq(Byte) /\ Len(a) = 2
  <2> HIDE DEF k
  <2> QED
    BY <1>1, ShortIs
<1>3. b \in Seq(Byte) /\ Len(b) = 2 /\ c \in Seq(Byte) /\ Len(c) = 4
  BY ShortIs, WordIs
<1>4. z \in Seq(Byte) /\ Len(z) = 8
  <2>1. Identifier(0)
    BY DEF Identifier
  <2> QED
    BY <2>1, IdentifierIs, RowIsSeq
<1>5. StatAnswer(st) = [message_id |-> 0, size |-> 24, data |-> d]
  BY DEF StatAnswer
<1> HIDE DEF a, b, c, z
<1>6. /\ a \o b \in Seq(Byte) /\ Len(a \o b) = 4
      /\ (a \o b) \o c \in Seq(Byte) /\ Len((a \o b) \o c) = 8
  <2>1. a \o b \in Seq(Byte) /\ Len(a \o b) = 4
    <3>1. a \o b \in Seq(Byte) /\ Len(a \o b) = Len(a) + Len(b)
      BY <1>2, <1>3, Joined
    <3> QED
      BY <1>2, <1>3, <3>1
  <2>2. (a \o b) \o c \in Seq(Byte) /\ Len((a \o b) \o c) = Len(a \o b) + Len(c)
    BY <1>3, <2>1, Joined
  <2> QED
    BY <1>3, <2>1, <2>2
<1>7. ((a \o b) \o c) \o z \in Seq(Byte) /\ d \in Seq(Byte) /\ Len(d) = 24
  <2> DEFINE y == (a \o b) \o c
  <2>1. y \in Seq(Byte) /\ Len(y) = 8
    BY <1>6
  <2> HIDE DEF y
  <2>2. y \o z \in Seq(Byte) /\ Len(y \o z) = 16
    <3>1. y \o z \in Seq(Byte) /\ Len(y \o z) = Len(y) + Len(z)
      BY <1>4, <2>1, Joined
    <3> QED
      BY <1>4, <2>1, <3>1
  <2>3. (y \o z) \o z \in Seq(Byte) /\ Len((y \o z) \o z) = Len(y \o z) + Len(z)
    BY <1>4, <2>2, Joined
  <2> QED
    BY <1>4, <2>2, <2>3 DEF y
<1>8. Sound(StatAnswer(st))
  <2>1. Identifier(0) /\ Word(24)
    BY Small DEF Identifier
  <2> HIDE DEF d
  <2> QED
    BY <1>5, <1>7, <2>1, SoundIs
<1>9. At(d, 0, a) /\ At(d, 2, b) /\ At(d, 4, c)
  <2>1. At(a \o b, 0, a) /\ At(a \o b, 2, b)
    BY <1>2, <1>3, AtStart, AtLeft, AtRight
  <2>2. /\ At((a \o b) \o c, 0, a) /\ At((a \o b) \o c, 2, b)
        /\ At((a \o b) \o c, 4, c)
    BY <1>2, <1>3, <1>6, <2>1, AtLeft, AtRight
  <2> DEFINE y == (a \o b) \o c
  <2>3. y \in Seq(Byte) /\ At(y, 0, a) /\ At(y, 2, b) /\ At(y, 4, c)
    BY <1>6, <2>2
  <2>4. y \o z \in Seq(Byte)
    BY <1>7
  <2> HIDE DEF y
  <2>5. At(y \o z, 0, a) /\ At(y \o z, 2, b) /\ At(y \o z, 4, c)
    BY <1>2, <1>3, <1>4, <2>3, AtLeft
  <2>6. /\ At((y \o z) \o z, 0, a) /\ At((y \o z) \o z, 2, b)
        /\ At((y \o z) \o z, 4, c)
    BY <1>2, <1>3, <1>4, <2>4, <2>5, AtLeft
  <2> QED
    BY <2>6 DEF y
<1> HIDE DEF d
<1>10. /\ Signed(Copy(d, 0, 2)) = k
       /\ Unsigned(Copy(d, 2, 2)) = st.ino
       /\ Unsigned(Copy(d, 4, 4)) = st.size
  <2> HIDE DEF k
  <2> QED
    BY <1>1, <1>9, ShortAt, WordAt DEF a, b, c
<1>11. StatAnswer(st).message_id = 0 /\ StatAnswer(st).data = d
  BY <1>5
<1> QED
  BY <1>1, <1>8, <1>10, <1>11 DEF __fill_stat_from_buffer

\* Names that a directory can be listed with: strings, short enough for the
\* number in front of each and for the size of the package.
Listable(names) ==
    /\ names \in Seq(Seq(Byte)) /\ Len(names) < 256 * 256
    /\ \A i \in 1 .. Len(names) :
          /\ Len(names[i]) + 3 < 256 * 128
          /\ \A j \in 1 .. Len(names[i]) : names[i][j] # 0

\* One of the names.
LEMMA ListedIs ==
    ASSUME NEW names, Listable(names), NEW i \in 1 .. Len(names)
    PROVE  /\ ShortString(names[i])
           /\ _serialize_string(names[i]) \in Seq(Byte)
           /\ Len(_serialize_string(names[i])) = _string_serialized_size(names[i])
           /\ _string_serialized_size(names[i]) \in Nat \ {0}
           /\ _string_serialized_size(names[i]) <= 256 * 128
           /\ CString(names[i] \o <<0>>) = names[i]
<1>1. names[i] \in Seq(Byte) /\ Len(names[i]) \in Nat /\ Len(names[i]) + 3 < 256 * 128
  <2>1. names[i] \in Seq(Byte)
    BY DEF Listable
  <2> QED
    BY <2>1 DEF Listable
<1>2. ShortString(names[i])
  BY <1>1 DEF ShortString, Short
<1>3. CString(names[i] \o <<0>>) = names[i]
  BY <1>1, StringEnds DEF Listable
<1>4. /\ _serialize_string(names[i]) \in Seq(Byte)
      /\ Len(_serialize_string(names[i])) = _string_serialized_size(names[i])
      /\ _string_serialized_size(names[i]) = Len(names[i]) + 3
  BY <1>2, StringIs
<1>5. \A m \in Nat : m + 3 < 256 * 128 => m + 3 \in Nat \ {0} /\ m + 3 <= 256 * 128
  OBVIOUS
<1> QED
  BY <1>1, <1>2, <1>3, <1>4, <1>5

\* g[i] is what _sac_readdir makes of the names from the i-th on.
Rests(names, g) ==
    /\ g[Len(names) + 1] = <<>>
    /\ \A i \in 1 .. Len(names) : g[i] = _serialize_string(names[i]) \o g[i + 1]

\* The answer is what all names make.
LEMMA ListingIs ==
    ASSUME NEW names, Listable(names)
    PROVE  \E g : /\ Rests(names, g)
                 /\ ReaddirAnswer(names) = [message_id |-> 0, size |-> Len(g[1]), data |-> g[1]]
<1> DEFINE n == Len(names)
           Q == Seq(Byte)
           next == [i \in Nat |-> i + 1]
           meet == [x \in Nat \X Q |-> IF x[1] \in 1 .. n
                                         THEN _serialize_string(names[x[1]]) \o x[2] ELSE x[2]]
<1>1. n \in Nat
  BY DEF Listable
<1>2. \A i \in 1 .. n, q \in Q : _serialize_string(names[i]) \o q \in Q
  <2> HIDE DEF n, Q
  <2> TAKE i \in 1 .. n, q \in Q
  <2>1. _serialize_string(names[i]) \in Q /\ q \in Q
    BY ListedIs DEF n, Q
  <2> QED
    BY <2>1, Joined DEF Q
<1>3. meet \in [Nat \X Q -> Q]
  <2> SUFFICES ASSUME NEW x \in Nat \X Q PROVE meet[x] \in Q
    OBVIOUS
  <2>1. x[1] \in Nat /\ x[2] \in Q
    OBVIOUS
  <2>2. x[1] \in 1 .. n => _serialize_string(names[x[1]]) \o x[2] \in Q
    BY <1>2, <2>1
  <2> HIDE DEF Q, n
  <2> QED
    BY <2>1, <2>2
<1>4. PICK g : Gathers(g, n + 1, Q, next, meet, <<>>)
  <2>1. next \in [Nat -> Nat] /\ \A i \in Nat : i < next[i]
    OBVIOUS
  <2>2. <<>> \in Q /\ n + 1 \in Nat
    BY <1>1
  <2> HIDE DEF Q, n, next, meet
  <2> QED
    BY <1>3, <2>1, <2>2, WalkExists
<1>5. \A i \in Nat : g[i] = IF i >= n + 1 THEN <<>> ELSE meet[i, g[next[i]]]
  BY <1>4 DEF Gathers
<1>6. \A i \in Nat : g[i] \in Q /\ g[i + 1] \in Q
  <2>1. g \in [Nat -> Q]
    BY <1>4 DEF Gathers
  <2> HIDE DEF Q
  <2> QED
    BY <2>1
<1>7. \A i \in Nat : i \in 1 .. n => g[i] = _serialize_string(names[i]) \o g[i + 1]
  <2> TAKE i \in Nat
  <2> HAVE i \in 1 .. n
  <2>1. next[i] = i + 1 /\ ~(i >= n + 1)
    BY <1>1
  <2>2. <<i, g[i + 1]>> \in Nat \X Q
    BY <1>6
  <2>3. meet[i, g[i + 1]] = _serialize_string(names[i]) \o g[i + 1]
    BY <2>2
  <2> HIDE DEF meet, next
  <2> QED
    BY <1>5, <2>1, <2>3
<1> DEFINE IsFrom(f) == f = [i \in Nat |-> IF i > n THEN <<>>
                                           ELSE _serialize_string(names[i]) \o f[i + 1]]
           h == [i \in Nat |-> IF i = 0 THEN IF i > n THEN <<>>
                                            ELSE _serialize_string(names[0]) \o g[1]
                               ELSE g[i]]
<1>8. IsFrom(h)
  <2> DEFINE r == [i \in Nat |-> IF i > n THEN <<>>
                                 ELSE _serialize_string(names[i]) \o h[i + 1]]
  <2>1. ASSUME NEW i \in Nat
        PROVE  h[i] = r[i]
    <3>1. h[i + 1] = g[i + 1]
      OBVIOUS
    <3>2. CASE i = 0
      BY <3>1, <3>2
    <3>3. CASE i # 0 /\ i > n
      <4>1. g[i] = <<>>
        <5>1. i >= n + 1
          BY <1>1, <3>3
        <5> HIDE DEF meet, next, n, h, r
        <5> QED
          BY <1>5, <5>1
      <4> QED
        BY <3>3, <4>1
    <3>4. CASE i # 0 /\ ~(i > n)
      <4>1. i \in 1 .. n
        BY <1>1, <3>4
      <4>2. g[i] = _serialize_string(names[i]) \o g[i + 1]
        BY <1>7, <4>1
      <4> HIDE DEF n
      <4> QED
        BY <3>1, <3>4, <4>2
    <3> QED
      BY <3>2, <3>3, <3>4
  <2> QED
    BY <2>1
<1> DEFINE f == CHOOSE f : IsFrom(f)
<1>9. IsFrom(f)
  <2> HIDE DEF IsFrom
  <2> QED
    BY <1>8
<1>10. ReaddirAnswer(names) = [message_id |-> 0, size |-> Len(f[1]), data |-> f[1]]
  BY DEF ReaddirAnswer
<1>11. \A i \in Nat : f[i] = IF i > n THEN <<>> ELSE _serialize_string(names[i]) \o f[i + 1]
  <2> HIDE DEF f
  <2> QED
    BY <1>9
<1>12. Rests(names, f)
  <2>1. n + 1 \in Nat /\ n + 1 > n
    BY <1>1
  <2>2. \A i \in 1 .. n : i \in Nat /\ ~(i > n)
    BY <1>1
  <2> HIDE DEF f
  <2> QED
    BY <1>11, <2>1, <2>2 DEF Rests
<1> HIDE DEF f
<1> QED
  BY <1>10, <1>12

\* The names from the i-th on: their bytes are not too many for a package.
LEMMA RestsFit ==
    ASSUME NEW names, Listable(names), NEW g, Rests(names, g)
    PROVE  \A i \in 1 .. Len(names) + 1 :
              g[i] \in Seq(Byte) /\ Len(g[i]) <= (Len(names) + 1 - i) * (256 * 128)
<1> DEFINE n == Len(names)
           Fits(i) == g[i] \in Seq(Byte) /\ Len(g[i]) <= (n + 1 - i) * (256 * 128)
           T == {k \in 0 .. n : ~Fits(n + 1 - k)}
<1>1. n \in Nat
  BY DEF Listable
<1>2. Fits(n + 1 - 0)
  <2>1. n + 1 - 0 = n + 1 /\ g[n + 1] = <<>>
    BY <1>1 DEF Rests
  <2>2. Len(<<>>) = 0 /\ (n + 1 - (n + 1)) * (256 * 128) = 0
    BY <1>1
  <2>3. Fits(n + 1)
    <3> HIDE DEF n
    <3> QED
      BY <2>1, <2>2
  <2> HIDE DEF Fits
  <2> QED
    BY <2>1, <2>3
<1>3. ASSUME NEW i \in 1 .. n, Fits(i + 1)
      PROVE  Fits(i)
  <2> DEFINE s == _serialize_string(names[i])
  <2>1. g[i] = s \o g[i + 1]
    BY DEF Rests
  <2>2. s \in Seq(Byte) /\ Len(s) <= 256 * 128
    BY ListedIs
  <2> HIDE DEF s
  <2>3. g[i] \in Seq(Byte) /\ Len(g[i]) = Len(s) + Len(g[i + 1])
    BY <1>3, <2>1, <2>2, Joined
  <2>4. Len(s) \in Nat /\ Len(g[i + 1]) \in Nat
    BY <1>3, <2>2
  <2>5. (n + 1 - (i + 1)) * (256 * 128) + 256 * 128 = (n + 1 - i) * (256 * 128)
    BY <1>1
  <2>6. Len(g[i]) <= (n + 1 - i) * (256 * 128)
    <3>1. Len(g[i + 1]) <= (n + 1 - (i + 1)) * (256 * 128)
      BY <1>3
    <3> HIDE DEF n
    <3> QED
      BY <1>1, <2>2, <2>3, <2>4, <2>5, <3>1
  <2> QED
    BY <2>3, <2>6
<1>4. T = {}
  <2> HIDE DEF Fits, n
  <2> SUFFICES ASSUME T # {} PROVE FALSE
    OBVIOUS
  <2>1. T \subseteq Nat
    OBVIOUS
  <2>2. PICK k \in T : \A j \in T : k <= j
    <3> HIDE DEF T
    <3> QED
      BY <2>1, LeastExists
  <2>3. k # 0
    BY <1>2, <2>2
  <2>4. k - 1 \in 0 .. n /\ ~(k - 1 \in T)
    BY <1>1, <2>2, <2>3
  <2>5. Fits(n + 1 - (k - 1))
    BY <2>4
  <2>6. n + 1 - (k - 1) = (n + 1 - k) + 1 /\ n + 1 - k \in 1 .. n
    BY <1>1, <2>2, <2>3
  <2>7. Fits((n + 1 - k) + 1)
    BY <2>5, <2>6
  <2>8. Fits(n + 1 - k)
    BY <1>3, <2>6, <2>7
  <2> QED
    BY <2>2, <2>8
<1> SUFFICES ASSUME NEW i \in 1 .. n + 1 PROVE Fits(i)
  OBVIOUS
<1>5. PICK k \in 0 .. n : i = n + 1 - k
  <2>1. n + 1 - i \in 0 .. n /\ i = n + 1 - (n + 1 - i)
    BY <1>1
  <2> QED
    BY <2>1
<1> HIDE DEF Fits
<1> QED
  BY <1>4, <1>5

\* Where the i-th name begins in the data of all.
Begins(g, i) == Len(g[1]) - Len(g[i])

\* There the names from the i-th on lie.
LEMMA RestsLie ==
    ASSUME NEW names, Listable(names), NEW g, Rests(names, g)
    PROVE  \A i \in 1 .. Len(names) + 1 : Begins(g, i) \in Nat /\ At(g[1], Begins(g, i), g[i])
<1> DEFINE n == Len(names)
           Lies(i) == Begins(g, i) \in Nat /\ At(g[1], Begins(g, i), g[i])
           T == {k \in 1 .. n + 1 : ~Lies(k)}
<1>1. n \in Nat
  BY DEF Listable
<1>2. \A i \in 1 .. n + 1 : g[i] \in Seq(Byte) /\ Len(g[i]) \in Nat
  <2>1. \A i \in 1 .. n + 1 : g[i] \in Seq(Byte)
    BY RestsFit
  <2> QED
    BY <2>1
<1>3. Lies(1)
  <2>1. g[1] \in Seq(Byte) /\ Len(g[1]) - Len(g[1]) = 0
    BY <1>1, <1>2
  <2> QED
    BY <2>1, AtStart DEF Begins
<1>4. ASSUME NEW i \in 1 .. n, Lies(i)
      PROVE  Lies(i + 1)
  <2>0. PICK s : s = _serialize_string(names[i])
    OBVIOUS
  <2>1. g[i] = s \o g[i + 1]
    BY <2>0 DEF Rests
  <2>2. s \in Seq(Byte) /\ Len(s) \in Nat
    BY <2>0, ListedIs
  <2>3. g[i + 1] \in Seq(Byte) /\ Len(g[i + 1]) \in Nat /\ Len(g[1]) \in Nat
    BY <1>1, <1>2
  <2>4. Len(g[i]) = Len(s) + Len(g[i + 1])
    BY <2>1, <2>2, <2>3, Joined
  <2>5. Begins(g, i + 1) = Begins(g, i) + Len(s)
    <3> HIDE DEF n
    <3> QED
      BY <2>2, <2>3, <2>4 DEF Begins
  <2>6. At(g[1], Begins(g, i) + Len(s), g[i + 1])
    <3>1. Begins(g, i) \in Nat /\ At(g[1], Begins(g, i), s \o g[i + 1])
      BY <1>4, <2>1
    <3> QED
      BY <2>2, <2>3, <3>1, AtParts
  <2>7. Begins(g, i + 1) \in Nat
    BY <1>4, <2>2, <2>5
  <2> QED
    BY <2>5, <2>6, <2>7
<1>5. T = {}
  <2> HIDE DEF Lies
  <2> SUFFICES ASSUME T # {} PROVE FALSE
    OBVIOUS
  <2>1. T \subseteq Nat
    BY <1>1
  <2>2. PICK k \in T : \A j \in T : k <= j
    <3> HIDE DEF T
    <3> QED
      BY <2>1, LeastExists
  <2>3. k # 1
    BY <1>3, <2>2
  <2>4. k - 1 \in 1 .. n /\ k - 1 < k
    BY <1>1, <2>2, <2>3
  <2>5. k - 1 \in 1 .. n + 1 /\ ~(k - 1 \in T)
    <3>1. k - 1 \in 1 .. n + 1
      BY <1>1, <2>4
    <3> HIDE DEF T
    <3> QED
      BY <2>1, <2>2, <2>4, <3>1
  <2>6. Lies(k - 1)
    BY <2>5
  <2>7. Lies((k - 1) + 1)
    BY <1>4, <2>4, <2>6
  <2>8. (k - 1) + 1 = k
    BY <2>1, <2>2
  <2> QED
    BY <2>2, <2>7, <2>8
<1> SUFFICES ASSUME NEW i \in 1 .. n + 1 PROVE Lies(i)
  OBVIOUS
<1> HIDE DEF Lies
<1> QED
  BY <1>5

\* The place behind a string is further on.
LEMMA AfterIs ==
    ASSUME NEW d \in Seq(Byte), NEW i \in Nat
    PROVE  After(d, i) \in Nat /\ i < After(d, i)
<1> DEFINE s == Copy(d, i, 2)
           g == [j \in 1 .. 3 |-> IF j = 3 THEN 0 ELSE IF j = 2 THEN s[2] ELSE s[1] + 256 * s[2]]
<1>1. Len(s) = 2 /\ \A j \in 1 .. 2 : s[j] \in Nat
  <2>1. \A j \in 1 .. 2 : (IF i + j <= Len(d) THEN d[i + j] ELSE UNINIT) \in Byte
    BY WireAssumption
  <2>2. s = [j \in 1 .. 2 |-> IF i + j <= Len(d) THEN d[i + j] ELSE UNINIT]
    BY DEF Copy
  <2>3. s \in Row(2)
    BY <2>1, <2>2 DEF Row
  <2> HIDE DEF s
  <2>4. \A b \in Byte : b \in Nat
    BY DEF Byte
  <2>5. \A j \in 1 .. 2 : s[j] \in Byte
    BY <2>3 DEF Row
  <2> QED
    BY <2>3, <2>4, <2>5, RowIsSeq
<1> HIDE DEF s
<1>2. s[1] \in Nat /\ s[2] \in Nat
  BY <1>1
<1>3. Shows(s, 2, g)
  <2>1. g \in [1 .. 2 + 1 -> Int] /\ g[2 + 1] = 0
    BY <1>2
  <2>2. g[1] = s[1] + 256 * g[2] /\ g[2] = s[2] + 256 * g[3]
    BY <1>2
  <2> HIDE DEF g
  <2>3. \A j \in 1 .. 2 : j = 1 \/ j = 2
    OBVIOUS
  <2>4. \A j \in 1 .. 2 : s[j] \in Int /\ g[j] = s[j] + 256 * g[j + 1]
    BY <1>2, <2>2, <2>3
  <2> QED
    BY <1>1, <2>1, <2>4 DEF Shows
<1>4. Unsigned(s) \in Nat
  <2>1. g[1] \in Nat
    BY <1>2
  <2> HIDE DEF g
  <2> QED
    BY <1>3, <2>1, UnsignedIs
<1>5. After(d, i) = i + 2 + Unsigned(s)
  BY DEF After, size_string_len, s
<1> QED
  BY <1>4, <1>5

\* e[i] is what do_readdir finds from place i of the data on.
Entries(p, e) ==
    \A i \in Nat : e[i] = IF i >= p.size THEN <<>>
                          ELSE <<CString(StringAt(p.data, i))>> \o e[After(p.data, i)]

\* What it finds from the beginning on is what it gives to the kernel.
LEMMA EntriesFrom ==
    ASSUME NEW p, p.data \in Seq(Byte), p.size \in Nat
    PROVE  \E e : Entries(p, e) /\ EntriesOf(p) = e[0]
<1> DEFINE name(i) == CString(StringAt(p.data, i))
           N == {name(i) : i \in Nat}
           Q == Seq(N)
           next == [i \in Nat |-> After(p.data, i)]
           meet == [x \in Nat \X Q |-> <<name(x[1])>> \o x[2]]
<1>1. next \in [Nat -> Nat] /\ \A i \in Nat : i < next[i]
  BY AfterIs
<1>2. meet \in [Nat \X Q -> Q]
  <2> SUFFICES ASSUME NEW x \in Nat \X Q PROVE <<name(x[1])>> \o x[2] \in Q
    OBVIOUS
  <2>1. x[2] \in Q /\ name(x[1]) \in N
    OBVIOUS
  <2> HIDE DEF N, name
  <2> QED
    BY <2>1
<1>3. PICK g : Gathers(g, p.size, Q, next, meet, <<>>)
  <2>1. <<>> \in Q
    OBVIOUS
  <2> HIDE DEF Q, next, meet
  <2> QED
    BY <1>1, <1>2, <2>1, WalkExists
<1> DEFINE IsEntry(f) == f = [i \in Nat |-> IF i >= p.size THEN <<>>
                                   ELSE <<CString(StringAt(p.data, i))>> \o f[After(p.data, i)]]
<1>4. IsEntry(g)
  <2> DEFINE r == [i \in Nat |-> IF i >= p.size THEN <<>>
                                 ELSE <<CString(StringAt(p.data, i))>> \o g[After(p.data, i)]]
  <2>1. g \in [Nat -> Q]
    BY <1>3 DEF Gathers
  <2>2. ASSUME NEW i \in Nat
        PROVE  g[i] = r[i]
    <3>1. g[i] = IF i >= p.size THEN <<>> ELSE meet[i, g[next[i]]]
      BY <1>3 DEF Gathers
    <3>2. next[i] = After(p.data, i) /\ g[next[i]] \in Q
      BY <1>1, <2>1
    <3>3. PICK q \in Q : q = g[next[i]]
      BY <3>2
    <3>4. <<i, q>> \in Nat \X Q
      OBVIOUS
    <3>5. meet[i, q] = <<CString(StringAt(p.data, i))>> \o q
      BY <3>4
    <3> HIDE DEF meet, next, Q
    <3> QED
      BY <3>1, <3>2, <3>3, <3>5
  <2> HIDE DEF Q, meet, next
  <2> QED
    BY <2>1, <2>2
<1> DEFINE e == CHOOSE f : IsEntry(f)
<1>5. IsEntry(e)
  <2> HIDE DEF IsEntry
  <2> QED
    BY <1>4
<1>6. EntriesOf(p) = e[0]
  BY DEF EntriesOf
<1> HIDE DEF e
<1>7. Entries(p, e)
  BY <1>5 DEF Entries
<1> QED
  BY <1>6, <1>7

\* The names from the i-th on.
NamesFrom(names, i) == [j \in 1 .. Len(names) + 1 - i |-> names[i + j - 1]]

\* They are the i-th in front of the others.
LEMMA FromIs ==
    ASSUME NEW names, Listable(names)
    PROVE  /\ NamesFrom(names, 1) = names
           /\ NamesFrom(names, Len(names) + 1) = <<>>
           /\ \A i \in 1 .. Len(names) :
                 NamesFrom(names, i) = <<names[i]>> \o NamesFrom(names, i + 1)
<1>1. names \in Seq(Seq(Byte)) /\ Len(names) \in Nat
  BY DEF Listable
<1>2. NamesFrom(names, 1) = names
  <2>1. names = [j \in 1 .. Len(names) |-> names[j]]
    BY <1>1
  <2>2. \A j \in 1 .. Len(names) : 1 + j - 1 = j
    BY <1>1
  <2>3. Len(names) + 1 - 1 = Len(names)
    BY <1>1
  <2> QED
    BY <2>1, <2>2, <2>3 DEF NamesFrom
<1>3. NamesFrom(names, Len(names) + 1) = <<>>
  <2>1. Len(names) + 1 - (Len(names) + 1) = 0
    BY <1>1
  <2> QED
    BY <2>1 DEF NamesFrom
<1>4. ASSUME NEW i \in 1 .. Len(names)
      PROVE  NamesFrom(names, i) = <<names[i]>> \o NamesFrom(names, i + 1)
  <2> DEFINE n == Len(names)
             a == NamesFrom(names, i)
             b == NamesFrom(names, i + 1)
  <2>1. n \in Nat /\ i \in 1 .. n /\ n + 1 - (i + 1) = n - i /\ n - i \in Nat
    BY <1>1
  <2>2. b = [j \in 1 .. n - i |-> names[i + 1 + j - 1]]
    BY <2>1 DEF NamesFrom
  <2>3. \A j \in 1 .. n : names[j] \in Seq(Byte)
    BY <1>1
  <2>4. b \in Seq(Seq(Byte)) /\ Len(b) = n - i
    <3>1. \A j \in 1 .. n - i : i + 1 + j - 1 \in 1 .. n
      BY <2>1
    <3> HIDE DEF n, b
    <3> QED
      BY <2>1, <2>2, <2>3, <3>1
  <2>5. a = [j \in 1 .. n + 1 - i |-> names[i + j - 1]]
    BY DEF NamesFrom
  <2>6. names[i] \in Seq(Byte)
    BY <2>1, <2>3
  <2> HIDE DEF n, a, b
  <2>7. /\ Len(<<names[i]>> \o b) = n + 1 - i
        /\ <<names[i]>> \o b \in Seq(Seq(Byte))
    <3>1. <<names[i]>> \in Seq(Seq(Byte)) /\ Len(<<names[i]>>) = 1
      BY <2>6
    <3>2. PICK a1 : a1 = <<names[i]>>
      OBVIOUS
    <3>3. a1 \in Seq(Seq(Byte)) /\ Len(a1) = 1
      BY <3>1, <3>2
    <3>4. a1 \o b \in Seq(Seq(Byte)) /\ Len(a1 \o b) = Len(a1) + Len(b)
      <4>1. \A S : \A x, y \in Seq(S) : x \o y \in Seq(S) /\ Len(x \o y) = Len(x) + Len(y)
        OBVIOUS
      <4> QED
        BY <2>4, <3>3, <4>1
    <3> QED
      BY <2>1, <2>4, <3>2, <3>3, <3>4
  <2>8. ASSUME NEW j \in 1 .. n + 1 - i
        PROVE  (<<names[i]>> \o b)[j] = a[j]
    <3>1. CASE j = 1
      <4>1. i + 1 - 1 = i /\ a[1] = names[i + 1 - 1]
        BY <2>1, <2>5, <3>1
      <4> QED
        BY <2>4, <2>6, <3>1, <4>1
    <3>2. CASE j # 1
      <4>1. j - 1 \in 1 .. n - i /\ i + 1 + (j - 1) - 1 = i + j - 1
        BY <2>1, <3>2
      <4>2. b[j - 1] = names[i + j - 1]
        BY <2>2, <4>1
      <4>3. (<<names[i]>> \o b)[j] = b[j - 1]
        BY <2>1, <2>4, <2>6, <3>2, <4>1
      <4> QED
        BY <2>5, <4>2, <4>3
    <3> QED
      BY <3>1, <3>2
  <2>9. <<names[i]>> \o b = a
    <3>1. <<names[i]>> \o b = [j \in 1 .. n + 1 - i |-> (<<names[i]>> \o b)[j]]
      BY <2>7
    <3> QED
      BY <2>5, <2>8, <3>1
  <2> QED
    BY <2>9 DEF a, b
<1> QED
  BY <1>2, <1>3, <1>4

\* The answer to a readdir shows the names it was made from, in their order.
LEMMA ReaddirAnswerIs ==
    ASSUME NEW names, Listable(names)
    PROVE  /\ Sound(ReaddirAnswer(names))
           /\ ReaddirAnswer(names).message_id = 0
           /\ EntriesOf(ReaddirAnswer(names)) = names
<1>1. PICK g : /\ Rests(names, g)
               /\ ReaddirAnswer(names) = [message_id |-> 0, size |-> Len(g[1]), data |-> g[1]]
  BY ListingIs
<1>2. PICK n \in Nat : n = Len(names) /\ n < 256 * 256
  BY DEF Listable
<1>3. \A i \in 1 .. n + 1 : /\ g[i] \in Seq(Byte) /\ Len(g[i]) \in Nat
                            /\ Len(g[i]) <= (n + 1 - i) * (256 * 128)
                            /\ Begins(g, i) \in Nat /\ At(g[1], Begins(g, i), g[i])
  <2>1. \A i \in 1 .. n + 1 : /\ g[i] \in Seq(Byte)
                              /\ Len(g[i]) <= (n + 1 - i) * (256 * 128)
    BY <1>1, <1>2, RestsFit
  <2> QED
    BY <1>1, <1>2, <2>1, RestsLie
<1>4. PICK p : p = ReaddirAnswer(names)
  OBVIOUS
<1>5. p.message_id = 0 /\ p.data = g[1] /\ p.size = Len(g[1])
  BY <1>1, <1>4
<1>6. Sound(p)
  <2>1. 1 \in 1 .. n + 1
    BY <1>2
  <2>2. g[1] \in Seq(Byte) /\ Len(g[1]) \in Nat /\ Len(g[1]) <= (n + 1 - 1) * (256 * 128)
    BY <1>3, <2>1
  <2>3. Word(Len(g[1]))
    <3>1. PICK m \in Nat : m = Len(g[1]) /\ m <= (n + 1 - 1) * (256 * 128)
      BY <2>2
    <3>2. m < 256 * (256 * (256 * 256))
      BY <1>2, <3>1
    <3> QED
      BY <3>1, <3>2 DEF Word
  <2>4. Identifier(0)
    BY DEF Identifier
  <2> QED
    BY <1>1, <1>4, <2>2, <2>3, <2>4, SoundIs
<1>7. PICK e : Entries(p, e) /\ EntriesOf(p) = e[0]
  <2>1. 1 \in 1 .. n + 1
    BY <1>2
  <2>2. p.data \in Seq(Byte) /\ p.size \in Nat
    BY <1>3, <1>5, <2>1
  <2> QED
    BY <2>2, EntriesFrom
<1> DEFINE Met(i) == e[Begins(g, i)] = NamesFrom(names, i)
           T == {k \in 0 .. n : ~Met(n + 1 - k)}
<1>8. Met(n + 1)
  <2>1. g[n + 1] = <<>> /\ n + 1 \in 1 .. n + 1 /\ 1 \in 1 .. n + 1
    BY <1>1, <1>2 DEF Rests
  <2>2. Begins(g, n + 1) = p.size /\ p.size \in Nat
    BY <1>3, <1>5, <2>1 DEF Begins
  <2>3. e[p.size] = <<>>
    <3>1. p.size >= p.size
      BY <2>2
    <3>2. e[p.size] = IF p.size >= p.size THEN <<>>
                      ELSE <<CString(StringAt(p.data, p.size))>> \o e[After(p.data, p.size)]
      BY <1>7, <2>2 DEF Entries
    <3> QED
      BY <3>1, <3>2
  <2> QED
    BY <1>2, <2>2, <2>3, FromIs
<1>9. ASSUME NEW i \in 1 .. n, Met(i + 1)
      PROVE  Met(i)
  <2>0. PICK s : s = _serialize_string(names[i])
    OBVIOUS
  <2>1. g[i] = s \o g[i + 1] /\ i \in 1 .. n + 1 /\ i + 1 \in 1 .. n + 1
    <3>1. i \in 1 .. n + 1 /\ i + 1 \in 1 .. n + 1
      BY <1>2
    <3>2. g[i] = s \o g[i + 1]
      BY <1>1, <1>2, <2>0 DEF Rests
    <3> QED
      BY <3>1, <3>2
  <2>2. /\ s \in Seq(Byte) /\ Len(s) \in Nat \ {0}
        /\ Len(s) = _string_serialized_size(names[i])
        /\ ShortString(names[i]) /\ CString(names[i] \o <<0>>) = names[i]
    BY <1>2, <2>0, ListedIs
  <2>3. PICK b \in Nat : b = Begins(g, i)
    BY <1>3, <2>1
  <2>4. /\ At(g[1], b, s)
        /\ Len(g[i]) = Len(s) + Len(g[i + 1])
    <3>1. g[i + 1] \in Seq(Byte) /\ At(g[1], b, s \o g[i + 1])
      BY <1>3, <2>1, <2>3
    <3> QED
      BY <2>1, <2>2, <2>3, <3>1, AtParts, Joined
  <2>5. StringAt(p.data, b) = names[i] \o <<0>> /\ After(p.data, b) = b + Len(s)
    <3>1. At(p.data, b, _serialize_string(names[i])) /\ ShortString(names[i])
      BY <1>5, <2>0, <2>2, <2>4, Zenon
    <3>2. /\ StringAt(p.data, b) = names[i] \o <<0>>
          /\ After(p.data, b) = b + _string_serialized_size(names[i])
      BY <3>1, StringFound
    <3> QED
      BY <2>2, <3>2, Zenon
  <2>6. Len(g[1]) \in Nat /\ Len(g[i + 1]) \in Nat /\ Len(g[i]) \in Nat
    BY <1>2, <1>3, <2>1
  <2>7. b + Len(s) = Begins(g, i + 1) /\ ~(b >= p.size)
    <3> HIDE DEF Met, T
    <3>1. PICK x \in Nat, y \in Nat, z \in Nat, w \in Nat \ {0} :
              x = Len(g[1]) /\ y = Len(g[i + 1]) /\ z = Len(g[i]) /\ w = Len(s)
      BY <2>2, <2>6
    <3>2. b = x - z /\ z = w + y /\ Begins(g, i + 1) = x - y /\ p.size = x
      BY <1>5, <2>3, <2>4, <3>1 DEF Begins
    <3>3. \A x1, y1, b1 \in Nat, w1 \in Nat \ {0} :
              b1 = x1 - (w1 + y1) => b1 + w1 = x1 - y1 /\ ~(b1 >= x1)
      OBVIOUS
    <3>4. b + w = x - y /\ ~(b >= x)
      BY <3>2, <3>3
    <3> QED
      BY <3>1, <3>2, <3>4
  <2>8. e[b] = <<CString(StringAt(p.data, b))>> \o e[After(p.data, b)]
    BY <1>7, <2>7 DEF Entries
  <2>9. e[b] = <<names[i]>> \o NamesFrom(names, i + 1)
    BY <1>9, <2>2, <2>5, <2>7, <2>8
  <2> QED
    BY <1>2, <2>3, <2>9, FromIs
<1>10. T = {}
  <2> HIDE DEF Met
  <2> SUFFICES ASSUME T # {} PROVE FALSE
    OBVIOUS
  <2>1. T \subseteq Nat
    OBVIOUS
  <2>2. PICK k \in T : \A j \in T : k <= j
    <3> HIDE DEF T
    <3> QED
      BY <2>1, LeastExists
  <2>3. k # 0
    BY <1>2, <1>8, <2>2
  <2>4. k - 1 \in 0 .. n /\ ~(k - 1 \in T)
    BY <1>2, <2>2, <2>3
  <2>5. Met(n + 1 - (k - 1))
    BY <2>4
  <2>6. n + 1 - (k - 1) = (n + 1 - k) + 1 /\ n + 1 - k \in 1 .. n
    BY <1>2, <2>2, <2>3
  <2>7. Met((n + 1 - k) + 1)
    BY <2>5, <2>6
  <2>8. Met(n + 1 - k)
    BY <1>9, <2>6, <2>7
  <2> QED
    BY <2>2, <2>8
<1>11. Met(1)
  <2>1. n \in 0 .. n /\ n + 1 - n = 1
    BY <1>2
  <2> HIDE DEF Met
  <2>2. Met(n + 1 - n)
    BY <1>10, <2>1
  <2> QED
    BY <2>1, <2>2
<1>12. Begins(g, 1) = 0
  <2>1. 1 \in 1 .. n + 1
    BY <1>2
  <2> QED
    BY <1>3, <2>1 DEF Begins
<1>13. EntriesOf(p) = names
  BY <1>7, <1>11, <1>12, FromIs
<1> QED
  BY <1>4, <1>5, <1>6, <1>13

=============================================================================
