--------------------------- MODULE FunctionProofs ---------------------------
(***************************************************************************)
(* The functions of their input alone, for every input.                    *)
(*                                                                         *)
(* A digest is that of the message, whatever the pieces it was taken in,   *)
(* for any message and any sizes of a block, a word and a byte that        *)
(* DigestAssumption allows.  First the arithmetic: division, the powers    *)
(* that are the weights of bytes, and the bytes of a number of two words.  *)
(* Then what a context holds between two calls, which MD5__Update keeps;   *)
(* then the padding, for MD5__Final and for sha256.                        *)
(*                                                                         *)
(* What is encoded is decoded: the headers of packets; DES, from its       *)
(* tables up to its blocks; base64; the cipher of encrypt.cpp, from its    *)
(* alphabet and its mixing of bits up to the count of its tildes.          *)
(***************************************************************************)
EXTENDS MCFunctions, SequenceTheorems, FiniteSetTheorems, WellFoundedInduction, TLAPS

-----------------------------------------------------------------------------
(* Division. *)
LEMMA DivisionIs ==
  ASSUME NEW d \in Nat, d > 0, NEW x \in Int, NEW q \in Int, NEW r \in 0..(d - 1), x = d * q + r
  PROVE  x \div d = q /\ x % d = r
BY Z3

LEMMA DivisionOf ==
  ASSUME NEW d \in Nat, d > 0, NEW x \in Nat
  PROVE  /\ x \div d \in Nat /\ x % d \in 0..(d - 1) /\ x = d * (x \div d) + (x % d)
<1>1. x = (x \div d) * d + (x % d) /\ x % d \in 0..(d - 1) /\ x \div d \in Int
  BY Z3
<1>2. (x \div d) * d = d * (x \div d)
  BY <1>1, Z3
<1>3. x \div d >= 0
  BY Z3
<1> QED
  BY <1>1, <1>2, <1>3

LEMMA Distributes ==
  ASSUME NEW a \in Int, NEW b \in Int, NEW c \in Int
  PROVE  a * (b + c) = a * b + a * c /\ a * b = b * a /\ a * b \in Int /\ (a * b) * c = a * (b * c)
BY Z3

LEMMA Increases ==
  ASSUME NEW a \in Nat, NEW b \in Int, NEW c \in Int, b <= c PROVE a * b <= a * c
<1>1. PICK d \in Nat : c = b + d
  <2>1. c - b \in Nat /\ c = b + (c - b)
    OBVIOUS
  <2> QED
    BY <2>1
<1>2. a * d >= 0
  BY Z3
<1> QED
  BY <1>1, <1>2, Distributes

LEMMA DistributesOne == \A a \in Int : a * 1 = a
OBVIOUS

(* A division by a product is two divisions. *)
LEMMA DivisionTwice ==
  ASSUME NEW a \in Nat, NEW b \in Nat, a > 0, b > 0, NEW x \in Nat
  PROVE  /\ x \div (a * b) = (x \div a) \div b
         /\ (x % (a * b)) \div a = (x \div a) % b
<1>1. PICK u \in Nat, s \in 0..(a - 1) : u = x \div a /\ x = a * u + s
  BY DivisionOf
<1>2. PICK v \in Nat, t \in 0..(b - 1) : v = u \div b /\ t = u % b /\ u = b * v + t
  BY DivisionOf
<1>3. a * b \in Nat /\ a * b > 0
  BY Z3
<1>4. a * t <= a * (b - 1) /\ 0 <= a * t /\ a * (b - 1) = a * b - a /\ a * t \in Int
  <2>1. a * 0 = 0 /\ a * 0 <= a * t /\ a * t <= a * (b - 1)
    BY <1>2, Increases
  <2>2. a * (b + (-1)) = a * b + a * (-1) /\ a * (-1) = -a /\ b + (-1) = b - 1
    BY Distributes
  <2> QED
    BY <2>1, <2>2, <1>2, Distributes
<1>5. a * t + s \in 0..(a * b - 1)
  BY <1>1, <1>3, <1>4
<1>6. x = (a * b) * v + (a * t + s)
  <2>1. a * (b * v + t) = a * (b * v) + a * t /\ a * (b * v) = (a * b) * v /\ (a * b) * v \in Int
    BY <1>2, Distributes
  <2> QED
    BY <1>1, <1>2, <1>4, <2>1
<1>7. x \div (a * b) = v /\ x % (a * b) = a * t + s
  BY <1>3, <1>5, <1>6, DivisionIs
<1>8. (a * t + s) \div a = t
  BY <1>1, <1>2, <1>4, DivisionIs
<1> QED
  BY <1>1, <1>2, <1>7, <1>8

-----------------------------------------------------------------------------
(* Powers.  That there is a function with the equation of Power is shown by
   giving it: at n it is the end of the one chain of n multiplications. *)
LEMMA Smallest ==
  ASSUME NEW T \in SUBSET Nat, T # {} PROVE \E x \in T : \A y \in T : x <= y
<1>1. PICK x \in T : \A y \in T : ~(<<y, x>> \in OpToRel(<, Nat))
  BY NatLessThanWellFounded, WFMin
<1>2. \A y \in T : x <= y
  <2> SUFFICES ASSUME NEW y \in T, ~(x <= y) PROVE FALSE
    OBVIOUS
  <2>0. x \in Nat /\ y \in Nat
    BY <1>1, Zenon
  <2>1. y < x
    BY <2>0
  <2>2. <<y, x>> \in Nat \X Nat /\ <<y, x>>[1] < <<y, x>>[2]
    BY <2>0, <2>1
  <2> QED
    BY <2>2, <1>1 DEF OpToRel
<1> QED
  BY <1>1, <1>2

Chain(f, n) == f \in [0..n -> Nat] /\ f[0] = 1 /\ \A i \in 1..n : f[i] = DigestValues * f[i - 1]

LEMMA ChainExists == \A n \in Nat : \E f : Chain(f, n)
<1> DEFINE Without == {n \in Nat : ~\E f : Chain(f, n)}
<1> SUFFICES ASSUME Without # {} PROVE FALSE
  OBVIOUS
<1> HIDE DEF Without
<1>1. PICK n \in Without : \A y \in Without : n <= y
  BY Smallest DEF Without
<1>2. n \in Nat /\ ~\E f : Chain(f, n)
  BY <1>1 DEF Without
<1>3. n # 0
  <2>1. Chain([i \in 0..0 |-> 1], 0)
    BY DEF Chain
  <2> QED
    BY <1>2, <2>1
<1>4. n - 1 \in Nat /\ n - 1 \notin Without
  BY <1>1, <1>2, <1>3
<1>5. PICK f : Chain(f, n - 1)
  BY <1>4 DEF Without
<1> DEFINE g == [i \in 0..n |-> IF i = n THEN DigestValues * f[n - 1] ELSE f[i]]
<1>6. n - 1 \in 0..(n - 1) /\ f[n - 1] \in Nat /\ DigestValues * f[n - 1] \in Nat
  <2>1. n - 1 \in 0..(n - 1) /\ f[n - 1] \in Nat
    BY <1>4, <1>5 DEF Chain
  <2> QED
    BY <2>1, DigestAssumption, Z3
<1>7. g \in [0..n -> Nat] /\ g[0] = 1
  BY <1>2, <1>3, <1>5, <1>6 DEF Chain
<1>8. ASSUME NEW i \in 1..n PROVE g[i] = DigestValues * g[i - 1]
  <2>1. CASE i = n
    BY <1>2, <1>6, <2>1
  <2>2. CASE i # n
    <3>1. i \in 1..(n - 1) /\ i \in 0..n /\ i - 1 \in 0..n /\ i - 1 # n
      BY <1>2, <2>2
    <3> QED
      BY <3>1, <1>5, <2>2 DEF Chain
  <2> QED
    BY <2>1, <2>2
<1>9. Chain(g, n)
  <2> HIDE DEF g
  <2> QED
    BY <1>7, <1>8 DEF Chain
<1> QED
  BY <1>2, <1>9

LEMMA ChainsAgree ==
  ASSUME NEW n \in Nat, NEW m \in Nat, NEW f, NEW g, Chain(f, n), Chain(g, m)
  PROVE  \A i \in 0..n : i \in 0..m => f[i] = g[i]
<1> DEFINE Differ == {i \in Nat : i \in 0..n /\ i \in 0..m /\ f[i] # g[i]}
<1> SUFFICES ASSUME Differ # {} PROVE FALSE
  OBVIOUS
<1> HIDE DEF Differ
<1>1. PICK x \in Differ : \A y \in Differ : x <= y
  BY Smallest DEF Differ
<1>2. x \in Nat /\ x \in 0..n /\ x \in 0..m /\ f[x] # g[x]
  BY <1>1 DEF Differ
<1>3. x # 0
  BY <1>2 DEF Chain
<1>4. x - 1 \in Nat /\ x - 1 \in 0..n /\ x - 1 \in 0..m /\ x \in 1..n /\ x \in 1..m /\ ~(x <= x - 1)
  BY <1>2, <1>3
<1>5. f[x - 1] = g[x - 1]
  BY <1>1, <1>4 DEF Differ
<1> QED
  BY <1>2, <1>4, <1>5 DEF Chain

Power == Digests!Power

LEMMA PowerIs ==
  Power = [n \in Nat |-> IF n = 0 THEN 1 ELSE DigestValues * Power[n - 1]]
<1> DEFINE chain(n) == CHOOSE f : Chain(f, n)
           F == [n \in Nat |-> chain(n)[n]]
<1>1. \A n \in Nat : Chain(chain(n), n)
  BY ChainExists
<1> HIDE DEF chain
<1>2. F[0] = 1
  BY <1>1 DEF Chain
<1>3. ASSUME NEW n \in Nat, n # 0 PROVE F[n] = DigestValues * F[n - 1]
  <2>1. n - 1 \in Nat /\ n \in 1..n /\ n - 1 \in 0..n /\ n - 1 \in 0..(n - 1)
    BY <1>3
  <2>2. chain(n)[n - 1] = chain(n - 1)[n - 1]
    BY <1>1, <2>1, ChainsAgree
  <2>3. chain(n)[n] = DigestValues * chain(n)[n - 1]
    BY <1>1, <2>1 DEF Chain
  <2> QED
    BY <2>1, <2>2, <2>3
<1>4. F = [n \in Nat |-> IF n = 0 THEN 1 ELSE DigestValues * F[n - 1]]
  <2>1. \A n \in Nat : F[n] = IF n = 0 THEN 1 ELSE DigestValues * F[n - 1]
    BY <1>2, <1>3
  <2>2. F = [n \in Nat |-> F[n]]
    OBVIOUS
  <2> HIDE DEF F
  <2> QED
    BY <2>1, <2>2
<1> HIDE DEF F
<1> QED
  BY <1>4 DEF Power, Digests!Power

LEMMA PowerStep ==
  /\ Power[0] = 1
  /\ \A n \in Nat : Power[n + 1] = DigestValues * Power[n]
<1>1. \A n \in Nat : n + 1 \in Nat /\ n + 1 # 0 /\ (n + 1) - 1 = n
  OBVIOUS
<1> QED
  BY <1>1, PowerIs, Zenon

LEMMA PowerType == \A n \in Nat : Power[n] \in Nat /\ Power[n] > 0
<1> DEFINE Bad == {n \in Nat : ~(Power[n] \in Nat /\ Power[n] > 0)}
<1> SUFFICES ASSUME Bad # {} PROVE FALSE
  OBVIOUS
<1> HIDE DEF Bad
<1>1. PICK n \in Bad : \A y \in Bad : n <= y
  BY Smallest DEF Bad
<1>2. n \in Nat /\ ~(Power[n] \in Nat /\ Power[n] > 0)
  BY <1>1 DEF Bad
<1>3. n # 0
  BY <1>2, PowerStep
<1>4. n - 1 \in Nat /\ (n - 1) + 1 = n /\ ~(n <= n - 1)
  BY <1>2, <1>3
<1>5. PICK p \in Nat : p > 0 /\ p = Power[n - 1]
  BY <1>1, <1>4 DEF Bad
<1>6. Power[n] = DigestValues * p
  BY <1>4, <1>5, PowerStep
<1>7. DigestValues * p \in Nat /\ DigestValues * p > 0
  BY DigestAssumption, <1>5, Z3
<1> QED
  BY <1>2, <1>6, <1>7

LEMMA PowerSum == \A a, b \in Nat : Power[a + b] = Power[a] * Power[b]
<1> SUFFICES ASSUME NEW a \in Nat PROVE \A b \in Nat : Power[a + b] = Power[a] * Power[b]
  OBVIOUS
<1> DEFINE Bad == {b \in Nat : Power[a + b] # Power[a] * Power[b]}
<1> SUFFICES ASSUME Bad # {} PROVE FALSE
  OBVIOUS
<1> HIDE DEF Bad
<1>1. PICK n \in Bad : \A y \in Bad : n <= y
  BY Smallest DEF Bad
<1>2. n \in Nat /\ Power[a + n] # Power[a] * Power[n]
  BY <1>1 DEF Bad
<1>3. n # 0
  <2>1. a + 0 = a /\ Power[a] \in Nat /\ Power[a] * 1 = Power[a]
    BY PowerType, DistributesOne
  <2> QED
    BY <1>2, <2>1, PowerStep
<1>4. n - 1 \in Nat /\ (n - 1) + 1 = n /\ ~(n <= n - 1) /\ a + (n - 1) \in Nat /\ (a + (n - 1)) + 1 = a + n
  BY <1>2, <1>3
<1>5. Power[a + (n - 1)] = Power[a] * Power[n - 1]
  BY <1>1, <1>4 DEF Bad
<1>6. Power[a + n] = DigestValues * Power[a + (n - 1)] /\ Power[n] = DigestValues * Power[n - 1]
  BY <1>4, PowerStep
<1>7. PICK p, q, v : p = Power[a] /\ q = Power[n - 1] /\ v = DigestValues
  OBVIOUS
<1>8. p \in Int /\ q \in Int /\ v \in Int
  BY <1>4, <1>7, PowerType, DigestAssumption
<1>9. v * (p * q) = p * (v * q)
  BY <1>8, Z3
<1> QED
  BY <1>2, <1>5, <1>6, <1>7, <1>9

-----------------------------------------------------------------------------
(* The bytes of a number: those of its words, one after the other. *)
Word == Digests!Word

LEMMA WordIs == Word \in Nat /\ Word > 0 /\ Word = Power[WordBytes] /\ WordBytes \in Nat /\ WordBytes > 0
BY PowerType, DigestAssumption DEF Word, Power, Digests!Word

LEMMA RemainderTwice ==
  ASSUME NEW a \in Nat, NEW b \in Nat, a > 0, b > 0, NEW x \in Nat
  PROVE  (x % (a * b)) % a = x % a
<1>1. a * b \in Nat /\ a * b > 0
  BY Z3
<1>2. PICK v \in Nat, r \in 0..((a * b) - 1) : r = x % (a * b) /\ x = (a * b) * v + r
  BY <1>1, DivisionOf
<1>0. r \in Nat
  BY <1>1
<1>3. PICK s \in Nat, t \in 0..(a - 1) : t = r % a /\ r = a * s + t
  BY <1>0, DivisionOf
<1>4. x = a * (b * v + s) + t
  <2>1. a * (b * v + s) = a * (b * v) + a * s /\ a * (b * v) = (a * b) * v /\ (a * b) * v \in Int /\ a * s \in Int
    BY <1>2, <1>3, Distributes
  <2>2. PICK g, h : g = (a * b) * v /\ h = a * s
    OBVIOUS
  <2>3. g \in Int /\ h \in Int /\ t \in Int
    BY <2>1, <2>2
  <2>4. a * (b * v + s) = g + h
    BY <2>1, <2>2
  <2>5. x = g + r /\ r = h + t
    BY <1>2, <1>3, <2>2, Zenon
  <2> QED
    BY <2>3, <2>4, <2>5
<1>5. b * v + s \in Int
  BY <1>2, <1>3, Distributes
<1>6. x % a = t
  BY <1>3, <1>4, <1>5, DivisionIs
<1> QED
  BY <1>2, <1>3, <1>6

LEMMA LowBytes ==
  ASSUME NEW x \in Nat, NEW j \in 0..(WordBytes - 1)
  PROVE  ((x % Word) \div Power[j]) % DigestValues = (x \div Power[j]) % DigestValues
<1>1. PICK rest \in Nat : WordBytes = j + (rest + 1)
  <2>1. (WordBytes - j) - 1 \in Nat /\ WordBytes = j + (((WordBytes - j) - 1) + 1)
    BY WordIs
  <2> QED
    BY <2>1
<1>2. PICK p, q, v : p = Power[j] /\ q = Power[rest] /\ v = DigestValues
  OBVIOUS
<1>3. p \in Nat /\ p > 0 /\ q \in Nat /\ q > 0 /\ v \in Nat /\ v > 0 /\ j \in Nat /\ rest + 1 \in Nat
  BY <1>1, <1>2, PowerType, DigestAssumption
<1>4. Word = p * (v * q)
  BY <1>1, <1>2, <1>3, WordIs, PowerSum, PowerStep
<1>5. v * q \in Nat /\ v * q > 0
  BY <1>3, Z3
<1>6. (x % (p * (v * q))) \div p = (x \div p) % (v * q)
  BY <1>3, <1>5, DivisionTwice
<1>7. ((x \div p) % (v * q)) % v = (x \div p) % v
  BY <1>3, DivisionOf, RemainderTwice
<1> QED
  BY <1>2, <1>4, <1>6, <1>7

LEMMA HighBytes ==
  ASSUME NEW x \in Nat, NEW j \in Nat
  PROVE  x \div Power[WordBytes + j] = (x \div Word) \div Power[j]
<1>1. Power[WordBytes + j] = Word * Power[j]
  BY WordIs, PowerSum
<1>2. Power[j] \in Nat /\ Power[j] > 0
  BY PowerType
<1> QED
  BY <1>1, <1>2, WordIs, DivisionTwice

LEMMA EncodedIsFunction ==
  ASSUME NEW x
  PROVE  /\ Digests!Encode(x) = [k \in 1..WordBytes |-> (x \div Power[k - 1]) % DigestValues]
         /\ Len(Digests!Encode(x)) = WordBytes
         /\ DOMAIN Digests!Encode(x) = 1..WordBytes
<1>1. Digests!Encode(x) = [k \in 1..WordBytes |-> (x \div Power[k - 1]) % DigestValues]
  BY DEF Digests!Encode, Power
<1> QED
  BY <1>1, WordIs

LEMMA EncodedWord ==
  ASSUME NEW x \in Nat PROVE Digests!Encode(x % Word) = Digests!Encode(x)
<1>1. \A k \in 1..WordBytes : k - 1 \in 0..(WordBytes - 1)
  BY WordIs
<1> QED
  BY <1>1, LowBytes, EncodedIsFunction

LEMMA TableIsSequence ==
  ASSUME NEW n \in Nat, NEW S, NEW f, DOMAIN f = 1..n, f = [k \in DOMAIN f |-> f[k]],
         \A k \in 1..n : f[k] \in S
  PROVE  f \in Seq(S) /\ Len(f) = n
<1>1. f \in [1..n -> S]
  OBVIOUS
<1> QED
  BY <1>1, SeqDef, LenProperties

\* A number of two words, the low one first.
LEMMA LengthIsItsWords ==
  ASSUME NEW x \in Nat
  PROVE  Digests!Encode(x) \o Digests!Encode(x \div Word) = Digests!LittleEndian(x)
<1>1. PICK low, high, all : /\ low = Digests!Encode(x) /\ high = Digests!Encode(x \div Word)
                            /\ all = Digests!LittleEndian(x)
  OBVIOUS
<1>2. /\ low = [k \in 1..WordBytes |-> (x \div Power[k - 1]) % DigestValues]
      /\ high = [k \in 1..WordBytes |-> ((x \div Word) \div Power[k - 1]) % DigestValues]
      /\ all = [k \in 1..(2 * WordBytes) |-> (x \div Power[k - 1]) % DigestValues]
  BY <1>1, EncodedIsFunction DEF Digests!LittleEndian, Digests!Field, Power
<1> DEFINE S == {low[k] : k \in 1..WordBytes} \cup {high[k] : k \in 1..WordBytes}
<1>3. \A k \in 1..WordBytes : low[k] \in S /\ high[k] \in S
  OBVIOUS
<1> HIDE DEF S
<1>4. low \in Seq(S) /\ high \in Seq(S) /\ Len(low) = WordBytes /\ Len(high) = WordBytes
  BY <1>2, <1>3, WordIs, TableIsSequence
<1>5. /\ low \o high \in Seq(S) /\ Len(low \o high) = WordBytes + WordBytes
      /\ \A i \in 1..(WordBytes + WordBytes) : (low \o high)[i] = IF i <= WordBytes THEN low[i] ELSE high[i - WordBytes]
  <2>1. /\ low \o high \in Seq(S) /\ Len(low \o high) = Len(low) + Len(high)
        /\ \A i \in 1..(Len(low) + Len(high)) : (low \o high)[i] = IF i <= Len(low) THEN low[i] ELSE high[i - Len(low)]
    BY <1>4, ConcatProperties
  <2> QED
    BY <1>4, <2>1
<1>6. ASSUME NEW i \in 1..(2 * WordBytes) PROVE (low \o high)[i] = all[i]
  <2>1. CASE i <= WordBytes
    BY <1>2, <1>5, <2>1, WordIs
  <2>2. CASE ~(i <= WordBytes)
    <3>1. i - WordBytes \in 1..WordBytes /\ (i - WordBytes) - 1 \in Nat /\ i \in 1..(WordBytes + WordBytes)
      BY <2>2, WordIs
    <3>2. WordBytes + ((i - WordBytes) - 1) = i - 1
      BY WordIs
    <3>3. (low \o high)[i] = ((x \div Word) \div Power[(i - WordBytes) - 1]) % DigestValues
      BY <1>2, <1>5, <2>2, <3>1
    <3>4. x \div Power[i - 1] = (x \div Word) \div Power[(i - WordBytes) - 1]
      BY <3>1, <3>2, HighBytes
    <3> QED
      BY <1>2, <3>3, <3>4
  <2> QED
    BY <2>1, <2>2
<1>7. low \o high = [i \in 1..(2 * WordBytes) |-> (low \o high)[i]]
  <2>1. WordBytes + WordBytes = 2 * WordBytes
    BY WordIs
  <2> QED
    BY <1>5, <2>1, LenProperties
<1> QED
  BY <1>1, <1>2, <1>6, <1>7

-----------------------------------------------------------------------------
(* A context holds a message: the whole blocks of it went through the rounds,
   the buffer begins with the rest, and the count is its length in bits. *)
BlockOf(s, k) == [p \in 1..Block |-> s[(k - 1) * Block + p]]

Holds(ctx, s) ==
  /\ ctx = [count |-> ctx.count, buffer |-> ctx.buffer, state |-> ctx.state]
  /\ ctx.count = <<(8 * Len(s)) % Word, ((8 * Len(s)) \div Word) % Word>>
  /\ \A p \in 1..(Len(s) % Block) : ctx.buffer[p] = s[Block * (Len(s) \div Block) + p]
  /\ ctx.state = [k \in 1..(Len(s) \div Block) |-> BlockOf(s, k)]

LEMMA BlockIs == Block \in Nat /\ Block > 0 /\ Digests!Field \in Nat /\ Digests!Field < Block
BY DigestAssumption DEF Digests!Field

LEMMA SumOfRemainders ==
  ASSUME NEW d \in Nat, d > 0, NEW x \in Nat, NEW y \in Nat PROVE ((x % d) + y) % d = (x + y) % d
<1>1. PICK q \in Nat, r \in 0..(d - 1) : r = x % d /\ x = d * q + r
  BY DivisionOf
<1>2. r + y \in Nat
  BY <1>1
<1>3. PICK p \in Nat, s \in 0..(d - 1) : s = (r + y) % d /\ r + y = d * p + s
  BY <1>2, DivisionOf
<1>4. d * (q + p) = d * q + d * p /\ d * q \in Int /\ d * p \in Int
  BY <1>1, <1>3, Distributes
<1>5. x + y = d * (q + p) + s /\ x + y \in Int /\ q + p \in Int
  BY <1>1, <1>3, <1>4
<1>6. (x + y) % d = s
  <2>1. PICK z, v : z = x + y /\ v = q + p
    OBVIOUS
  <2>2. z \in Int /\ v \in Int /\ z = d * v + s
    BY <1>5, <2>1
  <2>3. z % d = s
    BY <2>2, DivisionIs
  <2> QED
    BY <2>1, <2>3
<1> QED
  BY <1>1, <1>3, <1>6

Summed(d, x, y, a, b, q) ==
  /\ a + b < d => (x + y) % d = a + b /\ (x + y) \div d = q /\ (a + y) % d = a + b
  /\ ~(a + b < d) => (x + y) % d = a + b - d /\ (x + y) \div d = q + 1 /\ (a + y) % d = a + b - d

LEMMA SumOfDivisions ==
  ASSUME NEW d \in Nat, d > 0, NEW x \in Nat, NEW y \in Nat,
         NEW u \in Nat, NEW a \in 0..(d - 1), x = d * u + a,
         NEW w \in Nat, NEW b \in 0..(d - 1), y = d * w + b
  PROVE  Summed(d, x, y, a, b, u + w)
<1>1. /\ d * (u + w) = d * u + d * w /\ d * (u + (w + 1)) = d * u + d * (w + 1)
      /\ d * (w + 1) = d * w + d * 1 /\ d * 1 = d /\ d * u \in Int /\ d * w \in Int
  BY Distributes, DistributesOne
<1>2. PICK g, h : g = d * u /\ h = d * w
  OBVIOUS
<1>3. /\ g \in Int /\ h \in Int /\ x = g + a /\ y = h + b
      /\ d * (u + w) = g + h /\ d * (u + (w + 1)) = g + (h + d) /\ d * (w + 1) = h + d
  BY <1>1, <1>2
<1>4. CASE a + b < d
  <2>1. a + b \in 0..(d - 1) /\ x + y \in Int /\ a + y \in Int /\ u + w \in Int
    BY <1>4
  <2>2. x + y = d * (u + w) + (a + b)
    BY <1>3
  <2>3. a + y = d * w + (a + b)
    BY <1>2, <1>3
  <2>4. (x + y) % d = a + b /\ (x + y) \div d = u + w
    BY <2>1, <2>2, DivisionIs
  <2>5. (a + y) % d = a + b
    BY <2>1, <2>3, DivisionIs
  <2> QED
    BY <1>4, <2>4, <2>5 DEF Summed
<1>5. CASE ~(a + b < d)
  <2>1. a + b - d \in 0..(d - 1) /\ x + y \in Int /\ a + y \in Int /\ u + (w + 1) \in Int /\ w + 1 \in Int
    BY <1>5
  <2>2. x + y = d * (u + (w + 1)) + (a + b - d)
    BY <1>3
  <2>3. a + y = d * (w + 1) + (a + b - d)
    BY <1>3
  <2>4. (x + y) % d = a + b - d /\ (x + y) \div d = u + (w + 1)
    BY <2>1, <2>2, DivisionIs
  <2>5. (a + y) % d = a + b - d
    BY <2>1, <2>3, DivisionIs
  <2>6. u + (w + 1) = (u + w) + 1
    OBVIOUS
  <2> QED
    BY <1>5, <2>4, <2>5, <2>6 DEF Summed
<1> QED
  BY <1>4, <1>5

(* The carry of the count. *)
Carried(d, x, y, low, high) == low = (x + y) % d /\ high = ((x + y) \div d) % d

LEMMA CarryIs ==
  ASSUME NEW d \in Nat, d > 0, NEW x \in Nat, NEW y \in Nat,
         NEW low, low = ((x % d) + y) % d, NEW carry,
         low < y % d => carry = 1, ~(low < y % d) => carry = 0
  PROVE  Carried(d, x, y, low, (((x \div d) % d) + carry + (y \div d)) % d)
<1>1. PICK u \in Nat, a \in 0..(d - 1) : u = x \div d /\ a = x % d /\ x = d * u + a
  BY DivisionOf
<1>2. PICK w \in Nat, b \in 0..(d - 1) : w = y \div d /\ b = y % d /\ y = d * w + b
  BY DivisionOf
<1>3. Summed(d, x, y, a, b, u + w)
  <2>1. x = d * u + a /\ y = d * w + b
    BY <1>1, <1>2
  <2> QED
    BY <2>1, SumOfDivisions
<1>4. low = (a + y) % d /\ (low < b => carry = 1) /\ (~(low < b) => carry = 0)
  BY <1>1, <1>2
<1>5. low = (x + y) % d
  BY <1>3, <1>4 DEF Summed
<1>6. carry \in Nat /\ carry + w \in Nat /\ (x + y) \div d = u + (carry + w)
  BY <1>3, <1>4 DEF Summed
<1>7. u % d \in Nat /\ (u % d) + carry + w = (u % d) + (carry + w)
  <2>1. u % d \in 0..(d - 1)
    BY <1>1, DivisionOf
  <2> QED
    BY <1>6, <2>1
<1>8. ((u % d) + (carry + w)) % d = (u + (carry + w)) % d
  <2>1. PICK z \in Nat : z = carry + w
    BY <1>6
  <2>2. ((u % d) + z) % d = (u + z) % d
    BY SumOfRemainders
  <2> QED
    BY <2>1, <2>2
<1> QED
  BY <1>1, <1>2, <1>5, <1>6, <1>7, <1>8 DEF Carried

LEMMA CountedIs ==
  ASSUME NEW n \in Nat, NEW len \in Nat
  PROVE  Digests!Counted(<<(8 * n) % Word, ((8 * n) \div Word) % Word>>, len) =
           <<(8 * (n + len)) % Word, ((8 * (n + len)) \div Word) % Word>>
<1>1. PICK x \in Nat, y \in Nat : x = 8 * n /\ y = 8 * len /\ x + y = 8 * (n + len)
  OBVIOUS
<1>2. PICK low, carry : /\ low = ((x % Word) + y) % Word
                        /\ carry = IF low < y % Word THEN 1 ELSE 0
  OBVIOUS
<1>3. Digests!Counted(<<x % Word, (x \div Word) % Word>>, len)
        = <<low, (((x \div Word) % Word) + carry + (y \div Word)) % Word>>
  BY <1>1, <1>2 DEF Digests!Counted, Word
<1>4. Word \in Nat /\ Word > 0
  BY WordIs
<1>5. low = (x + y) % Word /\ (((x \div Word) % Word) + carry + (y \div Word)) % Word = ((x + y) \div Word) % Word
  <2>1. PICK d \in Nat : d = Word /\ d > 0
    BY <1>4
  <2>2. low = ((x % d) + y) % d /\ (low < y % d => carry = 1) /\ (~(low < y % d) => carry = 0)
    BY <1>2, <2>1
  <2>3. Carried(d, x, y, low, (((x \div d) % d) + carry + (y \div d)) % d)
    BY <2>1, <2>2, CarryIs
  <2> QED
    BY <2>1, <2>3 DEF Carried
<1> QED
  BY <1>1, <1>3, <1>5

(* The count says how much of the buffer is in use. *)
LEMMA IndexIs ==
  ASSUME NEW ctx, NEW s, Holds(ctx, s), Len(s) \in Nat PROVE Digests!Index(ctx) = Len(s) % Block
<1>1. PICK n \in Nat : n = Len(s)
  OBVIOUS
<1>2. PICK c \in 1..Word : Word = (8 * Block) * c
  BY DigestAssumption DEF Word
<1>3. c \in Nat /\ c > 0 /\ 8 * n \in Nat /\ Block * c \in Nat /\ Block * c > 0
  <2>1. c \in Nat /\ c > 0
    BY <1>2, WordIs
  <2>2. Block * c \in Nat /\ Block * c > 0
    BY <2>1, BlockIs, Z3
  <2> QED
    BY <2>1, <2>2
<1>4. Word = 8 * (Block * c)
  BY <1>2, <1>3, BlockIs, Distributes
<1>5. ((8 * n) % (8 * (Block * c))) \div 8 = ((8 * n) \div 8) % (Block * c)
  <2>1. PICK z \in Nat, e \in Nat, b \in Nat : z = 8 * n /\ e = Block * c /\ e > 0 /\ b = 8
    BY <1>3
  <2>2. b > 0 /\ e > 0
    BY <2>1
  <2>3. (z % (b * e)) \div b = (z \div b) % e
    BY <2>2, DivisionTwice
  <2> QED
    BY <2>1, <2>3
<1>6. (8 * n) \div 8 = n
  OBVIOUS
<1>7. (n % (Block * c)) % Block = n % Block
  BY <1>3, BlockIs, RemainderTwice
<1>8. Digests!Index(ctx) = (((8 * n) % Word) \div 8) % Block
  BY <1>1 DEF Holds, Digests!Index
<1> QED
  BY <1>1, <1>4, <1>5, <1>6, <1>7, <1>8

(* The same, with the number of whole blocks and the length of the rest. *)
HoldsAt(ctx, s, q, r) ==
  /\ ctx = [count |-> ctx.count, buffer |-> ctx.buffer, state |-> ctx.state]
  /\ ctx.count = <<(8 * Len(s)) % Word, ((8 * Len(s)) \div Word) % Word>>
  /\ q \in Nat /\ r \in 0..(Block - 1) /\ Len(s) = Block * q + r
  /\ \A p \in 1..r : ctx.buffer[p] = s[Block * q + p]
  /\ ctx.state = [k \in 1..q |-> BlockOf(s, k)]

LEMMA HoldsIsAt ==
  ASSUME NEW ctx, NEW s, Holds(ctx, s), Len(s) \in Nat
  PROVE  HoldsAt(ctx, s, Len(s) \div Block, Len(s) % Block)
<1>1. PICK n \in Nat : n = Len(s)
  OBVIOUS
<1>2. n \div Block \in Nat /\ n % Block \in 0..(Block - 1) /\ n = Block * (n \div Block) + (n % Block)
  BY BlockIs, DivisionOf
<1> QED
  BY <1>1, <1>2 DEF Holds, HoldsAt

LEMMA AtIsHolds ==
  ASSUME NEW ctx, NEW s, NEW q, NEW r, HoldsAt(ctx, s, q, r), Len(s) \in Nat PROVE Holds(ctx, s)
<1>1. q \in Nat /\ r \in 0..(Block - 1) /\ Len(s) = Block * q + r
  BY DEF HoldsAt
<1>2. PICK n \in Nat : n = Len(s)
  OBVIOUS
<1>3. n \in Int /\ q \in Int /\ n = Block * q + r
  BY <1>1, <1>2
<1>4. n \div Block = q /\ n % Block = r
  BY <1>1, <1>3, BlockIs, DivisionIs
<1> QED
  BY <1>2, <1>4 DEF Holds, HoldsAt

LEMMA JoinedIs ==
  ASSUME NEW S, NEW s \in Seq(S), NEW t \in Seq(S)
  PROVE  /\ s \o t \in Seq(S) /\ Len(s) \in Nat /\ Len(t) \in Nat /\ Len(s \o t) = Len(s) + Len(t)
         /\ \A i \in 1..Len(s) : (s \o t)[i] = s[i]
         /\ \A j \in 1..Len(t) : (s \o t)[Len(s) + j] = t[j]
<1>1. Len(s) \in Nat /\ Len(t) \in Nat
  BY LenProperties
<1>2. /\ s \o t \in Seq(S) /\ Len(s \o t) = Len(s) + Len(t)
      /\ \A i \in 1..(Len(s) + Len(t)) : (s \o t)[i] = IF i <= Len(s) THEN s[i] ELSE t[i - Len(s)]
  BY ConcatProperties
<1>3. \A i \in 1..Len(s) : i \in 1..(Len(s) + Len(t)) /\ i <= Len(s)
  BY <1>1
<1>4. \A j \in 1..Len(t) : Len(s) + j \in 1..(Len(s) + Len(t)) /\ ~(Len(s) + j <= Len(s)) /\ (Len(s) + j) - Len(s) = j
  BY <1>1
<1> QED
  BY <1>1, <1>2, <1>3, <1>4

LEMMA PartIs ==
  ASSUME NEW S, NEW s \in Seq(S), NEW a \in Int, NEW b \in Int, 1 <= a, b <= Len(s)
  PROVE  /\ SubSeq(s, a, b) \in Seq(S) /\ Len(SubSeq(s, a, b)) = IF a <= b THEN b - a + 1 ELSE 0
         /\ \A i \in 1..(b - a + 1) : SubSeq(s, a, b)[i] = s[a + i - 1]
<1>1. \A i \in a..b : s[i] \in S
  <2>1. Len(s) \in Nat /\ \A i \in a..b : i \in 1..Len(s)
    BY LenProperties
  <2> QED
    BY <2>1, ElementOfSeq
<1> QED
  BY <1>1, SubSeqProperties

(* The places of a block. *)
LEMMA PlacesOfBlock ==
  ASSUME NEW q \in Nat, NEW k \in 1..q
  PROVE  /\ (k - 1) * Block = Block * (k - 1) /\ (k - 1) * Block \in Nat
         /\ (k - 1) * Block + Block <= Block * q /\ Block * q \in Nat
<1>1. k - 1 \in Int /\ k \in Int /\ q \in Int /\ Block \in Int
  BY BlockIs
<1>2. (k - 1) * Block = Block * (k - 1) /\ Block * k <= Block * q /\ Block * 0 <= Block * (k - 1) /\ Block * 0 <= Block * q
  BY <1>1, BlockIs, Distributes, Increases
<1>3. Block * ((k - 1) + 1) = Block * (k - 1) + Block * 1 /\ Block * 1 = Block /\ Block * 0 = 0
  BY <1>1, BlockIs, Distributes, DistributesOne
<1>4. (k - 1) + 1 = k
  BY <1>1
<1>5. PICK x, y, z : x = Block * (k - 1) /\ y = Block * k /\ z = Block * q
  OBVIOUS
<1>6. x \in Int /\ y \in Int /\ z \in Int
  BY <1>1, <1>5, Distributes
<1>7. x >= 0 /\ y <= z /\ z >= 0 /\ y = x + Block
  BY <1>2, <1>3, <1>4, <1>5
<1> QED
  BY <1>2, <1>5, <1>6, <1>7, BlockIs

LEMMA BlockKept ==
  ASSUME NEW S, NEW s \in Seq(S), NEW t \in Seq(S), NEW q \in Nat, NEW k \in 1..q, Block * q <= Len(s)
  PROVE  BlockOf(s \o t, k) = BlockOf(s, k)
<1>1. ASSUME NEW p \in 1..Block PROVE (k - 1) * Block + p \in 1..Len(s)
  BY PlacesOfBlock, BlockIs, LenProperties
<1> QED
  BY <1>1, JoinedIs DEF BlockOf

Table(F, n) == F = [k \in 1..n |-> F[k]]
InThree(F, q, w) == [k \in 1..q |-> F[k]] \o (<<F[q + 1]>> \o [j \in 1..w |-> F[q + 1 + j]]) = F

LEMMA TablesJoin ==
  ASSUME NEW q \in Nat, NEW w \in Nat, NEW F, Table(F, q + 1 + w) PROVE InThree(F, q, w)
<1>0. PICK T, a, b, c : /\ T = {F[k] : k \in 1..(q + 1 + w)}
                       /\ a = [k \in 1..q |-> F[k]]
                       /\ b = <<F[q + 1]>>
                       /\ c = [j \in 1..w |-> F[q + 1 + j]]
  OBVIOUS
<1>1. \A k \in 1..(q + 1 + w) : F[k] \in T
  BY <1>0
<1>2. a \in Seq(T) /\ Len(a) = q /\ \A k \in 1..q : a[k] = F[k]
  <2>1. \A k \in 1..q : k \in 1..(q + 1 + w)
    OBVIOUS
  <2>2. /\ DOMAIN a = 1..q /\ a = [k \in DOMAIN a |-> a[k]]
        /\ \A k \in 1..q : a[k] = F[k]
    BY <1>0
  <2>3. \A k \in 1..q : a[k] \in T
    BY <1>1, <2>1, <2>2
  <2> QED
    BY <2>2, <2>3, TableIsSequence
<1>3. b \in Seq(T) /\ Len(b) = 1 /\ b[1] = F[q + 1]
  <2>1. q + 1 \in 1..(q + 1 + w)
    OBVIOUS
  <2> QED
    BY <1>0, <1>1, <2>1
<1>4. c \in Seq(T) /\ Len(c) = w /\ \A j \in 1..w : c[j] = F[q + 1 + j]
  <2>1. \A j \in 1..w : q + 1 + j \in 1..(q + 1 + w)
    OBVIOUS
  <2>2. /\ DOMAIN c = 1..w /\ c = [j \in DOMAIN c |-> c[j]]
        /\ \A j \in 1..w : c[j] = F[q + 1 + j]
    BY <1>0
  <2>3. \A j \in 1..w : c[j] \in T
    BY <1>1, <2>1, <2>2
  <2> QED
    BY <2>2, <2>3, TableIsSequence
<1>5. PICK d : /\ d = b \o c /\ d \in Seq(T) /\ Len(d) = 1 + w /\ d[1] = F[q + 1]
               /\ \A j \in 1..w : d[1 + j] = F[q + 1 + j]
  <2>0. b \in Seq(T) /\ c \in Seq(T)
    BY <1>3, <1>4
  <2>1. /\ b \o c \in Seq(T) /\ Len(b \o c) = Len(b) + Len(c)
        /\ \A i \in 1..Len(b) : (b \o c)[i] = b[i]
        /\ \A j \in 1..Len(c) : (b \o c)[Len(b) + j] = c[j]
    BY <2>0, JoinedIs
  <2>2. PICK m, n : m = Len(b) /\ n = Len(c)
    OBVIOUS
  <2>3. m = 1 /\ n = w
    BY <1>3, <1>4, <2>2
  <2>4. PICK g : g = b \o c
    OBVIOUS
  <2>5. g \in Seq(T) /\ Len(g) = m + n /\ (\A i \in 1..m : g[i] = b[i]) /\ \A j \in 1..n : g[m + j] = c[j]
    BY <2>1, <2>2, <2>4
  <2>6. g \in Seq(T) /\ Len(g) = 1 + w /\ (\A i \in 1..1 : g[i] = b[i]) /\ \A j \in 1..w : g[1 + j] = c[j]
    BY <2>3, <2>5
  <2>7. 1 \in 1..1
    OBVIOUS
  <2>8. g[1] = F[q + 1]
    BY <1>3, <2>6, <2>7
  <2>9. \A j \in 1..w : g[1 + j] = F[q + 1 + j]
    BY <1>4, <2>6
  <2> QED
    BY <2>4, <2>6, <2>8, <2>9
<1>6. PICK e : /\ e = a \o d /\ e \in Seq(T) /\ Len(e) = q + (1 + w)
               /\ \A k \in 1..q : e[k] = F[k]
               /\ \A j \in 1..(1 + w) : e[q + j] = d[j]
  <2>0. a \in Seq(T) /\ d \in Seq(T)
    BY <1>2, <1>5
  <2>1. /\ a \o d \in Seq(T) /\ Len(a \o d) = Len(a) + Len(d)
        /\ \A i \in 1..Len(a) : (a \o d)[i] = a[i]
        /\ \A j \in 1..Len(d) : (a \o d)[Len(a) + j] = d[j]
    BY <2>0, JoinedIs
  <2>2. PICK m, n : m = Len(a) /\ n = Len(d)
    OBVIOUS
  <2>3. m = q /\ n = 1 + w
    BY <1>2, <1>5, <2>2
  <2>4. PICK g : g = a \o d
    OBVIOUS
  <2>5. g \in Seq(T) /\ Len(g) = m + n /\ (\A i \in 1..m : g[i] = a[i]) /\ \A j \in 1..n : g[m + j] = d[j]
    BY <2>1, <2>2, <2>4
  <2>6. g \in Seq(T) /\ Len(g) = q + (1 + w) /\ (\A i \in 1..q : g[i] = a[i]) /\ \A j \in 1..(1 + w) : g[q + j] = d[j]
    BY <2>3, <2>5
  <2>7. \A k \in 1..q : g[k] = F[k]
    BY <1>2, <2>6
  <2> QED
    BY <2>4, <2>6, <2>7
<1>7. ASSUME NEW k \in 1..(q + 1 + w) PROVE e[k] = F[k]
  <2>1. CASE k <= q
    <3>1. k \in 1..q
      BY <2>1
    <3> QED
      BY <1>6, <3>1
  <2>2. CASE k = q + 1
    <3>1. 1 \in 1..(1 + w)
      OBVIOUS
    <3> QED
      BY <1>5, <1>6, <2>2, <3>1
  <2>3. CASE k > q + 1
    <3>1. k - (q + 1) \in 1..w /\ 1 + (k - (q + 1)) \in 1..(1 + w)
      BY <2>3
    <3>2. q + (1 + (k - (q + 1))) = k /\ q + 1 + (k - (q + 1)) = k
      OBVIOUS
    <3>3. e[q + (1 + (k - (q + 1)))] = d[1 + (k - (q + 1))] /\ d[1 + (k - (q + 1))] = F[q + 1 + (k - (q + 1))]
      BY <1>5, <1>6, <3>1
    <3> QED
      BY <3>2, <3>3
  <2>4. k <= q \/ k = q + 1 \/ k > q + 1
    OBVIOUS
  <2> QED
    BY <2>1, <2>2, <2>3, <2>4
<1>8. q + (1 + w) = q + 1 + w
  OBVIOUS
<1>9. e = [k \in 1..(q + 1 + w) |-> e[k]]
  BY <1>6, <1>8, LenProperties
<1>10. e = F
  BY <1>7, <1>9 DEF Table
<1> QED
  BY <1>0, <1>5, <1>6, <1>10 DEF InThree

(* MD5__Update, step by step. *)
Filled(ctx, r, input) == Digests!Copied(ctx.buffer, r, SubSeq(input, 1, Block - r))
Whole(r, input) == (Len(input) - (Block - r)) \div Block
Done(r, input) == (Block - r) + Whole(r, input) * Block
Others(r, input) ==
  [k \in 1..Whole(r, input) |->
     SubSeq(input, (Block - r) + (k - 1) * Block + 1, (Block - r) + k * Block)]

LEMMA UpdateParts ==
  ASSUME NEW ctx, NEW input
  PROVE  /\ Len(input) >= Block - Digests!Index(ctx) =>
              Digests!Update(ctx, input) =
                [count |-> Digests!Counted(ctx.count, Len(input)),
                 buffer |-> Digests!Copied(Filled(ctx, Digests!Index(ctx), input), 0,
                              SubSeq(input, Done(Digests!Index(ctx), input) + 1, Len(input))),
                 state |-> ctx.state \o (<<Filled(ctx, Digests!Index(ctx), input)>>
                                           \o Others(Digests!Index(ctx), input))]
         /\ ~(Len(input) >= Block - Digests!Index(ctx)) =>
              Digests!Update(ctx, input) =
                [ctx EXCEPT !.count = Digests!Counted(ctx.count, Len(input)),
                            !.buffer = Digests!Copied(ctx.buffer, Digests!Index(ctx), input)]
BY DEF Digests!Update, Digests!Transform, Filled, Whole, Done, Others

LEMMA CopiedKeeps ==
  ASSUME NEW buffer, NEW index \in Nat, NEW input, NEW p \in 1..Block, Len(input) \in Nat, p <= index
  PROVE  Digests!Copied(buffer, index, input)[p] = buffer[p]
BY BlockIs DEF Digests!Copied

LEMMA CopiedTakes ==
  ASSUME NEW buffer, NEW index \in Nat, NEW input, NEW p \in 1..Block, Len(input) \in Nat,
         index < p, p <= index + Len(input)
  PROVE  Digests!Copied(buffer, index, input)[p] = input[p - index]
<1>1. p \in index + 1 .. index + Len(input)
  BY BlockIs
<1> QED
  BY <1>1 DEF Digests!Copied

LEMMA ShortUpdate ==
  ASSUME NEW S, NEW ctx, NEW s \in Seq(S), NEW input \in Seq(S), NEW q, NEW r,
         HoldsAt(ctx, s, q, r), Digests!Index(ctx) = r, Len(input) < Block - r
  PROVE  HoldsAt(Digests!Update(ctx, input), s \o input, q, r + Len(input))
<1>1. PICK n, l, new : n = Len(s) /\ l = Len(input) /\ new = Digests!Update(ctx, input)
  OBVIOUS
<1>2. /\ n \in Nat /\ l \in Nat /\ q \in Nat /\ r \in 0..(Block - 1) /\ n = Block * q + r /\ l < Block - r
      /\ ~(l >= Block - r)
  <2>1. q \in Nat /\ r \in 0..(Block - 1) /\ n = Block * q + r
    BY <1>1 DEF HoldsAt
  <2>2. n \in Nat /\ l \in Nat /\ l < Block - r
    BY <1>1, LenProperties
  <2>3. \A x \in Nat : x < Block - r => ~(x >= Block - r)
    BY <2>1, BlockIs
  <2> QED
    BY <2>1, <2>2, <2>3
<1>3. new = [ctx EXCEPT !.count = Digests!Counted(ctx.count, l), !.buffer = Digests!Copied(ctx.buffer, r, input)]
  BY <1>1, <1>2, UpdateParts, Zenon
<1>4. /\ new = [count |-> new.count, buffer |-> new.buffer, state |-> new.state]
      /\ new.count = Digests!Counted(ctx.count, l) /\ new.buffer = Digests!Copied(ctx.buffer, r, input)
      /\ new.state = ctx.state
  BY <1>3 DEF HoldsAt
<1>5. PICK whole, m : /\ whole = s \o input /\ m = Len(whole) /\ whole \in Seq(S) /\ m = n + l
                      /\ \A i \in 1..n : whole[i] = s[i]
                      /\ \A j \in 1..l : whole[n + j] = input[j]
  <2>1. /\ s \o input \in Seq(S) /\ Len(s \o input) = Len(s) + Len(input)
        /\ \A i \in 1..Len(s) : (s \o input)[i] = s[i]
        /\ \A j \in 1..Len(input) : (s \o input)[Len(s) + j] = input[j]
    BY JoinedIs
  <2> QED
    BY <1>1, <2>1
<1>6. PICK b \in Nat : b = Block * q
  BY <1>2, BlockIs, Distributes, PlacesOfBlock
<1>7. new.count = <<(8 * m) % Word, ((8 * m) \div Word) % Word>>
  BY <1>1, <1>2, <1>4, <1>5, CountedIs DEF HoldsAt
<1>8. r + l \in 0..(Block - 1) /\ m = Block * q + (r + l)
  <2>1. r + l \in 0..(Block - 1)
    BY <1>2, BlockIs
  <2>2. m = b + (r + l)
    BY <1>2, <1>5, <1>6
  <2> QED
    BY <1>6, <2>1, <2>2
<1>9. ASSUME NEW p \in 1..(r + l) PROVE new.buffer[p] = whole[Block * q + p]
  <2>0. r \in Nat /\ p \in 1..Block /\ b + p \in Nat
    BY <1>2, <1>6, <1>8, BlockIs
  <2>1. CASE p <= r
    <3>1. new.buffer[p] = ctx.buffer[p]
      BY <1>1, <1>2, <1>4, <2>0, <2>1, CopiedKeeps
    <3>2. p \in 1..r /\ b + p \in 1..n
      BY <1>2, <1>6, <2>1
    <3> QED
      BY <1>5, <1>6, <3>1, <3>2 DEF HoldsAt
  <2>2. CASE ~(p <= r)
    <3>1. p - r \in 1..l /\ n + (p - r) = b + p
      BY <1>2, <1>6, <2>2
    <3>2. new.buffer[p] = input[p - r]
      <4>1. r < p /\ p <= r + Len(input) /\ Len(input) \in Nat
        BY <1>1, <1>2, <2>0, <2>2
      <4>2. Digests!Copied(ctx.buffer, r, input)[p] = input[p - r]
        BY <2>0, <4>1, CopiedTakes
      <4> QED
        BY <1>4, <4>2
    <3> QED
      BY <1>5, <1>6, <3>1, <3>2
  <2> QED
    BY <2>1, <2>2
<1>10. new.state = [k \in 1..q |-> BlockOf(whole, k)]
  <2>1. \A k \in 1..q : BlockOf(whole, k) = BlockOf(s, k)
    <3>1. Block * q <= Len(s)
      BY <1>1, <1>2, <1>6
    <3> QED
      BY <1>2, <1>5, <3>1, BlockKept
  <2>2. ctx.state = [k \in 1..q |-> BlockOf(s, k)]
    BY DEF HoldsAt
  <2> QED
    BY <1>4, <2>1, <2>2
<1>11. HoldsAt(new, whole, q, r + l)
  BY <1>2, <1>4, <1>5, <1>7, <1>8, <1>9, <1>10 DEF HoldsAt
<1> QED
  BY <1>1, <1>5, <1>11

LEMMA LongUpdate ==
  ASSUME NEW S, NEW ctx, NEW s \in Seq(S), NEW input \in Seq(S), NEW q, NEW r,
         HoldsAt(ctx, s, q, r), Digests!Index(ctx) = r, Len(input) >= Block - r
  PROVE  \E u, t : HoldsAt(Digests!Update(ctx, input), s \o input, u, t)
<1>1. PICK n, l, new, whole, m : /\ n = Len(s) /\ l = Len(input) /\ new = Digests!Update(ctx, input)
                                 /\ whole = s \o input /\ m = Len(whole)
  OBVIOUS
<1>2. n \in Nat /\ l \in Nat /\ q \in Nat /\ r \in 0..(Block - 1) /\ n = Block * q + r /\ l >= Block - r
  <2>1. q \in Nat /\ r \in 0..(Block - 1) /\ n = Block * q + r
    BY <1>1 DEF HoldsAt
  <2>2. n \in Nat /\ l \in Nat /\ l >= Block - r
    BY <1>1, LenProperties
  <2> QED
    BY <2>1, <2>2
<1>3. PICK part \in Nat : part = Block - r /\ part > 0 /\ part <= l
  <2>1. Block - r \in Nat /\ Block - r > 0
    BY <1>2, BlockIs
  <2> QED
    BY <1>2, <2>1
<1>4. PICK w \in Nat, t \in 0..(Block - 1) : w = (l - part) \div Block /\ l - part = Block * w + t
  <2>1. PICK g \in Nat : g = l - part
    <3>1. l - part \in Nat
      BY <1>2, <1>3
    <3> QED
      BY <3>1
  <2>2. g \div Block \in Nat /\ g % Block \in 0..(Block - 1) /\ g = Block * (g \div Block) + (g % Block)
    BY BlockIs, DivisionOf
  <2> QED
    BY <2>1, <2>2
<1>5. PICK b \in Nat, c \in Nat : b = Block * q /\ c = Block * w /\ w * Block = c
  <2>1. Block * q \in Nat /\ Block * w \in Nat /\ w * Block = Block * w
    BY <1>2, <1>4, BlockIs, Z3
  <2> QED
    BY <2>1
<1>6. n = b + r /\ l = part + (c + t) /\ r \in Nat /\ t \in Nat /\ r + part = Block
  <2>1. l - part = c + t /\ n = b + r
    BY <1>2, <1>4, <1>5
  <2> QED
    BY <2>1, <1>2, <1>3, <1>4, BlockIs
<1>7. /\ whole \in Seq(S) /\ m = n + l
      /\ \A i \in 1..n : whole[i] = s[i]
      /\ \A j \in 1..l : whole[n + j] = input[j]
  <2>1. /\ s \o input \in Seq(S) /\ Len(s \o input) = Len(s) + Len(input)
        /\ \A i \in 1..Len(s) : (s \o input)[i] = s[i]
        /\ \A j \in 1..Len(input) : (s \o input)[Len(s) + j] = input[j]
    BY JoinedIs
  <2> QED
    BY <1>1, <2>1
<1>8. Whole(r, input) = w /\ Done(r, input) = part + c
  BY <1>1, <1>3, <1>4, <1>5 DEF Whole, Done
<1>9. PICK first, others, rest : /\ first = Filled(ctx, r, input) /\ others = Others(r, input)
                                 /\ rest = SubSeq(input, (part + c) + 1, l)
  OBVIOUS
<1>10. /\ new = [count |-> new.count, buffer |-> new.buffer, state |-> new.state]
       /\ new.count = Digests!Counted(ctx.count, l)
       /\ new.buffer = Digests!Copied(first, 0, rest)
       /\ new.state = ctx.state \o (<<first>> \o others)
  <2>1. new = [count |-> Digests!Counted(ctx.count, l), buffer |-> Digests!Copied(first, 0, rest),
               state |-> ctx.state \o (<<first>> \o others)]
    <3>1. Len(input) >= Block - Digests!Index(ctx)
      OBVIOUS
    <3>2. Digests!Update(ctx, input) =
            [count |-> Digests!Counted(ctx.count, Len(input)),
             buffer |-> Digests!Copied(Filled(ctx, Digests!Index(ctx), input), 0,
                          SubSeq(input, Done(Digests!Index(ctx), input) + 1, Len(input))),
             state |-> ctx.state \o (<<Filled(ctx, Digests!Index(ctx), input)>>
                                       \o Others(Digests!Index(ctx), input))]
      BY <3>1, UpdateParts, Zenon
    <3> QED
      BY <1>1, <1>8, <1>9, <3>2, Zenon
  <2> QED
    BY <2>1
<1>11. /\ (q + 1 + w) \in Nat /\ t \in 0..(Block - 1) /\ m = Block * (q + 1 + w) + t
       /\ Block * (q + 1 + w) = b + Block + c
  <2>1. Block * ((q + 1) + w) = Block * (q + 1) + Block * w /\ Block * (q + 1) = Block * q + Block * 1 /\ Block * 1 = Block
    BY <1>2, <1>4, BlockIs, Distributes, DistributesOne
  <2>2. Block * (q + 1 + w) = b + Block + c
    BY <1>5, <2>1
  <2>3. m = (b + Block + c) + t
    BY <1>6, <1>7, BlockIs
  <2> QED
    BY <1>2, <1>4, <2>2, <2>3
<1>12. new.count = <<(8 * m) % Word, ((8 * m) \div Word) % Word>>
  BY <1>1, <1>2, <1>10, <1>7, CountedIs DEF HoldsAt
<1>13. first = BlockOf(whole, q + 1)
  <2>1. PICK begin : begin = SubSeq(input, 1, part)
    OBVIOUS
  <2>2. begin \in Seq(S) /\ Len(begin) = part /\ \A i \in 1..part : begin[i] = input[i]
    <3>1. 1 <= 1 /\ part <= Len(input) /\ 1 <= part /\ (part - 1) + 1 = part /\ \A i \in Int : 1 + i - 1 = i
      BY <1>1, <1>3
    <3>2. /\ SubSeq(input, 1, part) \in Seq(S)
          /\ Len(SubSeq(input, 1, part)) = IF 1 <= part THEN part - 1 + 1 ELSE 0
          /\ \A i \in 1..(part - 1 + 1) : SubSeq(input, 1, part)[i] = input[1 + i - 1]
      BY <3>1, PartIs
    <3> QED
      BY <2>1, <3>1, <3>2
  <2>3. first = Digests!Copied(ctx.buffer, r, begin)
    BY <1>3, <1>9, <2>1 DEF Filled
  <2>4. ASSUME NEW p \in 1..Block PROVE first[p] = whole[b + p]
    <3>1. CASE p <= r
      <4>1. p \in 1..r /\ b + p \in 1..n
        BY <1>6, <3>1
      <4>2. first[p] = ctx.buffer[p]
        BY <1>6, <2>2, <2>3, <3>1, CopiedKeeps
      <4> QED
        BY <1>5, <1>7, <4>1, <4>2 DEF HoldsAt
    <3>2. CASE ~(p <= r)
      <4>1. r < p /\ p <= r + Len(begin) /\ Len(begin) \in Nat /\ p - r \in 1..part /\ p - r \in 1..l /\ n + (p - r) = b + p
        BY <1>3, <1>6, <2>2, <3>2
      <4>2. first[p] = begin[p - r]
        <5>1. Digests!Copied(ctx.buffer, r, begin)[p] = begin[p - r]
          BY <1>6, <4>1, CopiedTakes
        <5> QED
          BY <2>3, <5>1
      <4> QED
        BY <1>7, <2>2, <4>1, <4>2
    <3> QED
      BY <3>1, <3>2
  <2>5. first = [p \in 1..Block |-> first[p]]
    BY <2>3 DEF Digests!Copied
  <2>6. ((q + 1) - 1) * Block = b
    <3>1. (q + 1) - 1 = q /\ q * Block = Block * q
      BY <1>2, BlockIs, Distributes
    <3> QED
      BY <1>5, <3>1
  <2>7. BlockOf(whole, q + 1) = [p \in 1..Block |-> whole[b + p]]
    BY <2>6 DEF BlockOf
  <2> QED
    BY <2>4, <2>5, <2>7
<1>14. others = [j \in 1..w |-> BlockOf(whole, q + 1 + j)]
  <2>1. others = [k \in 1..w |-> SubSeq(input, part + (k - 1) * Block + 1, part + k * Block)]
    BY <1>3, <1>8, <1>9 DEF Others
  <2>2. ASSUME NEW k \in 1..w
        PROVE  SubSeq(input, part + (k - 1) * Block + 1, part + k * Block) = BlockOf(whole, q + 1 + k)
    <3>1. PICK x \in Nat : x = (k - 1) * Block /\ k * Block = x + Block /\ x + Block <= c
      <4>1. (k - 1) * Block \in Nat /\ (k - 1) * Block + Block <= Block * w
        BY <1>4, PlacesOfBlock
      <4>2. k * Block = (k - 1) * Block + Block
        <5>1. Block * ((k - 1) + 1) = Block * (k - 1) + Block * 1 /\ Block * 1 = Block /\ Block * (k - 1) = (k - 1) * Block
          BY BlockIs, Distributes, DistributesOne
        <5>2. Block * k = k * Block /\ (k - 1) + 1 = k
          BY BlockIs, Distributes
        <5> QED
          BY <5>1, <5>2
      <4> QED
        BY <1>5, <4>1, <4>2
    <3>2. PICK f, i, j : f = SubSeq(input, i, j) /\ i = part + x + 1 /\ j = part + (x + Block)
      OBVIOUS
    <3>3. i \in Int /\ j \in Int /\ 1 <= i /\ j <= Len(input) /\ i <= j /\ j - i + 1 = Block /\ \A p \in Int : i + p - 1 = part + (x + p)
      <4>1. i \in Int /\ j \in Int /\ 1 <= i /\ i <= j /\ j - i + 1 = Block
        <5>1. x \in Nat /\ part \in Nat
          BY <1>3, <3>1
        <5> QED
          BY <5>1, <3>2, BlockIs
      <4>2. j <= Len(input)
        BY <1>1, <1>3, <1>6, <3>1, <3>2, BlockIs
      <4>3. \A p \in Int : i + p - 1 = part + (x + p)
        <5>1. x \in Int /\ part \in Int /\ i = part + x + 1
          BY <1>3, <3>1, <3>2
        <5>2. ASSUME NEW p \in Int PROVE i + p - 1 = part + (x + p)
          BY <5>1
        <5> QED
          BY <5>2
      <4> QED
        BY <4>1, <4>2, <4>3
    <3>4. f \in Seq(S) /\ Len(f) = Block /\ \A p \in 1..Block : f[p] = input[part + (x + p)]
      <4>1. /\ SubSeq(input, i, j) \in Seq(S) /\ Len(SubSeq(input, i, j)) = IF i <= j THEN j - i + 1 ELSE 0
            /\ \A p \in 1..(j - i + 1) : SubSeq(input, i, j)[p] = input[i + p - 1]
        BY <3>3, PartIs
      <4> QED
        BY <3>2, <3>3, <4>1
    <3>5. ((q + 1 + k) - 1) * Block = b + (Block + x)
      <4>1. (q + 1 + k) - 1 = q + (1 + (k - 1))
        BY <1>2
      <4>2. Block * (q + (1 + (k - 1))) = Block * q + Block * (1 + (k - 1)) /\ Block * (1 + (k - 1)) = Block * 1 + Block * (k - 1)
            /\ Block * 1 = Block /\ Block * (k - 1) = (k - 1) * Block
            /\ Block * (q + (1 + (k - 1))) = (q + (1 + (k - 1))) * Block
        BY <1>2, BlockIs, Distributes, DistributesOne
      <4> QED
        BY <1>5, <3>1, <4>1, <4>2
    <3>6. ASSUME NEW p \in 1..Block PROVE f[p] = whole[(b + (Block + x)) + p]
      <4>1. part + (x + p) \in 1..l /\ n + (part + (x + p)) = (b + (Block + x)) + p
        BY <1>3, <1>6, <3>1, BlockIs
      <4> QED
        BY <1>7, <3>4, <4>1
    <3>7. f = [p \in 1..Block |-> f[p]]
      BY <3>4, LenProperties
    <3>8. BlockOf(whole, q + 1 + k) = [p \in 1..Block |-> whole[(b + (Block + x)) + p]]
      BY <3>5 DEF BlockOf
    <3> QED
      BY <3>1, <3>2, <3>6, <3>7, <3>8
  <2> QED
    BY <2>1, <2>2
<1>15. new.state = [k \in 1..(q + 1 + w) |-> BlockOf(whole, k)]
  <2>1. \A k \in 1..q : BlockOf(whole, k) = BlockOf(s, k)
    <3>1. Block * q <= Len(s)
      BY <1>1, <1>5, <1>6
    <3> QED
      BY <1>1, <1>2, <3>1, BlockKept
  <2>2. ctx.state = [k \in 1..q |-> BlockOf(s, k)]
    BY DEF HoldsAt
  <2>3. PICK F : F = [k \in 1..(q + 1 + w) |-> BlockOf(whole, k)]
    OBVIOUS
  <2>4. q + 1 \in 1..(q + 1 + w) /\ (\A k \in 1..q : k \in 1..(q + 1 + w)) /\ \A j \in 1..w : q + 1 + j \in 1..(q + 1 + w)
    BY <1>2, <1>4
  <2>5. ctx.state = [k \in 1..q |-> F[k]]
    BY <2>1, <2>2, <2>3, <2>4
  <2>6. first = F[q + 1]
    BY <1>13, <2>3, <2>4
  <2>7. others = [j \in 1..w |-> F[q + 1 + j]]
    BY <1>14, <2>3, <2>4
  <2>8. Table(F, q + 1 + w)
    BY <2>3 DEF Table
  <2>9. InThree(F, q, w)
    <3>1. q \in Nat /\ w \in Nat
      BY <1>2, <1>4
    <3> QED
      BY <3>1, <2>8, TablesJoin
  <2> QED
    BY <1>10, <2>3, <2>5, <2>6, <2>7, <2>9 DEF InThree
<1>16. ASSUME NEW p \in 1..t PROVE new.buffer[p] = whole[Block * (q + 1 + w) + p]
  <2>1. PICK i : i = (part + c) + 1
    OBVIOUS
  <2>2. i \in Int /\ l \in Int /\ 1 <= i /\ l <= Len(input) /\ i <= l /\ l - i + 1 = t /\ i + p - 1 = (part + c) + p
    <3>1. i \in Int /\ l \in Int /\ 1 <= i /\ i + p - 1 = (part + c) + p
      <4>1. l \in Nat /\ c \in Nat /\ p \in Nat
        BY <1>2, <1>5
      <4> QED
        BY <4>1, <1>3, <2>1
    <3>2. l - i + 1 = t /\ i <= l
      <4>1. l = part + (c + t) /\ c \in Nat /\ t \in Nat /\ t >= 1
        BY <1>5, <1>6
      <4> QED
        BY <4>1, <1>3, <2>1
    <3> QED
      BY <1>1, <3>1, <3>2
  <2>3. Len(rest) = t /\ rest[p] = input[(part + c) + p]
    <3>1. /\ Len(SubSeq(input, i, l)) = IF i <= l THEN l - i + 1 ELSE 0
          /\ \A k \in 1..(l - i + 1) : SubSeq(input, i, l)[k] = input[i + k - 1]
      BY <2>2, PartIs
    <3> QED
      BY <1>9, <2>1, <2>2, <3>1
  <2>4. p \in 1..Block /\ 0 < p /\ p <= 0 + Len(rest) /\ Len(rest) \in Nat /\ p - 0 = p /\ 0 \in Nat
    BY <1>6, <2>3, BlockIs
  <2>5. Digests!Copied(first, 0, rest)[p] = rest[p - 0]
    BY <2>4, CopiedTakes
  <2>6. (part + c) + p \in 1..l /\ n + ((part + c) + p) = (b + Block + c) + p
    BY <1>3, <1>6, BlockIs
  <2> QED
    BY <1>7, <1>10, <1>11, <2>3, <2>4, <2>5, <2>6
<1>17. HoldsAt(new, whole, q + 1 + w, t)
  BY <1>1, <1>10, <1>11, <1>12, <1>15, <1>16 DEF HoldsAt
<1> QED
  BY <1>1, <1>17

LEMMA UpdateHolds ==
  ASSUME NEW S, NEW ctx, NEW s \in Seq(S), NEW input \in Seq(S), Holds(ctx, s)
  PROVE  Holds(Digests!Update(ctx, input), s \o input)
<1>1. PICK q, r : q = Len(s) \div Block /\ r = Len(s) % Block
  OBVIOUS
<1>2. HoldsAt(ctx, s, q, r) /\ Digests!Index(ctx) = r /\ Len(s) \in Nat
  BY <1>1, HoldsIsAt, IndexIs, LenProperties
<1>3. Len(input) \in Nat /\ r \in Int /\ (Len(input) < Block - r \/ Len(input) >= Block - r)
  <2>1. r \in 0..(Block - 1)
    BY <1>2 DEF HoldsAt
  <2> QED
    BY <2>1, BlockIs, LenProperties
<1>4. Len(s \o input) \in Nat
  <2>1. s \o input \in Seq(S)
    BY JoinedIs
  <2> QED
    BY <2>1, LenProperties
<1>5. \E u, t : HoldsAt(Digests!Update(ctx, input), s \o input, u, t)
  BY <1>2, <1>3, ShortUpdate, LongUpdate
<1> QED
  BY <1>4, <1>5, AtIsHolds

-----------------------------------------------------------------------------
(* The padding: the least number of zeros there is, and the only one. *)
LEMMA PadLenIs ==
  ASSUME NEW n \in Nat
  PROVE  \E z \in 0..(Block - 1), u \in Nat :
           /\ Digests!PadLen(n % Block) = z + 1
           /\ n + 1 + z + Digests!Field = Block * u
           /\ Digests!ActLen(n) = Block * u
<1>1. PICK q \in Nat, r \in 0..(Block - 1) : q = n \div Block /\ r = n % Block /\ n = Block * q + r
  BY BlockIs, DivisionOf
<1>2. PICK b \in Int : b = Block * q /\ Block * (q + 1) = b + Block /\ Block * (q + 2) = b + 2 * Block
  <2>1. Block * q \in Int /\ Block * (q + 1) = Block * q + Block * 1 /\ Block * 1 = Block
        /\ Block * (q + 2) = Block * q + Block * 2 /\ Block * 2 = 2 * Block
    BY BlockIs, Distributes, DistributesOne
  <2> QED
    BY <2>1
<1>3. PICK f \in Nat : f = Digests!Field /\ f < Block /\ Block \in Nat
  BY BlockIs
<1>4. n = b + r /\ r \in Nat /\ r < Block /\ b \in Int
  BY <1>1, <1>2, BlockIs
<1>5. CASE r < Block - f
  <2>1. Digests!PadLen(n % Block) = Block - f - r
    BY <1>1, <1>3, <1>5 DEF Digests!PadLen
  <2>2. ~(r >= Block - f)
    BY <1>3, <1>4, <1>5
  <2>3. Digests!ActLen(n) = n + (Block - r)
    BY <1>1, <1>3, <2>2 DEF Digests!ActLen
  <2>4. PICK z : z = Block - f - r - 1
    OBVIOUS
  <2>5. z \in 0..(Block - 1) /\ Block - f - r = z + 1 /\ n + 1 + z + f = b + Block /\ n + (Block - r) = b + Block
    BY <1>3, <1>4, <1>5, <2>4
  <2>6. q + 1 \in Nat
    BY <1>1
  <2> QED
    BY <1>2, <1>3, <2>1, <2>3, <2>5, <2>6
<1>6. CASE ~(r < Block - f)
  <2>1. Digests!PadLen(n % Block) = 2 * Block - f - r
    BY <1>1, <1>3, <1>6 DEF Digests!PadLen
  <2>2. r >= Block - f
    BY <1>3, <1>4, <1>6
  <2>3. Digests!ActLen(n) = n + (2 * Block - r)
    BY <1>1, <1>3, <2>2 DEF Digests!ActLen
  <2>4. PICK z : z = 2 * Block - f - r - 1
    OBVIOUS
  <2>5. z \in 0..(Block - 1) /\ 2 * Block - f - r = z + 1 /\ n + 1 + z + f = b + 2 * Block /\ n + (2 * Block - r) = b + 2 * Block
    BY <1>3, <1>4, <1>6, <2>4
  <2>6. q + 2 \in Nat
    BY <1>1
  <2> QED
    BY <1>2, <1>3, <2>1, <2>3, <2>5, <2>6
<1> QED
  BY <1>5, <1>6

LEMMA MultiplesAreApart ==
  ASSUME NEW d \in Nat, d > 0, NEW x \in Nat, NEW e \in 0..(d - 1), x % d = 0, (x + e) % d = 0
  PROVE  e = 0
<1>1. PICK q \in Nat, r \in 0..(d - 1) : r = x % d /\ x = d * q + r
  BY DivisionOf
<1>2. x + e = d * q + e /\ x + e \in Int
  <2>1. PICK g \in Int : g = d * q
    BY Distributes
  <2>2. x = g + r /\ r = 0
    BY <1>1, <2>1
  <2> QED
    BY <2>1, <2>2
<1>3. PICK y \in Int : y = x + e /\ y = d * q + e
  BY <1>2
<1>4. y % d = e
  BY <1>1, <1>3, DivisionIs
<1> QED
  BY <1>3, <1>4

LEMMA MultipleHasNoRest ==
  ASSUME NEW u \in Nat PROVE (Block * u) % Block = 0 /\ (Block * u) \div Block = u /\ Block * u \in Nat
<1>1. PICK x \in Nat : x = Block * u
  BY BlockIs, Z3
<1>2. x = Block * u + 0 /\ x \in Int /\ u \in Int /\ 0 \in 0..(Block - 1)
  BY <1>1, BlockIs
<1>3. x \div Block = u /\ x % Block = 0
  BY <1>2, BlockIs, DivisionIs
<1> QED
  BY <1>1, <1>3

ZerosOf(n) == CHOOSE z \in 0..(Block - 1) : (n + 1 + z + Digests!Field) % Block = 0

LEMMA ZerosOfIs ==
  ASSUME NEW n \in Nat, NEW z \in 0..(Block - 1), NEW u \in Nat, n + 1 + z + Digests!Field = Block * u
  PROVE  ZerosOf(n) = z
<1>1. (n + 1 + z + Digests!Field) % Block = 0
  BY MultipleHasNoRest
<1>2. ASSUME NEW y \in 0..(Block - 1), (n + 1 + y + Digests!Field) % Block = 0 PROVE y = z
  <2>0. y \in Nat /\ z \in Nat /\ Digests!Field \in Nat
    BY BlockIs
  <2>1. PICK a \in Nat, b \in Nat : a = n + 1 + y + Digests!Field /\ b = n + 1 + z + Digests!Field
    BY <2>0
  <2>2. a % Block = 0 /\ b % Block = 0
    BY <1>1, <1>2, <2>1
  <2>3. CASE y <= z
    <3>1. PICK e \in 0..(Block - 1) : e = z - y
      BY <2>0, <2>3, BlockIs
    <3>2. b = a + e
      BY <2>0, <2>1, <3>1
    <3>3. e = 0
      BY <2>2, <3>2, BlockIs, MultiplesAreApart
    <3> QED
      BY <2>0, <3>1, <3>3
  <2>4. CASE ~(y <= z)
    <3>1. PICK e \in 0..(Block - 1) : e = y - z
      BY <2>0, <2>4, BlockIs
    <3>2. a = b + e
      BY <2>0, <2>1, <3>1
    <3>3. e = 0
      BY <2>2, <3>2, BlockIs, MultiplesAreApart
    <3> QED
      BY <2>0, <3>1, <3>3
  <2> QED
    BY <2>3, <2>4
<1> QED
  BY <1>1, <1>2 DEF ZerosOf

InFull(s, z, length) == s \o <<Marker>> \o Digests!Zeros(z) \o length

LEMMA ZerosAre ==
  ASSUME NEW T, 0 \in T, NEW z \in Nat
  PROVE  Digests!Zeros(z) \in Seq(T) /\ Len(Digests!Zeros(z)) = z /\ \A k \in 1..z : Digests!Zeros(z)[k] = 0
<1>1. PICK f : f = Digests!Zeros(z) /\ f = [k \in 1..z |-> 0]
  BY DEF Digests!Zeros
<1>2. f \in Seq(T) /\ Len(f) = z
  <2>1. DOMAIN f = 1..z /\ f = [k \in DOMAIN f |-> f[k]] /\ \A k \in 1..z : f[k] \in T
    BY <1>1
  <2> QED
    BY <2>1, TableIsSequence
<1> QED
  BY <1>1, <1>2

Reads(f, s, z, length) ==
  /\ Len(f) = Len(s) + 1 + z + Len(length)
  /\ \A i \in 1..Len(s) : f[i] = s[i]
  /\ f[Len(s) + 1] = Marker
  /\ \A j \in 1..z : f[Len(s) + 1 + j] = 0
  /\ \A j \in 1..Len(length) : f[Len(s) + 1 + z + j] = length[j]

LEMMA InFullIs ==
  ASSUME NEW T, NEW s \in Seq(T), Marker \in T, 0 \in T, NEW length \in Seq(T), NEW z \in Nat
  PROVE  InFull(s, z, length) \in Seq(T) /\ Reads(InFull(s, z, length), s, z, length)
<1>0. PICK n \in Nat, l \in Nat : n = Len(s) /\ l = Len(length)
  BY LenProperties
<1>1. PICK zeros, mark : n = Len(s) /\ l = Len(length) /\ zeros = Digests!Zeros(z) /\ mark = <<Marker>>
  BY <1>0
<1>2. mark \in Seq(T) /\ Len(mark) = 1 /\ mark[1] = Marker
  BY <1>1
<1>3. zeros \in Seq(T) /\ Len(zeros) = z /\ \A k \in 1..z : zeros[k] = 0
  BY <1>1, ZerosAre
<1>4. PICK a : /\ a = s \o mark /\ a \in Seq(T) /\ Len(a) = n + 1 /\ (\A i \in 1..n : a[i] = s[i]) /\ a[n + 1] = Marker
  <2>1. /\ s \o mark \in Seq(T) /\ Len(s \o mark) = Len(s) + Len(mark)
        /\ \A i \in 1..Len(s) : (s \o mark)[i] = s[i]
        /\ \A j \in 1..Len(mark) : (s \o mark)[Len(s) + j] = mark[j]
    <3>1. mark \in Seq(T)
      BY <1>2
    <3> QED
      BY <3>1, JoinedIs
  <2>2. 1 \in 1..1
    OBVIOUS
  <2>3. \A j \in 1..1 : (s \o mark)[n + j] = mark[j]
    BY <1>1, <1>2, <2>1
  <2>4. (s \o mark)[n + 1] = Marker
    BY <1>2, <2>2, <2>3
  <2> QED
    BY <1>1, <1>2, <2>1, <2>4
<1>5. PICK b : /\ b = a \o zeros /\ b \in Seq(T) /\ Len(b) = n + 1 + z
               /\ (\A i \in 1..(n + 1) : b[i] = a[i]) /\ \A j \in 1..z : b[n + 1 + j] = 0
  <2>1. /\ a \o zeros \in Seq(T) /\ Len(a \o zeros) = Len(a) + Len(zeros)
        /\ \A i \in 1..Len(a) : (a \o zeros)[i] = a[i]
        /\ \A j \in 1..Len(zeros) : (a \o zeros)[Len(a) + j] = zeros[j]
    <3>1. a \in Seq(T) /\ zeros \in Seq(T)
      BY <1>3, <1>4
    <3> QED
      BY <3>1, JoinedIs
  <2>2. \A j \in 1..z : (a \o zeros)[n + 1 + j] = zeros[j]
    BY <1>3, <1>4, <2>1
  <2>3. \A i \in 1..(n + 1) : (a \o zeros)[i] = a[i]
    BY <1>4, <2>1
  <2>4. \A j \in 1..z : (a \o zeros)[n + 1 + j] = 0
    BY <1>3, <2>2
  <2>5. Len(a \o zeros) = n + 1 + z /\ a \o zeros \in Seq(T)
    BY <1>3, <1>4, <2>1
  <2> QED
    BY <2>3, <2>4, <2>5
<1>6. PICK c : /\ c = b \o length /\ c \in Seq(T) /\ Len(c) = n + 1 + z + l
               /\ (\A i \in 1..(n + 1 + z) : c[i] = b[i]) /\ \A j \in 1..l : c[n + 1 + z + j] = length[j]
  <2>1. /\ b \o length \in Seq(T) /\ Len(b \o length) = Len(b) + Len(length)
        /\ \A i \in 1..Len(b) : (b \o length)[i] = b[i]
        /\ \A j \in 1..Len(length) : (b \o length)[Len(b) + j] = length[j]
    <3>1. b \in Seq(T)
      BY <1>5
    <3> QED
      BY <3>1, JoinedIs
  <2>2. \A j \in 1..l : (b \o length)[n + 1 + z + j] = length[j]
    BY <1>1, <1>5, <2>1
  <2>3. \A i \in 1..(n + 1 + z) : (b \o length)[i] = b[i]
    BY <1>5, <2>1
  <2>4. Len(b \o length) = n + 1 + z + l /\ b \o length \in Seq(T)
    BY <1>1, <1>5, <2>1
  <2> QED
    BY <2>2, <2>3, <2>4
<1>7. c = InFull(s, z, length)
  BY <1>1, <1>4, <1>5, <1>6 DEF InFull
<1>8. \A i \in 1..n : i \in 1..(n + 1) /\ i \in 1..(n + 1 + z)
  OBVIOUS
<1>9. n + 1 \in 1..(n + 1) /\ n + 1 \in 1..(n + 1 + z) /\ \A j \in 1..z : n + 1 + j \in 1..(n + 1 + z)
  OBVIOUS
<1>10. (\A i \in 1..n : c[i] = s[i]) /\ c[n + 1] = Marker /\ \A j \in 1..z : c[n + 1 + j] = 0
  BY <1>4, <1>5, <1>6, <1>8, <1>9
<1> QED
  BY <1>1, <1>6, <1>7, <1>10 DEF Reads

LEMMA BlockIsPart ==
  ASSUME NEW T, NEW f \in Seq(T), NEW u \in Nat, Block * u <= Len(f), NEW k \in 1..u
  PROVE  SubSeq(f, (k - 1) * Block + 1, k * Block) = BlockOf(f, k)
<1>1. PICK x \in Nat : x = (k - 1) * Block /\ k * Block = x + Block /\ x + Block <= Len(f)
  <2>1. (k - 1) * Block \in Nat /\ (k - 1) * Block + Block <= Block * u /\ Block * u \in Nat
    BY PlacesOfBlock
  <2>2. k * Block = (k - 1) * Block + Block
    <3>1. Block * ((k - 1) + 1) = Block * (k - 1) + Block * 1 /\ Block * 1 = Block /\ Block * (k - 1) = (k - 1) * Block
      BY BlockIs, Distributes, DistributesOne
    <3>2. Block * k = k * Block /\ (k - 1) + 1 = k
      BY BlockIs, Distributes
    <3> QED
      BY <3>1, <3>2
  <2>3. Len(f) \in Nat
    BY LenProperties
  <2>4. PICK y, h : y = (k - 1) * Block /\ h = Block * u
    OBVIOUS
  <2>5. y \in Nat /\ y + Block <= h /\ h <= Len(f) /\ h \in Nat
    BY <2>1, <2>4
  <2>6. y + Block <= Len(f)
    BY <2>3, <2>5, BlockIs
  <2> QED
    BY <2>2, <2>4, <2>5, <2>6
<1>2. PICK g, i, j : g = SubSeq(f, i, j) /\ i = x + 1 /\ j = x + Block
  OBVIOUS
<1>3. i \in Int /\ j \in Int /\ 1 <= i /\ i <= j /\ j - i + 1 = Block /\ j <= Len(f) /\ \A p \in Int : i + p - 1 = x + p
  <2>1. x \in Nat /\ x + Block <= Len(f)
    BY <1>1
  <2>2. i \in Int /\ j \in Int /\ 1 <= i /\ i <= j /\ j - i + 1 = Block /\ j <= Len(f)
    BY <1>2, <2>1, BlockIs
  <2>3. \A p \in Int : i + p - 1 = x + p
    BY <1>2, <2>1
  <2> QED
    BY <2>2, <2>3
<1>4. g \in Seq(T) /\ Len(g) = Block /\ \A p \in 1..Block : g[p] = f[x + p]
  <2>1. /\ SubSeq(f, i, j) \in Seq(T) /\ Len(SubSeq(f, i, j)) = IF i <= j THEN j - i + 1 ELSE 0
        /\ \A p \in 1..(j - i + 1) : SubSeq(f, i, j)[p] = f[i + p - 1]
    BY <1>3, PartIs
  <2>2. g \in Seq(T) /\ Len(g) = Block
    BY <1>2, <1>3, <2>1
  <2>3. \A p \in 1..Block : p \in Int
    OBVIOUS
  <2>4. \A p \in 1..Block : g[p] = f[i + p - 1]
    BY <1>2, <1>3, <2>1
  <2> QED
    BY <1>3, <2>2, <2>3, <2>4
<1>5. g = [p \in 1..Block |-> f[x + p]]
  BY <1>4, LenProperties
<1> QED
  BY <1>1, <1>2, <1>5 DEF BlockOf

LEMMA PaddedIs ==
  ASSUME NEW T, NEW s \in Seq(T), Marker \in T, 0 \in T, NEW length \in Seq(T), Len(length) = Digests!Field,
         NEW z \in 0..(Block - 1), NEW u \in Nat, Len(s) + 1 + z + Digests!Field = Block * u
  PROVE  /\ Digests!Padded(s, length) = [k \in 1..u |-> BlockOf(InFull(s, z, length), k)]
         /\ Len(InFull(s, z, length)) = Block * u
<1>1. ZerosOf(Len(s)) = z
  <2>1. PICK n \in Nat : n = Len(s)
    BY LenProperties
  <2>2. n + 1 + z + Digests!Field = Block * u
    BY <2>1
  <2>3. ZerosOf(n) = z
    BY <2>2, ZerosOfIs
  <2> QED
    BY <2>1, <2>3
<1>2. PICK f : f = InFull(s, z, length)
  OBVIOUS
<1>3. f \in Seq(T) /\ Len(f) = Block * u
  <2>1. z \in Nat
    BY BlockIs
  <2>2. InFull(s, z, length) \in Seq(T) /\ Len(InFull(s, z, length)) = Len(s) + 1 + z + Len(length)
    BY <2>1, InFullIs DEF Reads
  <2> QED
    BY <1>2, <2>2
<1>4. Digests!Padded(s, length) = [k \in 1..(Len(f) \div Block) |-> SubSeq(f, (k - 1) * Block + 1, k * Block)]
  <2>1. PICK y, h : y = ZerosOf(Len(s)) /\ h = InFull(s, y, length)
    OBVIOUS
  <2>2. Digests!Padded(s, length) =
          [k \in 1..(Len(InFull(s, ZerosOf(Len(s)), length)) \div Block) |->
             SubSeq(InFull(s, ZerosOf(Len(s)), length), (k - 1) * Block + 1, k * Block)]
    BY DEF Digests!Padded, ZerosOf, InFull
  <2> QED
    BY <1>1, <1>2, <2>1, <2>2
<1>5. Len(f) \div Block = u /\ Block * u <= Len(f)
  BY <1>3, MultipleHasNoRest
<1>6. \A k \in 1..u : SubSeq(f, (k - 1) * Block + 1, k * Block) = BlockOf(f, k)
  BY <1>3, <1>5, BlockIsPart
<1> QED
  BY <1>2, <1>3, <1>4, <1>5, <1>6

LEMMA PaddingIs ==
  ASSUME NEW z \in 0..(Block - 1)
  PROVE  SubSeq(Digests!PADDING, 1, z + 1) = <<Marker>> \o Digests!Zeros(z)
<1>1. PICK T, a, e, f, m : /\ T = {Marker, 0} /\ a = <<Marker>> \o Digests!Zeros(Block - 1)
                           /\ f = SubSeq(a, 1, m) /\ m = z + 1 /\ e = <<Marker>> \o Digests!Zeros(z)
  OBVIOUS
<1>2. ASSUME NEW n \in Nat
      PROVE  /\ <<Marker>> \o Digests!Zeros(n) \in Seq(T) /\ Len(<<Marker>> \o Digests!Zeros(n)) = 1 + n
             /\ (<<Marker>> \o Digests!Zeros(n))[1] = Marker
             /\ \A j \in 1..n : (<<Marker>> \o Digests!Zeros(n))[1 + j] = 0
  <2>1. PICK mark, zeros : mark = <<Marker>> /\ zeros = Digests!Zeros(n)
    OBVIOUS
  <2>2. mark \in Seq(T) /\ Len(mark) = 1 /\ mark[1] = Marker
    BY <1>1, <2>1
  <2>3. zeros \in Seq(T) /\ Len(zeros) = n /\ \A k \in 1..n : zeros[k] = 0
    <3>1. 0 \in T
      BY <1>1
    <3> QED
      BY <2>1, <3>1, ZerosAre
  <2>4. mark \in Seq(T) /\ zeros \in Seq(T)
    BY <2>2, <2>3
  <2>5. /\ mark \o zeros \in Seq(T) /\ Len(mark \o zeros) = Len(mark) + Len(zeros)
        /\ \A i \in 1..Len(mark) : (mark \o zeros)[i] = mark[i]
        /\ \A j \in 1..Len(zeros) : (mark \o zeros)[Len(mark) + j] = zeros[j]
    BY <2>4, JoinedIs
  <2>6. /\ Len(mark \o zeros) = 1 + n
        /\ \A i \in 1..1 : (mark \o zeros)[i] = mark[i]
        /\ \A j \in 1..n : (mark \o zeros)[1 + j] = zeros[j]
    BY <2>2, <2>3, <2>5
  <2>7. 1 \in 1..1
    OBVIOUS
  <2>8. (mark \o zeros)[1] = Marker
    BY <2>2, <2>6, <2>7
  <2>9. \A j \in 1..n : (mark \o zeros)[1 + j] = 0
    BY <2>3, <2>6
  <2> QED
    BY <2>1, <2>5, <2>6, <2>8, <2>9
<1>3. z \in Nat /\ Block - 1 \in Nat /\ m = z + 1 /\ m <= Block
  BY <1>1, BlockIs
<1>4. a \in Seq(T) /\ Len(a) = Block /\ a[1] = Marker /\ \A j \in 1..(Block - 1) : a[1 + j] = 0
  <2>1. a \in Seq(T) /\ Len(a) = 1 + (Block - 1) /\ a[1] = Marker /\ \A j \in 1..(Block - 1) : a[1 + j] = 0
    BY <1>1, <1>2, <1>3
  <2> QED
    BY <2>1, BlockIs
<1>5. e \in Seq(T) /\ Len(e) = m /\ e[1] = Marker /\ \A j \in 1..z : e[1 + j] = 0
  <2>1. e \in Seq(T) /\ Len(e) = 1 + z /\ e[1] = Marker /\ \A j \in 1..z : e[1 + j] = 0
    BY <1>1, <1>2, <1>3
  <2> QED
    BY <2>1, <1>3
<1>6. f \in Seq(T) /\ Len(f) = m /\ \A i \in 1..m : f[i] = a[i]
  <2>1. 1 \in Int /\ m \in Int /\ 1 <= 1 /\ m <= Len(a) /\ m - 1 + 1 = m /\ 1 <= m
    BY <1>3, <1>4
  <2>2. /\ SubSeq(a, 1, m) \in Seq(T) /\ Len(SubSeq(a, 1, m)) = IF 1 <= m THEN m - 1 + 1 ELSE 0
        /\ \A i \in 1..(m - 1 + 1) : SubSeq(a, 1, m)[i] = a[1 + i - 1]
    BY <1>4, <2>1, PartIs
  <2>3. \A i \in 1..m : 1 + i - 1 = i
    BY <1>3
  <2> QED
    BY <1>1, <2>1, <2>2, <2>3
<1>7. ASSUME NEW i \in 1..m PROVE f[i] = e[i]
  <2>1. CASE i = 1
    BY <1>4, <1>5, <1>6, <2>1
  <2>2. CASE i # 1
    <3>1. i - 1 \in 1..z /\ i - 1 \in 1..(Block - 1) /\ 1 + (i - 1) = i
      BY <1>3, <2>2, BlockIs
    <3>2. a[1 + (i - 1)] = 0 /\ e[1 + (i - 1)] = 0
      BY <1>4, <1>5, <3>1
    <3> QED
      BY <1>6, <3>1, <3>2
  <2> QED
    BY <2>1, <2>2
<1>8. f = [i \in 1..m |-> f[i]] /\ e = [i \in 1..m |-> e[i]]
  BY <1>5, <1>6, LenProperties
<1>9. f = e
  BY <1>7, <1>8
<1> QED
  BY <1>1, <1>9 DEF Digests!PADDING

LEMMA NumbersHaveBytes ==
  ASSUME NEW x \in Nat
  PROVE  Digests!LittleEndian(x) \in Seq(Nat) /\ Len(Digests!LittleEndian(x)) = Digests!Field
<1>1. PICK f, n : f = Digests!LittleEndian(x) /\ n = Digests!Field
  OBVIOUS
<1>2. n \in Nat /\ f = [k \in 1..n |-> (x \div Power[k - 1]) % DigestValues]
  BY <1>1, BlockIs DEF Digests!LittleEndian, Power
<1>3. ASSUME NEW k \in 1..n PROVE (x \div Power[k - 1]) % DigestValues \in Nat
  <2>1. k - 1 \in Nat
    BY <1>2
  <2>2. PICK p \in Nat : p = Power[k - 1] /\ p > 0
    BY <2>1, PowerType
  <2>3. PICK y \in Nat : y = x \div p
    BY <2>2, DivisionOf
  <2>4. PICK v \in Nat : v = DigestValues /\ v > 0
    BY DigestAssumption
  <2>5. y % v \in 0..(v - 1)
    BY <2>4, DivisionOf
  <2>6. y % v \in Nat
    BY <2>5
  <2> QED
    BY <2>2, <2>3, <2>4, <2>6
<1>4. f \in Seq(Nat) /\ Len(f) = n
  <2>1. DOMAIN f = 1..n /\ f = [k \in DOMAIN f |-> f[k]] /\ \A k \in 1..n : f[k] \in Nat
    BY <1>2, <1>3
  <2> QED
    BY <1>2, <2>1, TableIsSequence
<1> QED
  BY <1>1, <1>4

LEMMA FinalIs ==
  ASSUME NEW T, Marker \in T, Nat \subseteq T, NEW ctx, NEW s \in Seq(T), Holds(ctx, s)
  PROVE  Digests!Final(ctx) = Digests!Padded(s, Digests!LittleEndian(8 * Len(s)))
<1>1. PICK n \in Nat, x \in Nat : n = Len(s) /\ x = 8 * n
  BY LenProperties
<1>2. PICK z \in 0..(Block - 1), u \in Nat :
        Digests!PadLen(n % Block) = z + 1 /\ n + 1 + z + Digests!Field = Block * u
  BY PadLenIs
<1>3. PICK bits, padding, mark, zeros :
        /\ bits = Digests!LittleEndian(x) /\ mark = <<Marker>> /\ zeros = Digests!Zeros(z)
        /\ padding = mark \o zeros
  OBVIOUS
<1>4. bits \in Seq(T) /\ Len(bits) = Digests!Field
  <2>1. bits \in Seq(Nat) /\ Len(bits) = Digests!Field
    BY <1>3, NumbersHaveBytes
  <2>2. \A k \in 1..Len(bits) : bits[k] \in T
    BY <2>1, ElementOfSeq
  <2>3. Len(bits) \in Nat /\ DOMAIN bits = 1..Len(bits) /\ bits = [k \in DOMAIN bits |-> bits[k]]
    BY <2>1, LenProperties
  <2> QED
    BY <2>1, <2>2, <2>3, TableIsSequence
<1>5. mark \in Seq(T) /\ zeros \in Seq(T) /\ padding \in Seq(T)
  <2>1. z \in Nat /\ 0 \in T
    BY BlockIs
  <2>2. mark \in Seq(T) /\ zeros \in Seq(T)
    BY <1>3, <2>1, ZerosAre
  <2> QED
    BY <1>3, <2>2, JoinedIs
<1>6. Digests!Encode(ctx.count[1]) \o Digests!Encode(ctx.count[2]) = bits
  <2>1. PICK y \in Nat : y = x \div Word
    BY WordIs, DivisionOf
  <2>2. ctx.count[1] = x % Word /\ ctx.count[2] = y % Word
    BY <1>1, <2>1 DEF Holds
  <2>3. Digests!Encode(x % Word) = Digests!Encode(x) /\ Digests!Encode(y % Word) = Digests!Encode(y)
    BY EncodedWord
  <2>4. Digests!Encode(x) \o Digests!Encode(y) = bits
    BY <1>3, <2>1, LengthIsItsWords
  <2> QED
    BY <2>2, <2>3, <2>4
<1>7. SubSeq(Digests!PADDING, 1, Digests!PadLen(Digests!Index(ctx))) = padding
  <2>1. Digests!Index(ctx) = n % Block
    BY <1>1, IndexIs
  <2>2. SubSeq(Digests!PADDING, 1, z + 1) = padding
    BY <1>3, PaddingIs
  <2> QED
    BY <1>2, <2>1, <2>2
<1>8. Digests!Final(ctx) = Digests!Update(Digests!Update(ctx, padding), bits).state
  BY <1>6, <1>7 DEF Digests!Final
<1>9. Holds(Digests!Update(ctx, padding), s \o padding)
  BY <1>5, UpdateHolds
<1>10. s \o padding \in Seq(T)
  BY <1>5, JoinedIs
<1>11. Holds(Digests!Update(Digests!Update(ctx, padding), bits), (s \o padding) \o bits)
  BY <1>4, <1>9, <1>10, UpdateHolds
<1>12. (s \o padding) \o bits = InFull(s, z, bits)
  <2>1. (s \o mark) \o zeros = s \o (mark \o zeros)
    BY <1>5, ConcatAssociative
  <2> QED
    BY <1>3, <2>1 DEF InFull
<1>13. /\ Digests!Padded(s, bits) = [k \in 1..u |-> BlockOf(InFull(s, z, bits), k)]
       /\ Len(InFull(s, z, bits)) = Block * u
  <2>1. 0 \in T /\ Len(s) + 1 + z + Digests!Field = Block * u
    BY <1>1, <1>2
  <2> QED
    BY <1>4, <2>1, PaddedIs
<1>14. (Block * u) \div Block = u
  BY MultipleHasNoRest
<1>15. Digests!Update(Digests!Update(ctx, padding), bits).state
         = [k \in 1..(Len(InFull(s, z, bits)) \div Block) |-> BlockOf(InFull(s, z, bits), k)]
  BY <1>11, <1>12 DEF Holds
<1> QED
  BY <1>1, <1>3, <1>8, <1>13, <1>14, <1>15

-----------------------------------------------------------------------------
(* sha256 reads the words it stored backwards: what it digests is the message
   in its padding. *)
LEMMA StoredIs ==
  ASSUME NEW i \in Nat, NEW a \in Int, NEW c \in 0..(WordBytes - 1), i = WordBytes * a + c
  PROVE  /\ Digests!Stored(i) = WordBytes * a + (WordBytes - 1 - c)
         /\ Digests!Stored(WordBytes * a + (WordBytes - 1 - c)) = i
<1>1. PICK y \in Int, w \in Nat, d \in 0..(WordBytes - 1), j \in Int :
        y = WordBytes * a /\ w = WordBytes /\ w > 0 /\ d = WordBytes - 1 - c /\ j = y + d
  <2>1. WordBytes * a \in Int /\ WordBytes - 1 - c \in 0..(WordBytes - 1)
    BY WordIs, Distributes
  <2> QED
    BY <2>1, WordIs
<1>2. i % w = c /\ j % w = d
  <2>1. i = w * a + c /\ j = w * a + d
    BY <1>1
  <2>2. i \in Int /\ c \in 0..(w - 1) /\ d \in 0..(w - 1)
    BY <1>1
  <2> QED
    BY <1>1, <2>1, <2>2, DivisionIs
<1>3. i = y + c /\ d = w - 1 - c /\ c \in Int
  BY <1>1
<1>4. Digests!Stored(i) = i + (w - 1) - 2 * c /\ Digests!Stored(j) = j + (w - 1) - 2 * d
  BY <1>1, <1>2 DEF Digests!Stored
<1>5. i + (w - 1) - 2 * c = y + d /\ j + (w - 1) - 2 * d = i
  <2>1. j = y + d /\ y \in Int /\ w \in Nat /\ d \in Int
    BY <1>1
  <2> QED
    BY <1>3, <2>1
<1> QED
  BY <1>1, <1>4, <1>5

LEMMA StoredInBlock ==
  ASSUME NEW u \in Nat, NEW k \in 1..u, NEW j \in 1..Block
  PROVE  (k - 1) * Block + Digests!Stored(j - 1) = Digests!Stored((k - 1) * Block + (j - 1))
<1>1. PICK b \in 1..Block : Block = WordBytes * b
  BY DigestAssumption
<1>2. PICK a \in Nat, c \in 0..(WordBytes - 1) : j - 1 = WordBytes * a + c
  <2>1. PICK i \in Nat : i = j - 1
    BY BlockIs
  <2>2. i \div WordBytes \in Nat /\ i % WordBytes \in 0..(WordBytes - 1) /\ i = WordBytes * (i \div WordBytes) + (i % WordBytes)
    BY WordIs, DivisionOf
  <2> QED
    BY <2>1, <2>2
<1>3. PICK x \in Nat, e \in Int, y \in Int : x = (k - 1) * Block /\ e = b * (k - 1) /\ y = WordBytes * a
  <2>1. (k - 1) * Block \in Nat
    BY PlacesOfBlock
  <2>2. b * (k - 1) \in Int /\ WordBytes * a \in Int
    BY WordIs, BlockIs, Distributes
  <2> QED
    BY <2>1, <2>2
<1>4. x = WordBytes * e
  <2>1. k - 1 \in Int /\ b \in Int /\ WordBytes \in Int
    BY WordIs, BlockIs
  <2>2. (WordBytes * b) * (k - 1) = WordBytes * (b * (k - 1))
    BY <2>1, Distributes
  <2>3. (k - 1) * Block = Block * (k - 1)
    BY PlacesOfBlock
  <2> QED
    BY <1>1, <1>3, <2>2, <2>3
<1>5. WordBytes * (e + a) = x + y
  <2>1. WordBytes * (e + a) = WordBytes * e + WordBytes * a
    BY WordIs, Distributes
  <2> QED
    BY <1>3, <1>4, <2>1
<1>6. Digests!Stored(j - 1) = y + (WordBytes - 1 - c)
  <2>1. PICK i \in Nat : i = j - 1
    BY BlockIs
  <2>2. Digests!Stored(i) = WordBytes * a + (WordBytes - 1 - c)
    BY <1>2, <2>1, StoredIs
  <2> QED
    BY <1>3, <2>1, <2>2
<1>7. Digests!Stored(x + (j - 1)) = (x + y) + (WordBytes - 1 - c)
  <2>1. PICK i \in Nat, g \in Int : i = x + (j - 1) /\ g = e + a
    BY BlockIs
  <2>2. i = WordBytes * g + c
    <3>1. j - 1 = y + c /\ WordBytes * g = x + y
      BY <1>2, <1>3, <1>5, <2>1
    <3>2. i = x + (y + c)
      BY <2>1, <3>1
    <3>3. x + (y + c) = (x + y) + c
      BY WordIs
    <3> QED
      BY <3>1, <3>2, <3>3
  <2>3. Digests!Stored(i) = WordBytes * g + (WordBytes - 1 - c)
    BY <2>2, StoredIs
  <2> QED
    BY <1>5, <2>1, <2>3
<1> QED
  <2>1. x + (y + (WordBytes - 1 - c)) = (x + y) + (WordBytes - 1 - c)
    BY WordIs
  <2> QED
    BY <1>3, <1>6, <1>7, <2>1

LEMMA BytesOfTheWords ==
  ASSUME NEW x \in Nat, NEW k \in 1..WordBytes
  PROVE  /\ Digests!Encode(x % Word)[k] = Digests!LittleEndian(x)[k]
         /\ Digests!Encode(x \div Word)[k] = Digests!LittleEndian(x)[WordBytes + k]
<1>1. k \in 1..Digests!Field /\ WordBytes + k \in 1..Digests!Field /\ k - 1 \in Nat /\ (WordBytes + k) - 1 = WordBytes + (k - 1)
  BY WordIs DEF Digests!Field
<1>2. \A i \in 1..Digests!Field : Digests!LittleEndian(x)[i] = (x \div Power[i - 1]) % DigestValues
  BY DEF Digests!LittleEndian, Power
<1>3. Digests!Encode(x % Word)[k] = (x \div Power[k - 1]) % DigestValues
  BY EncodedWord, EncodedIsFunction
<1>4. Digests!Encode(x \div Word)[k] = ((x \div Word) \div Power[k - 1]) % DigestValues
  BY EncodedIsFunction
<1>5. x \div Power[WordBytes + (k - 1)] = (x \div Word) \div Power[k - 1]
  BY <1>1, HighBytes
<1> QED
  BY <1>1, <1>2, <1>3, <1>4, <1>5

LEMMA BigEndianIs ==
  ASSUME NEW T, Nat \subseteq T, NEW x \in Nat
  PROVE  /\ Digests!BigEndian(x) \in Seq(T) /\ Len(Digests!BigEndian(x)) = Digests!Field
         /\ \A c \in 0..(WordBytes - 1) :
              /\ Digests!BigEndian(x)[c + 1] = Digests!Encode(x \div Word)[WordBytes - c]
              /\ Digests!BigEndian(x)[WordBytes + c + 1] = Digests!Encode(x % Word)[WordBytes - c]
<1>1. PICK f, g, n : f = Digests!LittleEndian(x) /\ g = Digests!BigEndian(x) /\ n = Digests!Field
  OBVIOUS
<1>2. f \in Seq(Nat) /\ Len(f) = n /\ n \in Nat /\ n = 2 * WordBytes
  BY <1>1, NumbersHaveBytes, BlockIs DEF Digests!Field
<1>3. g = [i \in 1..n |-> f[(n - i) + 1]]
  BY <1>1, <1>2 DEF Digests!BigEndian, Digests!Reverse
<1>4. \A i \in 1..n : (n - i) + 1 \in 1..n /\ f[(n - i) + 1] \in T
  <2>1. \A i \in 1..n : (n - i) + 1 \in 1..n
    BY <1>2
  <2>2. \A i \in 1..n : f[i] \in Nat
    BY <1>2, ElementOfSeq
  <2> QED
    BY <2>1, <2>2
<1>5. g \in Seq(T) /\ Len(g) = n
  <2>1. DOMAIN g = 1..n /\ g = [k \in DOMAIN g |-> g[k]] /\ \A k \in 1..n : g[k] \in T
    BY <1>3, <1>4
  <2> QED
    BY <1>2, <2>1, TableIsSequence
<1>6. ASSUME NEW c \in 0..(WordBytes - 1)
      PROVE  /\ g[c + 1] = Digests!Encode(x \div Word)[WordBytes - c]
             /\ g[WordBytes + c + 1] = Digests!Encode(x % Word)[WordBytes - c]
  <2>1. /\ c + 1 \in 1..n /\ (n - (c + 1)) + 1 = WordBytes + (WordBytes - c)
        /\ WordBytes + c + 1 \in 1..n /\ (n - (WordBytes + c + 1)) + 1 = WordBytes - c
        /\ WordBytes - c \in 1..WordBytes
    BY <1>2, WordIs
  <2>2. PICK k \in 1..WordBytes : k = WordBytes - c
    BY <2>1
  <2>3. Digests!Encode(x % Word)[k] = f[k] /\ Digests!Encode(x \div Word)[k] = f[WordBytes + k]
    BY <1>1, BytesOfTheWords
  <2> QED
    BY <1>3, <2>1, <2>2, <2>3
<1> QED
  BY <1>1, <1>5, <1>6

Sized(s, x, z, u, L) ==
  /\ x = 8 * Len(s) /\ L = Digests!ActLen(Len(s)) /\ L = Block * u
  /\ Len(s) + 1 + z + Digests!Field = L

LEMMA LaidIs ==
  ASSUME NEW T, Marker \in T, Nat \subseteq T, NEW s \in Seq(T), NEW x, NEW z \in Nat, NEW u \in Nat,
         NEW L \in Nat, Sized(s, x, z, u, L), NEW i \in 0..(L - 1)
  PROVE  Digests!Laid(s)[Digests!Stored(i)] = InFull(s, z, Digests!BigEndian(x))[i + 1]
<1>0. PICK n \in Nat : n = Len(s)
  BY LenProperties
<1>1. PICK f, big : n = Len(s) /\ big = Digests!BigEndian(x) /\ f = InFull(s, z, big)
  BY <1>0
<1>2. x \in Nat /\ x = n * 8
  BY <1>1 DEF Sized
<1>3. PICK w \in Nat : w = WordBytes /\ w > 0 /\ Digests!Field = 2 * w
  BY WordIs DEF Digests!Field
<1>4. PICK b \in Nat, A \in Nat : Block = w * b /\ A = b * u /\ L = w * A
  <2>1. PICK b \in 1..Block : Block = WordBytes * b
    BY DigestAssumption
  <2>2. b \in Nat /\ b * u \in Nat
    <3>1. b \in Nat
      BY <2>1, BlockIs
    <3> QED
      BY <3>1, Z3
  <2>3. (w * b) * u = w * (b * u)
    BY <2>2, Distributes
  <2>4. L = Block * u
    BY DEF Sized
  <2> QED
    BY <1>3, <2>1, <2>2, <2>3, <2>4
<1>5. PICK a \in Nat, c \in 0..(w - 1), y \in Nat : i = w * a + c /\ y = w * a /\ i = y + c
  <2>1. i \in Nat
    OBVIOUS
  <2>2. PICK a \in Nat, c \in 0..(w - 1) : i = w * a + c
    <3>1. i \div w \in Nat /\ i % w \in 0..(w - 1) /\ i = w * (i \div w) + (i % w)
      <4>1. w \in Nat /\ w > 0
        BY <1>3
      <4> QED
        BY <2>1, <4>1, DivisionOf
    <3> QED
      BY <3>1
  <2>3. w * a \in Nat
    BY Z3
  <2> QED
    BY <2>2, <2>3
<1>6. a + 1 <= A
  <2>1. CASE A <= a
    <3>1. w * A <= w * a
      BY <2>1, Increases
    <3>2. L <= y /\ y <= i
      BY <1>4, <1>5, <3>1
    <3> QED
      BY <3>2, <1>5
  <2>2. CASE ~(A <= a)
    BY <2>2
  <2> QED
    BY <2>1, <2>2
<1>7. /\ w * (a + 1) = y + w /\ w * (a + 2) = y + 2 * w /\ w * (a + 3) = y + 3 * w
  <2>1. w * (a + 1) = w * a + w * 1 /\ w * 1 = w
    BY Distributes, DistributesOne
  <2>2. w * (a + 2) = w * a + w * 2 /\ w * 2 = 2 * w
    BY Distributes
  <2>3. w * (a + 3) = w * a + w * 3 /\ w * 3 = 3 * w
    BY Distributes
  <2> QED
    BY <1>5, <2>1, <2>2, <2>3
<1>8. PICK p \in Int, d \in 0..(w - 1) : d = w - 1 - c /\ p = y + d /\ Digests!Stored(i) = p /\ Digests!Stored(p) = i
  <2>1. c \in 0..(WordBytes - 1) /\ i = WordBytes * a + c /\ i \in Nat
    BY <1>3, <1>5
  <2>2. /\ Digests!Stored(i) = WordBytes * a + (WordBytes - 1 - c)
        /\ Digests!Stored(WordBytes * a + (WordBytes - 1 - c)) = i
    BY <2>1, StoredIs
  <2>3. PICK d \in 0..(w - 1) : d = w - 1 - c
    BY <1>3, <1>5
  <2>4. WordBytes * a + (WordBytes - 1 - c) = y + d
    BY <1>3, <1>5, <2>3
  <2> QED
    BY <2>2, <2>3, <2>4
<1>9. p \in 0..(L - 1)
  <2>1. w * (a + 1) <= w * A
    BY <1>6, Increases
  <2>2. y + w <= L
    BY <1>4, <1>7, <2>1
  <2> QED
    BY <1>5, <1>8, <2>2
<1>10. big \in Seq(T) /\ Len(big) = 2 * w
       /\ big[c + 1] = Digests!Encode(x \div Word)[w - c] /\ big[w + c + 1] = Digests!Encode(x % Word)[w - c]
  BY <1>1, <1>2, <1>3, <1>5, BigEndianIs
<1>11. /\ Len(f) = n + 1 + z + 2 * w
       /\ \A k \in 1..n : f[k] = s[k]
       /\ f[n + 1] = Marker
       /\ \A j \in 1..z : f[n + 1 + j] = 0
       /\ \A j \in 1..(2 * w) : f[n + 1 + z + j] = big[j]
  <2>1. 0 \in T
    OBVIOUS
  <2>2. big \in Seq(T) /\ Len(big) = 2 * w
    BY <1>10
  <2>3. big \in Seq(T)
    BY <2>2
  <2>4. PICK h, l : h = InFull(s, z, big) /\ l = Len(big)
    OBVIOUS
  <2>5. Reads(InFull(s, z, big), s, z, big)
    BY <2>1, <2>3, InFullIs
  <2>6. /\ Len(f) = n + 1 + z + l
        /\ \A k \in 1..n : f[k] = s[k]
        /\ f[n + 1] = Marker
        /\ \A j \in 1..z : f[n + 1 + j] = 0
        /\ \A j \in 1..l : f[n + 1 + z + j] = big[j]
    BY <1>1, <2>4, <2>5, Zenon DEF Reads
  <2> QED
    BY <2>2, <2>4, <2>6
<1>12. L = n + 1 + z + 2 * w
  BY <1>1, <1>3 DEF Sized
<1>13. /\ p >= L - w => Digests!Laid(s)[p] = Digests!Encode((n * 8) % Word)[p - (L - w) + 1]
       /\ ~(p >= L - w) /\ p >= L - 2 * w =>
            Digests!Laid(s)[p] = Digests!Encode((n * 8) \div Word)[p - (L - 2 * w) + 1]
       /\ ~(p >= L - w) /\ ~(p >= L - 2 * w) =>
            Digests!Laid(s)[p] = IF i < n THEN s[i + 1] ELSE IF i = n THEN Marker ELSE 0
  <2>1. n = Len(s) /\ L = Digests!ActLen(n) /\ p \in 0..(L - 1)
    BY <1>1, <1>9 DEF Sized
  <2>2. /\ p >= L - WordBytes =>
              Digests!Laid(s)[p] = Digests!Encode((n * 8) % Word)[p - (L - WordBytes) + 1]
        /\ ~(p >= L - WordBytes) /\ p >= L - Digests!Field =>
              Digests!Laid(s)[p] = Digests!Encode((n * 8) \div Word)[p - (L - Digests!Field) + 1]
        /\ ~(p >= L - WordBytes) /\ ~(p >= L - Digests!Field) =>
              Digests!Laid(s)[p] = IF Digests!Stored(p) < n THEN s[Digests!Stored(p) + 1]
                                   ELSE IF Digests!Stored(p) = n THEN Marker ELSE 0
    BY <2>1 DEF Digests!Laid, Word
  <2>3. w = WordBytes /\ 2 * w = Digests!Field /\ Digests!Stored(p) = i
    BY <1>3, <1>8
  <2> QED
    BY <2>2, <2>3, Zenon
<1>14. y \in Nat /\ c \in 0..(w - 1) /\ w \in Nat /\ p \in Int /\ d = w - 1 - c /\ p = y + d /\ L \in Nat /\ i = y + c
  BY <1>5, <1>8
<1>15. CASE a + 1 = A
  <2>1. y + w = L
    BY <1>4, <1>7, <1>15
  <2>2. p >= L - w /\ p - (L - w) + 1 = w - c
    BY <1>8, <2>1
  <2>3. Digests!Laid(s)[p] = Digests!Encode((n * 8) % Word)[p - (L - w) + 1]
    BY <1>13, <2>2
  <2>4. w + c + 1 \in 1..(2 * w) /\ n + 1 + z + (w + c + 1) = i + 1
    BY <1>3, <1>5, <1>12, <2>1
  <2>5. f[i + 1] = big[w + c + 1]
    <3>1. PICK j \in 1..(2 * w) : j = w + c + 1
      BY <2>4
    <3>2. f[n + 1 + z + j] = big[j]
      BY <1>11
    <3> QED
      BY <2>4, <3>1, <3>2
  <2> QED
    BY <1>1, <1>2, <1>8, <1>10, <2>2, <2>3, <2>5
<1>16. CASE a + 2 = A
  <2>1. y + 2 * w = L
    BY <1>4, <1>7, <1>16
  <2>2. ~(p >= L - w) /\ p >= L - 2 * w /\ p - (L - 2 * w) + 1 = w - c
    BY <1>14, <2>1
  <2>3. Digests!Laid(s)[p] = Digests!Encode((n * 8) \div Word)[p - (L - 2 * w) + 1]
    BY <1>13, <2>2
  <2>4. c + 1 \in 1..(2 * w) /\ n + 1 + z + (c + 1) = i + 1
    BY <1>3, <1>5, <1>12, <2>1
  <2>5. f[i + 1] = big[c + 1]
    <3>1. PICK j \in 1..(2 * w) : j = c + 1
      BY <2>4
    <3>2. f[n + 1 + z + j] = big[j]
      BY <1>11
    <3> QED
      BY <2>4, <3>1, <3>2
  <2> QED
    BY <1>1, <1>2, <1>8, <1>10, <2>2, <2>3, <2>5
<1>17. CASE a + 3 <= A
  <2>1. y + 3 * w <= L
    <3>1. w * (a + 3) <= w * A
      BY <1>17, Increases
    <3> QED
      BY <1>4, <1>7, <3>1
  <2>2. ~(p >= L - w) /\ ~(p >= L - 2 * w) /\ i + 1 <= n + 1 + z
    BY <1>3, <1>5, <1>8, <1>12, <2>1
  <2>3. Digests!Laid(s)[p] = IF i < n THEN s[i + 1] ELSE IF i = n THEN Marker ELSE 0
    BY <1>13, <2>2
  <2>4. CASE i < n
    <3>1. i + 1 \in 1..n
      BY <2>4
    <3> QED
      BY <1>1, <1>8, <1>11, <2>3, <2>4, <3>1
  <2>5. CASE i = n
    BY <1>1, <1>8, <1>11, <2>3, <2>5
  <2>6. CASE i > n
    <3>1. i - n \in 1..z /\ n + 1 + (i - n) = i + 1 /\ ~(i < n) /\ i # n
      BY <2>2, <2>6
    <3> QED
      BY <1>1, <1>8, <1>11, <2>3, <3>1
  <2> QED
    BY <2>4, <2>5, <2>6
<1>18. a + 1 = A \/ a + 2 = A \/ a + 3 <= A
  BY <1>6
<1> QED
  BY <1>15, <1>16, <1>17, <1>18

LEMMA ShaIs ==
  ASSUME NEW T, Marker \in T, Nat \subseteq T, NEW s \in Seq(T)
  PROVE  Digests!Sha256Blocks(s) = Digests!Padded(s, Digests!BigEndian(8 * Len(s)))
<1>0. PICK n \in Nat, x \in Nat : n = Len(s) /\ x = 8 * Len(s)
  BY LenProperties
<1>1. PICK big : n = Len(s) /\ x = 8 * Len(s) /\ big = Digests!BigEndian(x)
  BY <1>0
<1>2. PICK z \in 0..(Block - 1), u \in Nat :
        n + 1 + z + Digests!Field = Block * u /\ Digests!ActLen(n) = Block * u
  BY PadLenIs
<1>3. PICK L \in Nat : L = Block * u /\ L \div Block = u
  <2>1. Block * u \in Nat /\ (Block * u) \div Block = u
    BY MultipleHasNoRest
  <2> QED
    BY <2>1
<1>4. PICK f : f = InFull(s, z, big) /\ L = Block * u /\ L \div Block = u
  BY <1>3
<1>5. big \in Seq(T) /\ Len(big) = Digests!Field
  BY <1>1, BigEndianIs
<1>6. Digests!Padded(s, big) = [k \in 1..u |-> BlockOf(f, k)]
  <2>1. 0 \in T /\ Len(s) + 1 + z + Digests!Field = Block * u
    BY <1>1, <1>2
  <2> QED
    BY <1>4, <1>5, <2>1, PaddedIs
<1>7. Digests!Sha256Blocks(s) = [k \in 1..u |-> Digests!Words(Digests!Laid(s), k - 1)]
  <2>1. Digests!Sha256Blocks(s)
          = [k \in 1..(Digests!ActLen(Len(s)) \div Block) |-> Digests!Words(Digests!Laid(s), k - 1)]
    BY DEF Digests!Sha256Blocks
  <2> QED
    BY <1>1, <1>2, <1>4, <2>1
<1>8. ASSUME NEW k \in 1..u PROVE Digests!Words(Digests!Laid(s), k - 1) = BlockOf(f, k)
  <2>1. Digests!Words(Digests!Laid(s), k - 1)
          = [j \in 1..Block |-> Digests!Laid(s)[(k - 1) * Block + Digests!Stored(j - 1)]]
    BY DEF Digests!Words
  <2>2. ASSUME NEW j \in 1..Block
        PROVE  Digests!Laid(s)[(k - 1) * Block + Digests!Stored(j - 1)] = f[(k - 1) * Block + j]
    <3>1. PICK i : i = (k - 1) * Block + (j - 1)
      OBVIOUS
    <3>2. i \in 0..(L - 1) /\ i + 1 = (k - 1) * Block + j
      <4>1. PICK y \in Nat : y = (k - 1) * Block /\ y + Block <= L
        BY <1>4, PlacesOfBlock
      <4>2. i = y + (j - 1)
        BY <3>1, <4>1
      <4>3. i \in 0..(L - 1) /\ i + 1 = y + j
        <5>1. y + Block <= L
          BY <4>1
        <5> QED
          BY <4>2, <5>1, BlockIs
      <4> QED
        BY <4>1, <4>3
    <3>3. (k - 1) * Block + Digests!Stored(j - 1) = Digests!Stored(i)
      BY <3>1, StoredInBlock
    <3>4. Digests!Laid(s)[Digests!Stored(i)] = f[i + 1]
      <4>1. Sized(s, x, z, u, L) /\ z \in Nat
        BY <1>1, <1>2, <1>4, BlockIs DEF Sized
      <4>2. Digests!Laid(s)[Digests!Stored(i)] = InFull(s, z, Digests!BigEndian(x))[i + 1]
        <5>1. i \in 0..(L - 1)
          BY <3>2
        <5> QED
          BY <4>1, <5>1, LaidIs
      <4> QED
        BY <1>1, <1>4, <4>2
    <3> QED
      BY <3>2, <3>3, <3>4
  <2> QED
    BY <2>1, <2>2 DEF BlockOf
<1> QED
  BY <1>1, <1>6, <1>7, <1>8

-----------------------------------------------------------------------------
(* The two digests *)
InitDigest == Digests!Init
NextDigest == Digests!Next
SpecDigest == InitDigest /\ [][NextDigest]_Digests!vars

Bytes == {Message[i] : i \in DOMAIN Message} \cup {Marker} \cup Nat

Fed == SubSeq(Message, 1, fed)

DigestInv ==
  /\ fed \in 0..Len(Message)
  /\ Holds(md5ctx, Fed)
  /\ DigestOfTheMessage

LEMMA BytesAre == Message \in Seq(Bytes) /\ Marker \in Bytes /\ Nat \subseteq Bytes /\ Len(Message) \in Nat
<1>1. PICK S, m : S = {Message[i] : i \in DOMAIN Message} /\ m = Message
  OBVIOUS
<1>2. m \in Seq(S)
  BY <1>1, DigestAssumption
<1>3. Len(m) \in Nat /\ DOMAIN m = 1..Len(m) /\ m = [k \in DOMAIN m |-> m[k]] /\ \A k \in 1..Len(m) : m[k] \in S
  BY <1>2, LenProperties, ElementOfSeq
<1>4. \A k \in 1..Len(m) : m[k] \in Bytes
  BY <1>1, <1>3 DEF Bytes
<1>5. m \in Seq(Bytes)
  BY <1>3, <1>4, TableIsSequence
<1> QED
  BY <1>1, <1>3, <1>5 DEF Bytes

LEMMA FedIs ==
  ASSUME NEW n \in 0..Len(Message)
  PROVE  SubSeq(Message, 1, n) \in Seq(Bytes) /\ Len(SubSeq(Message, 1, n)) = n
<1>1. 1 \in Int /\ n \in Int /\ 1 <= 1 /\ n <= Len(Message) /\ n \in Nat /\ Message \in Seq(Bytes)
  BY BytesAre
<1>2. PICK l, f : f = SubSeq(Message, 1, n) /\ l = Len(f)
  OBVIOUS
<1>3. f \in Seq(Bytes) /\ l = IF 1 <= n THEN n - 1 + 1 ELSE 0
  BY <1>1, <1>2, PartIs
<1>4. l = n
  BY <1>1, <1>3
<1> QED
  BY <1>2, <1>3, <1>4

LEMMA NothingHeld == Holds(Digests!InitialContext, SubSeq(Message, 1, 0))
<1>1. PICK s, ctx : s = SubSeq(Message, 1, 0) /\ ctx = Digests!InitialContext
  OBVIOUS
<1>2. Len(s) = 0
  <2>1. 0 \in 0..Len(Message)
    BY BytesAre
  <2> QED
    BY <1>1, <2>1, FedIs
<1>3. 0 % Block = 0 /\ 0 \div Block = 0 /\ 0 % Word = 0 /\ 0 \div Word = 0 /\ 8 * 0 = 0
  <2>1. \A d \in Nat : d > 0 => 0 % d = 0 /\ 0 \div d = 0
    <3> SUFFICES ASSUME NEW d \in Nat, d > 0 PROVE 0 % d = 0 /\ 0 \div d = 0
      OBVIOUS
    <3>1. 0 = d * 0 + 0 /\ 0 \in 0..(d - 1)
      BY Z3
    <3> QED
      BY <3>1, DivisionIs
  <2> QED
    BY <2>1, BlockIs, WordIs
<1>4. ctx = [count |-> <<0, 0>>, buffer |-> Digests!Zeros(Block), state |-> <<>>]
  BY <1>1 DEF Digests!InitialContext
<1>5. ctx = [count |-> ctx.count, buffer |-> ctx.buffer, state |-> ctx.state] /\ ctx.count = <<0, 0>> /\ ctx.state = <<>>
  BY <1>4
<1>6. [k \in 1..0 |-> BlockOf(s, k)] = <<>>
  OBVIOUS
<1>7. \A p \in 1..0 : ctx.buffer[p] = s[Block * 0 + p]
  OBVIOUS
<1> QED
  BY <1>1, <1>2, <1>3, <1>5, <1>6, <1>7 DEF Holds

LEMMA DigestInit == InitDigest => DigestInv
<1> SUFFICES ASSUME InitDigest PROVE DigestInv
  OBVIOUS
<1>1. md5ctx = Digests!InitialContext /\ fed = 0 /\ digest = Digests!NULL
  BY DEF InitDigest, Digests!Init
<1> QED
  BY <1>1, NothingHeld, BytesAre DEF DigestInv, Fed, DigestOfTheMessage, Digests!DigestOfTheMessage

LEMMA DigestStep == DigestInv /\ [NextDigest]_Digests!vars => DigestInv'
<1> SUFFICES ASSUME DigestInv, [NextDigest]_Digests!vars PROVE DigestInv'
  OBVIOUS
<1>1. fed \in 0..Len(Message) /\ Holds(md5ctx, Fed) /\ DigestOfTheMessage /\ Len(Message) \in Nat
  BY BytesAre DEF DigestInv
<1>2. Fed \in Seq(Bytes) /\ Len(Fed) = fed
  BY <1>1, FedIs DEF Fed
<1>3. CASE Digests!MD5Update
  <2>1. PICK length \in PieceLengths :
          /\ fed + length <= Len(Message)
          /\ md5ctx' = Digests!Update(md5ctx, SubSeq(Message, fed + 1, fed + length))
          /\ fed' = fed + length
          /\ digest' = Digests!NULL
    BY <1>3 DEF Digests!MD5Update
  <2>2. length \in Nat /\ fed \in Nat /\ fed' \in 0..Len(Message)
    <3>1. length \in Nat
      BY DigestAssumption
    <3> QED
      BY <1>1, <2>1, <3>1
  <2>3. PICK input : input = SubSeq(Message, fed + 1, fed + length)
    OBVIOUS
  <2>4. input \in Seq(Bytes)
    <3>1. fed + 1 \in Int /\ fed + length \in Int /\ 1 <= fed + 1 /\ Message \in Seq(Bytes)
      BY <2>2, BytesAre
    <3> QED
      BY <2>1, <2>3, <3>1, PartIs
  <2>5. Holds(md5ctx', Fed \o input)
    BY <1>1, <1>2, <2>1, <2>3, <2>4, UpdateHolds
  <2>6. Fed \o input = SubSeq(Message, 1, fed + length)
    <3>1. /\ 1 \in 1..(Len(Message) + 1) /\ fed \in (1 - 1)..Len(Message) /\ fed + length \in fed..Len(Message)
          /\ Message \in Seq(Bytes)
      BY <1>1, <2>1, <2>2, BytesAre
    <3>2. SubSeq(Message, 1, fed) \o SubSeq(Message, fed + 1, fed + length) = SubSeq(Message, 1, fed + length)
      BY <3>1, ConcatAdjacentSubSeq
    <3> QED
      BY <2>3, <3>2 DEF Fed
  <2>7. Holds(md5ctx', Fed')
    BY <2>1, <2>5, <2>6 DEF Fed
  <2>8. DigestOfTheMessage'
    BY <2>1 DEF DigestOfTheMessage, Digests!DigestOfTheMessage, Digests!NULL
  <2> QED
    BY <2>2, <2>7, <2>8 DEF DigestInv
<1>4. CASE Digests!MD5Final
  <2>1. /\ digest' = [by |-> "md5", of |-> fed, hash |-> Digests!Final(md5ctx)]
        /\ md5ctx' = Digests!InitialContext /\ fed' = 0
    BY <1>4 DEF Digests!MD5Final
  <2>2. Holds(md5ctx', Fed') /\ fed' \in 0..Len(Message)
    BY <1>1, <2>1, NothingHeld DEF Fed
  <2>3. Digests!Final(md5ctx) = Digests!Padded(Fed, Digests!LittleEndian(8 * Len(Fed)))
    BY <1>1, <1>2, BytesAre, FinalIs
  <2>4. DigestOfTheMessage'
    BY <1>2, <2>1, <2>3 DEF DigestOfTheMessage, Digests!DigestOfTheMessage, Fed
  <2> QED
    BY <2>2, <2>4 DEF DigestInv
<1>5. CASE Digests!Sha256
  <2>1. /\ \/ digest' = [by |-> "sha256", of |-> fed, hash |-> Digests!Sha256Blocks(SubSeq(Message, 1, fed))]
           \/ digest' = Digests!NULL
        /\ md5ctx' = md5ctx /\ fed' = fed
    BY <1>5 DEF Digests!Sha256
  <2>2. Holds(md5ctx', Fed') /\ fed' \in 0..Len(Message)
    BY <1>1, <2>1 DEF Fed
  <2>3. Digests!Sha256Blocks(Fed) = Digests!Padded(Fed, Digests!BigEndian(8 * Len(Fed)))
    BY <1>2, BytesAre, ShaIs
  <2>4. ASSUME digest' = Digests!NULL PROVE DigestOfTheMessage'
    BY <2>4 DEF DigestOfTheMessage, Digests!DigestOfTheMessage, Digests!NULL
  <2>5. ASSUME digest' = [by |-> "sha256", of |-> fed, hash |-> Digests!Sha256Blocks(SubSeq(Message, 1, fed))]
        PROVE  DigestOfTheMessage'
    BY <1>2, <2>5, <2>3 DEF DigestOfTheMessage, Digests!DigestOfTheMessage, Fed
  <2>6. DigestOfTheMessage'
    BY <2>1, <2>4, <2>5
  <2> QED
    BY <2>2, <2>6 DEF DigestInv
<1>6. CASE UNCHANGED Digests!vars
  <2>1. md5ctx' = md5ctx /\ fed' = fed /\ digest' = digest
    BY <1>6 DEF Digests!vars
  <2> QED
    BY <1>1, <2>1 DEF DigestInv, Fed, DigestOfTheMessage, Digests!DigestOfTheMessage
<1> QED
  BY <1>3, <1>4, <1>5, <1>6 DEF NextDigest, Digests!Next

(* MD5 and sha256 digest the padded message, for any pieces, any number of
   messages one after the other and any sizes. *)
THEOREM DigestOfTheMessageHolds == SpecDigest => []DigestOfTheMessage
<1>1. DigestInv => DigestOfTheMessage
  BY DEF DigestInv
<1> QED
  BY <1>1, DigestInit, DigestStep, PTL DEF SpecDigest

-----------------------------------------------------------------------------
(* Packet headers.  What is stored of a number, as far as it fits, is the
   number. *)
LEMMA WeightsAre ==
  /\ Packets!Weights[1] = 1 /\ Packets!Weights[2] = 256
  /\ Packets!Weights[3] = 65536 /\ Packets!Weights[4] = 16777216
BY DEF Packets!Weights

LEMMA OneByte == \A n \in Nat : n < 256 => Packets!Number(Packets!LittleEndian(n, 1)) = n
<1> SUFFICES ASSUME NEW n \in Nat, n < 256 PROVE Packets!Number(Packets!LittleEndian(n, 1)) = n
  OBVIOUS
<1> DEFINE s == Packets!LittleEndian(n, 1)
<1>1. Len(s) = 1 /\ s[1] = n
  <2>1. s = [k \in 1..1 |-> (n \div Packets!Weights[k]) % 256]
    BY DEF Packets!LittleEndian
  <2>2. s[1] = (n \div 1) % 256
    BY <2>1, WeightsAre
  <2> QED
    BY <2>1, <2>2
<1> HIDE DEF s
<1>2. Packets!Number(s) = n
  BY <1>1, WeightsAre DEF Packets!Number
<1> QED
  BY <1>2 DEF s

LEMMA TwoBytes == \A n \in Nat : n < 65536 => Packets!Number(Packets!LittleEndian(n, 2)) = n
<1> SUFFICES ASSUME NEW n \in Nat, n < 65536 PROVE Packets!Number(Packets!LittleEndian(n, 2)) = n
  OBVIOUS
<1> DEFINE s == Packets!LittleEndian(n, 2)
<1>1. Len(s) = 2 /\ s[1] = n % 256 /\ s[2] = (n \div 256) % 256
  <2>1. s = [k \in 1..2 |-> (n \div Packets!Weights[k]) % 256]
    BY DEF Packets!LittleEndian
  <2>2. s[1] = (n \div 1) % 256 /\ s[2] = (n \div 256) % 256
    BY <2>1, WeightsAre
  <2> QED
    BY <2>1, <2>2
<1> HIDE DEF s
<1>2. Packets!Number(s) = s[1] * 1 + s[2] * 256
  <2>1. s[1] \in Nat /\ s[2] \in Nat
    BY <1>1
  <2> QED
    BY <1>1, <2>1, WeightsAre DEF Packets!Number
<1>3. Packets!Number(s) = n
  BY <1>1, <1>2
<1> QED
  BY <1>3 DEF s

LEMMA ByteBelow == \A q \in Nat : q \div 256 \in Nat /\ q % 256 \in Nat /\ q % 256 < 256 /\ q = 256 * (q \div 256) + (q % 256)
OBVIOUS

LEMMA FourBytes == \A n \in Nat : n <= 2147483647 => Packets!Number(Packets!LittleEndian(n, 4)) = n
<1> SUFFICES ASSUME NEW n \in Nat, n <= 2147483647 PROVE Packets!Number(Packets!LittleEndian(n, 4)) = n
  OBVIOUS
<1> DEFINE s == Packets!LittleEndian(n, 4)
           a == n \div 256
           b == a \div 256
           c == b \div 256
<1>1. /\ a \in Nat /\ b \in Nat /\ c \in Nat
      /\ n = 256 * a + (n % 256) /\ a = 256 * b + (a % 256) /\ b = 256 * c + (b % 256)
      /\ n % 256 \in Nat /\ a % 256 \in Nat /\ b % 256 \in Nat
  BY ByteBelow
<1>2. n \div 65536 = b /\ n \div 16777216 = c
  OBVIOUS
<1>3. c < 256
  <2> HIDE DEF a, b, c
  <2> QED
    BY <1>1
<1>4. Len(s) = 4 /\ s[1] = n % 256 /\ s[2] = a % 256 /\ s[3] = b % 256 /\ s[4] = c
  <2>1. s = [k \in 1..4 |-> (n \div Packets!Weights[k]) % 256]
    BY DEF Packets!LittleEndian
  <2>2. s[1] = (n \div 1) % 256 /\ s[2] = a % 256 /\ s[3] = b % 256 /\ s[4] = c % 256
    BY <1>2, <2>1, WeightsAre
  <2>3. n \div 1 = n /\ c % 256 = c
    BY <1>1, <1>3
  <2> QED
    BY <2>1, <2>2, <2>3
<1> HIDE DEF s, a, b, c
<1>5. Packets!Number(s) = s[1] * 1 + s[2] * 256 + s[3] * 65536 + s[4] * 16777216
  <2>1. s[1] \in Nat /\ s[2] \in Nat /\ s[3] \in Nat /\ s[4] \in Nat
    BY <1>1, <1>4
  <2> QED
    BY <1>4, <2>1, WeightsAre DEF Packets!Number
<1>6. Packets!Number(s) = n
  BY <1>1, <1>4, <1>5
<1> QED
  BY <1>6 DEF s

\* Turned round in the builder and again in the parser.
LEMMA TurnedTwice ==
  \A n, size : size \in {1, 2, 4} =>
    Packets!Reverse(Packets!Reverse(Packets!LittleEndian(n, size))) = Packets!LittleEndian(n, size)
<1> SUFFICES ASSUME NEW n, NEW size \in {1, 2, 4}
             PROVE  Packets!Reverse(Packets!Reverse(Packets!LittleEndian(n, size))) = Packets!LittleEndian(n, size)
  OBVIOUS
<1> DEFINE s == Packets!LittleEndian(n, size)
           byte(k) == (n \div Packets!Weights[k]) % 256
<1>1. s = [k \in 1..size |-> byte(k)]
  BY DEF Packets!LittleEndian
<1> HIDE DEF byte, s
<1>2. Len(s) = size /\ \A k \in 1..size : s[k] = byte(k)
  BY <1>1
<1> DEFINE r == [k \in 1..size |-> s[(size - k) + 1]]
<1>3. Packets!Reverse(s) = r
  BY <1>2 DEF Packets!Reverse
<1>4. Len(r) = size /\ \A k \in 1..size : (size - k) + 1 \in 1..size /\ r[(size - k) + 1] = s[k]
  <2>1. \A k \in 1..size : (size - k) + 1 \in 1..size /\ (size - ((size - k) + 1)) + 1 = k
    OBVIOUS
  <2> QED
    BY <2>1
<1> HIDE DEF r
<1>5. Packets!Reverse(r) = [k \in 1..size |-> r[(size - k) + 1]]
  BY <1>4 DEF Packets!Reverse
<1>6. Packets!Reverse(r) = [k \in 1..size |-> byte(k)]
  BY <1>2, <1>4, <1>5
<1> QED
  BY <1>1, <1>3, <1>6 DEF s

LEMMA SwInverts ==
  ASSUME NEW cb \in Nat, cb <= 2147483647
  PROVE  Packets!SwParser(Packets!SwBuilder(cb)) = IF cb + Packets!SwLength < Packets!SwMaximum THEN cb ELSE Packets!Refused
<1> DEFINE flag == Packets!LittleEndian(Packets!PACKET_FLAG_DATA, 2)
           zero == Packets!LittleEndian(0, 2)
           size == Packets!LittleEndian(cb, 4)
           host == [wFlagHead |-> flag, wPacketFlag |-> zero, ulPacketLenght |-> size, ulSrcLen |-> size]
           net == Packets!Convert(host, TRUE, FALSE)
           back == Packets!Convert(net, FALSE, TRUE)
<1>1. /\ Packets!Reverse(Packets!Reverse(flag)) = flag /\ Packets!Reverse(Packets!Reverse(size)) = size
      /\ Packets!Number(flag) = Packets!PACKET_FLAG_DATA /\ Packets!Number(size) = cb
  <2>1. Packets!PACKET_FLAG_DATA \in Nat /\ Packets!PACKET_FLAG_DATA < 65536
    BY DEF Packets!PACKET_FLAG_DATA
  <2> QED
    BY <2>1, TurnedTwice, TwoBytes, FourBytes
<1> HIDE DEF flag, zero, size
<1>2. net = [field \in DOMAIN host |-> Packets!Reverse(host[field])]
  BY DEF Packets!Convert
<1>3. DOMAIN host = {"wFlagHead", "wPacketFlag", "ulPacketLenght", "ulSrcLen"} /\ host.wFlagHead = flag /\ host.ulPacketLenght = size
  OBVIOUS
<1> HIDE DEF host, net
<1>4. net.wFlagHead = Packets!Reverse(flag) /\ net.ulPacketLenght = Packets!Reverse(size) /\ DOMAIN net = DOMAIN host
  <2>1. DOMAIN net = DOMAIN host /\ \A field \in DOMAIN host : net[field] = Packets!Reverse(host[field])
    BY <1>2
  <2>2. "wFlagHead" \in DOMAIN host /\ "ulPacketLenght" \in DOMAIN host
    BY <1>3
  <2> QED
    BY <1>3, <2>1, <2>2
<1>5. back = [field \in DOMAIN net |-> Packets!Reverse(net[field])]
  BY DEF Packets!Convert
<1> HIDE DEF back
<1>6. back.wFlagHead = flag /\ back.ulPacketLenght = size
  <2>1. \A field \in DOMAIN net : back[field] = Packets!Reverse(net[field])
    BY <1>5
  <2>2. "wFlagHead" \in DOMAIN net /\ "ulPacketLenght" \in DOMAIN net
    BY <1>3, <1>4
  <2>3. back.wFlagHead = Packets!Reverse(net.wFlagHead) /\ back.ulPacketLenght = Packets!Reverse(net.ulPacketLenght)
    BY <2>1, <2>2
  <2> QED
    BY <1>1, <1>4, <2>3
<1>7. Packets!SwParser(net) = IF Packets!Number(back.wFlagHead) # Packets!PACKET_FLAG_DATA THEN Packets!Refused
                              ELSE IF Packets!Number(back.ulPacketLenght) + Packets!SwLength >= Packets!SwMaximum THEN Packets!Refused
                              ELSE Packets!Number(back.ulPacketLenght)
  BY DEF Packets!SwParser, back
<1>8. Packets!SwParser(net) = IF cb + Packets!SwLength >= Packets!SwMaximum THEN Packets!Refused ELSE cb
  BY <1>1, <1>6, <1>7
<1>9. cb + Packets!SwLength < Packets!SwMaximum <=> ~(cb + Packets!SwLength >= Packets!SwMaximum)
  BY DEF Packets!SwLength, Packets!SwMaximum
<1>10. net = Packets!SwBuilder(cb)
  BY DEF net, host, flag, zero, size, Packets!SwBuilder
<1> QED
  BY <1>8, <1>9, <1>10

LEMMA PacketsAreFramed == \A cb \in Nat : cb <= 2147483647 => Packets!FramesInvert(cb)
<1> SUFFICES ASSUME NEW cb \in Nat, cb <= 2147483647 PROVE Packets!FramesInvert(cb)
  OBVIOUS
<1>1. Packets!SwParser(Packets!SwBuilder(cb)) = IF cb + Packets!SwLength < Packets!SwMaximum THEN cb ELSE Packets!Refused
  BY SwInverts
<1>2. Packets!Ieee104Builder(cb) # Nothing => Packets!Ieee104Parser(Packets!Ieee104Builder(cb)) = cb
  <2> SUFFICES ASSUME ~(cb > Packets!MAXIMUM_IEEE104_PKTCB)
               PROVE  Packets!Ieee104Parser(Packets!Ieee104Builder(cb)) = cb
    BY DEF Packets!Ieee104Builder
  <2>1. Packets!Number(Packets!LittleEndian(cb, 1)) = cb
    BY OneByte DEF Packets!MAXIMUM_IEEE104_PKTCB
  <2>2. Packets!Ieee104Builder(cb) = [op_ |-> <<Packets!IEEE104_OPCODE>>, cb_ |-> Packets!LittleEndian(cb, 1)]
    BY DEF Packets!Ieee104Builder
  <2> QED
    BY <2>1, <2>2 DEF Packets!Ieee104Parser
<1>3. Packets!NspdefBuilder(cb) # Nothing => Packets!NspdefParser(Packets!NspdefBuilder(cb)) = cb
  <2> SUFFICES ASSUME ~(cb <= 0) PROVE Packets!NspdefParser(Packets!NspdefBuilder(cb)) = cb
    BY DEF Packets!NspdefBuilder
  <2>1. Packets!Number(Packets!LittleEndian(cb, 4)) = cb
    BY FourBytes
  <2>2. Packets!NspdefBuilder(cb) = [op_ |-> Opcode, cb_ |-> Packets!LittleEndian(cb, 4)]
    BY DEF Packets!NspdefBuilder
  <2> QED
    BY <2>1, <2>2 DEF Packets!NspdefParser
<1> QED
  BY <1>1, <1>2, <1>3 DEF Packets!FramesInvert

-----------------------------------------------------------------------------
(* Recursive functions on an interval exist: for each n there is one up to n,
   and the smallest n without one would have one after all. *)
\* f is the function that starts at a and goes on from k - 1 to k as g says.
Grows(f, V, n, a, g) == f \in [0..n -> V] /\ f[0] = a /\ \A k \in 1..n : f[k] = g[<<k, f[k - 1]>>]

LEMMA GrownExists ==
  ASSUME NEW V, NEW n \in Nat, NEW a \in V, NEW g \in [(1..n) \X V -> V]
  PROVE  \E f : Grows(f, V, n, a, g)
<1> DEFINE Without == {m \in Nat : m <= n /\ ~\E f : Grows(f, V, m, a, g)}
<1>1. ASSUME Without # {} PROVE FALSE
  <2>1. PICK m \in Without : \A y \in Without : m <= y
    BY <1>1, Smallest
  <2>2. m \in Nat /\ m <= n /\ ~\E f : Grows(f, V, m, a, g)
    BY <2>1
  <2>3. CASE m = 0
    <3> DEFINE f == [k \in 0..0 |-> a]
    <3>1. f \in [0..0 -> V] /\ f[0] = a /\ 1..0 = {}
      OBVIOUS
    <3> HIDE DEF f
    <3>2. Grows(f, V, 0, a, g)
      BY <3>1 DEF Grows
    <3> QED
      BY <2>2, <2>3, <3>2
  <2>4. CASE m > 0
    <3>1. m - 1 \in Nat /\ m - 1 <= n /\ ~(m <= m - 1)
      BY <2>2, <2>4
    <3>2. m - 1 \notin Without
      <4> HIDE DEF Without
      <4> QED
        BY <2>1, <3>1
    <3>3. PICK h : Grows(h, V, m - 1, a, g)
      BY <3>1, <3>2
    <3>4. h[m - 1] \in V /\ m \in 1..n
      BY <2>2, <2>4, <3>3 DEF Grows
    <3> DEFINE top == g[<<m, h[m - 1]>>]
               f == [k \in 0..m |-> IF k = m THEN top ELSE h[k]]
    <3>5. top \in V
      BY <3>4
    <3> HIDE DEF top
    <3>6. \A k \in 0..m : k = m \/ k \in 0..(m - 1)
      BY <2>2
    <3>7. f \in [0..m -> V] /\ f[0] = a /\ f[m] = top /\ \A k \in 0..(m - 1) : f[k] = h[k]
      <4>1. \A k \in 0..(m - 1) : k \in 0..m /\ k # m /\ h[k] \in V
        BY <2>2, <3>3 DEF Grows
      <4>2. h[0] = a /\ 0 \in 0..(m - 1)
        BY <2>2, <2>4, <3>3 DEF Grows
      <4> QED
        BY <2>2, <3>5, <3>6, <4>1, <4>2
    <3> HIDE DEF f
    <3>8. ASSUME NEW k \in 1..m PROVE f[k] = g[<<k, f[k - 1]>>]
      <4>1. k - 1 \in 0..(m - 1) /\ f[k - 1] = h[k - 1]
        BY <2>2, <3>7
      <4>2. CASE k = m
        BY <3>7, <4>1, <4>2 DEF top
      <4>3. CASE k # m
        <5>1. k \in 1..(m - 1) /\ k \in 0..(m - 1)
          BY <2>2, <4>3
        <5> QED
          BY <3>3, <3>7, <4>1, <5>1 DEF Grows
      <4> QED
        BY <4>2, <4>3
    <3>9. Grows(f, V, m, a, g)
      BY <3>7, <3>8 DEF Grows
    <3> QED
      BY <2>2, <3>9
  <2> QED
    BY <2>2, <2>3, <2>4
<1>2. n \notin Without
  BY <1>1
<1> QED
  BY <1>2

-----------------------------------------------------------------------------
(* Sequences joined to one. *)
Flat(seqs) ==
  IF Len(seqs) = 0 THEN seqs ELSE
    LET flatten[i \in 1..Len(seqs)] == IF i = 1 THEN seqs[i] ELSE flatten[i - 1] \o seqs[i]
    IN  flatten[Len(seqs)]

\* f is what is joined step by step.
Joins(f, seqs, S) ==
  /\ seqs \in Seq(Seq(S)) /\ f \in [0..Len(seqs) -> Seq(S)] /\ f[0] = <<>>
  /\ \A i \in 1..Len(seqs) : f[i] = f[i - 1] \o seqs[i]
  /\ Flat(seqs) = f[Len(seqs)]

LEMMA FlatIs == ASSUME NEW S, NEW seqs \in Seq(Seq(S)) PROVE \E f : Joins(f, seqs, S)
<1> DEFINE n == Len(seqs)
           g == [p \in (1..n) \X Seq(S) |-> p[2] \o seqs[p[1]]]
           Step(h, i) == IF i = 1 THEN seqs[i] ELSE h[i - 1] \o seqs[i]
           whole == CHOOSE h : h = [i \in 1..n |-> Step(h, i)]
<1>1. n \in Nat /\ \A i \in 1..n : seqs[i] \in Seq(S)
  BY LenProperties, ElementOfSeq
<1>2. Flat(seqs) = IF n = 0 THEN seqs ELSE whole[n]
  BY DEF Flat
<1> HIDE DEF n
<1>3. <<>> \in Seq(S) /\ g \in [(1..n) \X Seq(S) -> Seq(S)]
  <2>1. \A p \in (1..n) \X Seq(S) : p[2] \o seqs[p[1]] \in Seq(S)
    BY <1>1, ConcatProperties
  <2> QED
    BY <2>1
<1>4. \A i \in 1..n : \A s \in Seq(S) : g[<<i, s>>] = s \o seqs[i]
  OBVIOUS
<1> HIDE DEF g
<1>5. PICK f : Grows(f, Seq(S), n, <<>>, g)
  BY <1>1, <1>3, GrownExists
<1>6. /\ f \in [0..n -> Seq(S)] /\ f[0] = <<>>
      /\ \A i \in 1..n : f[i] = f[i - 1] \o seqs[i]
  <2>1. f \in [0..n -> Seq(S)] /\ f[0] = <<>> /\ \A i \in 1..n : f[i] = g[<<i, f[i - 1]>>]
    BY <1>5 DEF Grows
  <2>2. \A i \in 1..n : i - 1 \in 0..n /\ f[i - 1] \in Seq(S)
    BY <1>1, <2>1
  <2> QED
    BY <1>4, <2>1, <2>2
<1>7. n > 0 => whole[n] = f[n]
  <2> SUFFICES ASSUME n > 0 PROVE whole[n] = f[n]
    OBVIOUS
  <2> DEFINE h == [i \in 1..n |-> f[i]]
  <2>1. \A i \in 1..n : h[i] = Step(h, i)
    <3> SUFFICES ASSUME NEW i \in 1..n PROVE h[i] = Step(h, i)
      OBVIOUS
    <3>1. CASE i = 1
      <4>0. 1 \in 1..n /\ 1 - 1 = 0
        BY <1>1
      <4>1. f[1] = f[0] \o seqs[1] /\ seqs[1] \in Seq(S)
        <5>1. f[1] = f[1 - 1] \o seqs[1]
          BY <1>6, <4>0
        <5> QED
          BY <1>1, <4>0, <5>1
      <4>2. <<>> \o seqs[1] = seqs[1]
        BY <4>1, ConcatEmptySeq
      <4> QED
        BY <1>6, <3>1, <4>1, <4>2
    <3>2. CASE i # 1
      <4>1. i - 1 \in 1..n
        BY <1>1, <3>2
      <4> QED
        BY <1>6, <3>2, <4>1
    <3> QED
      BY <3>1, <3>2
  <2>2. h = [i \in 1..n |-> Step(h, i)]
    <3>1. h = [i \in 1..n |-> h[i]]
      OBVIOUS
    <3> HIDE DEF h, Step
    <3> QED
      BY <2>1, <3>1
  <2>3. whole = [i \in 1..n |-> Step(whole, i)]
    <3> HIDE DEF h
    <3> QED
      BY <2>2
  <2> HIDE DEF whole
  <2> DEFINE Bad == {i \in Nat : i \in 1..n /\ whole[i] # f[i]}
  <2>4. ASSUME Bad # {} PROVE FALSE
    <3>1. PICK i \in Bad : \A y \in Bad : i <= y
      BY <2>4, Smallest
    <3>2. i \in 1..n /\ whole[i] # f[i] /\ whole[i] = Step(whole, i)
      BY <2>3, <3>1
    <3>3. CASE i = 1
      <4>0. 1 \in 1..n /\ 1 - 1 = 0
        BY <1>1
      <4>1. f[1] = <<>> \o seqs[1] /\ seqs[1] \in Seq(S) /\ whole[1] = seqs[1]
        <5>1. f[1] = f[1 - 1] \o seqs[1]
          BY <1>6, <4>0
        <5>2. whole[1] = seqs[1]
          BY <3>2, <3>3
        <5> QED
          BY <1>1, <1>6, <4>0, <5>1, <5>2
      <4>2. <<>> \o seqs[1] = seqs[1]
        BY <4>1, ConcatEmptySeq
      <4> QED
        BY <3>2, <3>3, <4>1, <4>2
    <3>4. CASE i # 1
      <4>1. i - 1 \in 1..n /\ ~(i <= i - 1) /\ i - 1 \in Nat
        BY <1>1, <3>2, <3>4
      <4>2. whole[i - 1] = f[i - 1]
        BY <3>1, <4>1
      <4> QED
        BY <1>6, <3>2, <3>4, <4>2
    <3> QED
      BY <3>3, <3>4
  <2>5. n \notin Bad
    BY <2>4
  <2> QED
    BY <1>1, <2>5
<1>8. Flat(seqs) = f[n]
  <2>1. CASE n = 0
    BY <1>2, <1>6, <2>1, EmptySeq DEF n
  <2>2. CASE n # 0
    BY <1>1, <1>2, <1>7, <2>2
  <2> QED
    BY <2>1, <2>2
<1> QED
  BY <1>6, <1>8 DEF Joins, n

\* What is joined later leaves what was joined before where it is.
InPlace(f, seqs, S) ==
  /\ Flat(seqs) \in Seq(S) /\ Len(f[0]) = 0
  /\ \A i \in 1..Len(seqs) : Len(f[i]) = Len(f[i - 1]) + Len(seqs[i])
  /\ \A k \in 0..Len(seqs) : Len(f[k]) \in Nat /\ Len(f[k]) <= Len(Flat(seqs))
  /\ \A i \in 1..Len(seqs) : \A j \in 1..Len(seqs[i]) :
       /\ Len(f[i - 1]) + j \in 1..Len(Flat(seqs))
       /\ Flat(seqs)[Len(f[i - 1]) + j] = seqs[i][j]

LEMMA JoinsReads == \A f, seqs, S : Joins(f, seqs, S) => InPlace(f, seqs, S)
<1> SUFFICES ASSUME NEW f, NEW seqs, NEW S, Joins(f, seqs, S) PROVE InPlace(f, seqs, S)
  OBVIOUS
<1> DEFINE n == Len(seqs)
<1>1. /\ n \in Nat /\ f[0] = <<>> /\ Flat(seqs) = f[n]
      /\ \A k \in 0..n : f[k] \in Seq(S) /\ Len(f[k]) \in Nat
      /\ \A i \in 1..n : seqs[i] \in Seq(S) /\ Len(seqs[i]) \in Nat /\ f[i] = f[i - 1] \o seqs[i] /\ i - 1 \in 0..n /\ i \in 0..n
  <2>1. n \in Nat /\ \A i \in 1..n : seqs[i] \in Seq(S)
    BY LenProperties, ElementOfSeq DEF Joins
  <2>2. \A s \in Seq(S) : Len(s) \in Nat
    BY LenProperties
  <2>3. \A i \in 1..n : i - 1 \in 0..n /\ i \in 0..n
    BY <2>1
  <2> QED
    BY <2>1, <2>2, <2>3 DEF Joins
<1> HIDE DEF n
<1>2. ASSUME NEW i \in 1..n
      PROVE  /\ Len(f[i]) = Len(f[i - 1]) + Len(seqs[i])
             /\ \A j \in 1..Len(f[i - 1]) : f[i][j] = f[i - 1][j]
             /\ \A j \in 1..Len(seqs[i]) : f[i][Len(f[i - 1]) + j] = seqs[i][j]
  <2>1. PICK s \in Seq(S), t \in Seq(S) : s = f[i - 1] /\ t = seqs[i] /\ f[i] = s \o t
    BY <1>1
  <2>2. Len(s) \in Nat /\ Len(t) \in Nat
    BY LenProperties
  <2>3. /\ Len(s \o t) = Len(s) + Len(t)
        /\ \A j \in 1..(Len(s) + Len(t)) : (s \o t)[j] = IF j <= Len(s) THEN s[j] ELSE t[j - Len(s)]
    BY ConcatProperties
  <2>4. \A j \in 1..Len(s) : j \in 1..(Len(s) + Len(t)) /\ j <= Len(s)
    BY <2>2
  <2>5. \A j \in 1..Len(t) : Len(s) + j \in 1..(Len(s) + Len(t)) /\ ~(Len(s) + j <= Len(s)) /\ (Len(s) + j) - Len(s) = j
    BY <2>2
  <2>6. Len(f[i]) = Len(f[i - 1]) + Len(seqs[i])
    BY <2>1, <2>3
  <2>7. \A j \in 1..Len(s) : (s \o t)[j] = s[j]
    BY <2>3, <2>4
  <2>8. \A j \in 1..Len(t) : (s \o t)[Len(s) + j] = t[j]
    BY <2>3, <2>5
  <2> QED
    BY <2>1, <2>6, <2>7, <2>8
<1> DEFINE Kept(k) == Len(f[k]) <= Len(f[n]) /\ \A j \in 1..Len(f[k]) : f[n][j] = f[k][j]
           Bad == {d \in Nat : d <= n /\ ~Kept(n - d)}
<1>3. ASSUME Bad # {} PROVE FALSE
  <2>1. PICK d \in Bad : \A y \in Bad : d <= y
    BY <1>3, Smallest
  <2>2. d \in Nat /\ d <= n /\ ~Kept(n - d)
    BY <2>1
  <2>3. d # 0
    <3>1. Kept(n)
      BY <1>1
    <3>2. n - 0 = n
      BY <1>1
    <3> QED
      BY <2>2, <3>1, <3>2
  <2>4. d - 1 \in Nat /\ d - 1 <= n /\ ~(d <= d - 1)
    BY <1>1, <2>2, <2>3
  <2>5. PICK k \in 1..n : k = n - (d - 1) /\ k - 1 = n - d /\ k - 1 \in 0..n /\ k \in 0..n
    BY <1>1, <2>2, <2>3
  <2>6. Kept(k)
    <3> HIDE DEF Kept
    <3> QED
      BY <2>1, <2>4, <2>5
  <2>7. Kept(k - 1)
    <3>1. Len(f[k]) \in Nat /\ Len(f[k - 1]) \in Nat /\ Len(f[n]) \in Nat /\ Len(seqs[k]) \in Nat
      <4>1. n \in 0..n
        BY <1>1
      <4>2. Len(f[k]) \in Nat /\ Len(f[k - 1]) \in Nat
        BY <1>1, <2>5
      <4>3. Len(f[n]) \in Nat
        BY <1>1, <4>1
      <4>4. Len(seqs[k]) \in Nat
        BY <1>1
      <4> QED
        BY <4>2, <4>3, <4>4
    <3>2. Len(f[k]) = Len(f[k - 1]) + Len(seqs[k]) /\ \A j \in 1..Len(f[k - 1]) : f[k][j] = f[k - 1][j]
      BY <1>2
    <3>3. PICK a \in Nat, b \in Nat, c \in Nat, d1 \in Nat :
            a = Len(f[k - 1]) /\ b = Len(f[k]) /\ c = Len(f[n]) /\ d1 = Len(seqs[k])
      BY <3>1
    <3>4. b = a + d1 /\ b <= c
      BY <2>6, <3>2, <3>3
    <3>5. a <= c /\ \A j \in 1..a : j \in 1..b
      BY <3>4
    <3>6. \A j \in 1..a : f[n][j] = f[k - 1][j]
      BY <2>6, <3>2, <3>3, <3>5
    <3> QED
      BY <3>3, <3>5, <3>6
  <2> HIDE DEF Kept
  <2> QED
    BY <2>2, <2>5, <2>7
<1>4. \A k \in 0..n : Kept(k)
  <2> SUFFICES ASSUME NEW k \in 0..n PROVE Kept(k)
    OBVIOUS
  <2>1. n - k \in Nat /\ n - k <= n /\ n - (n - k) = k
    BY <1>1
  <2> HIDE DEF Kept
  <2>2. n - k \notin Bad
    BY <1>3
  <2> QED
    BY <2>1, <2>2
<1>5. ASSUME NEW i \in 1..n, NEW j \in 1..Len(seqs[i])
      PROVE  Len(f[i - 1]) + j \in 1..Len(f[n]) /\ f[n][Len(f[i - 1]) + j] = seqs[i][j]
  <2>1. Len(f[i]) \in Nat /\ Len(f[i - 1]) \in Nat /\ Len(seqs[i]) \in Nat /\ Len(f[n]) \in Nat
    BY <1>1
  <2>0. Len(f[i]) = Len(f[i - 1]) + Len(seqs[i]) /\ f[i][Len(f[i - 1]) + j] = seqs[i][j]
    BY <1>2
  <2>2. Len(f[i - 1]) + j \in 1..Len(f[i])
    <3>1. PICK a \in Nat, b \in Nat, c \in Nat : a = Len(f[i - 1]) /\ b = Len(seqs[i]) /\ c = Len(f[i])
      BY <2>1
    <3>2. c = a + b /\ j \in 1..b
      BY <2>0, <3>1
    <3>3. a + j \in 1..c
      BY <3>2
    <3> QED
      BY <3>1, <3>3
  <2>3. f[n][Len(f[i - 1]) + j] = f[i][Len(f[i - 1]) + j] /\ Len(f[i]) <= Len(f[n])
    BY <1>1, <1>4, <2>2
  <2>4. Len(f[i - 1]) + j \in 1..Len(f[n])
    <3>1. \A m \in 1..Len(f[i]) : m \in 1..Len(f[n])
      BY <2>1, <2>3
    <3> QED
      BY <2>2, <3>1
  <2> QED
    BY <2>0, <2>3, <2>4
<1>6. Flat(seqs) \in Seq(S) /\ Len(f[0]) = 0 /\ \A i \in 1..n : Len(f[i]) = Len(f[i - 1]) + Len(seqs[i])
  <2>1. n \in 0..n
    BY <1>1
  <2>2. Len(<<>>) = 0
    BY EmptySeq
  <2>3. Flat(seqs) \in Seq(S) /\ Len(f[0]) = 0
    BY <1>1, <2>1, <2>2
  <2> QED
    BY <1>2, <2>3
<1>7. \A k \in 0..n : Len(f[k]) \in Nat /\ Len(f[k]) <= Len(Flat(seqs))
  BY <1>1, <1>4
<1>8. \A i \in 1..n : \A j \in 1..Len(seqs[i]) :
        /\ Len(f[i - 1]) + j \in 1..Len(Flat(seqs))
        /\ Flat(seqs)[Len(f[i - 1]) + j] = seqs[i][j]
  BY <1>1, <1>5
<1> QED
  BY <1>6, <1>7, <1>8 DEF n, InPlace

-----------------------------------------------------------------------------
(* DES.  The final permutation undoes the initial one, and the other way round;
   every table reads places that there are. *)
Bits(n) == [1..n -> {0, 1}]
Octet == 0..255
Octets == [1..8 -> Octet]

LEMMA SeqOf == \A S : \A n \in Nat : \A b \in [1..n -> S] : b \in Seq(S) /\ Len(b) = n
<1> SUFFICES ASSUME NEW S, NEW n \in Nat, NEW b \in [1..n -> S] PROVE b \in Seq(S) /\ Len(b) = n
  OBVIOUS
<1>1. b \in Seq(S)
  BY SeqDef
<1>2. Len(b) \in Nat /\ DOMAIN b = 1..Len(b)
  BY <1>1, LenProperties
<1>3. DOMAIN b = 1..n
  OBVIOUS
<1> QED
  BY <1>1, <1>2, <1>3

LEMMA BitsAreSeq == \A n \in Nat : \A b \in Bits(n) : b \in [1..n -> {0, 1}] /\ b \in Seq({0, 1}) /\ Len(b) = n
BY SeqOf DEF Bits

LEMMA SeqAreBits == \A n : \A b \in Seq({0, 1}) : Len(b) = n => b \in Bits(n)
<1> SUFFICES ASSUME NEW n, NEW b \in Seq({0, 1}), Len(b) = n PROVE b \in Bits(n)
  OBVIOUS
<1>1. b \in [1..Len(b) -> {0, 1}]
  BY LenProperties
<1> QED
  BY <1>1 DEF Bits

LEMMA TablesInvert ==
  /\ DOMAIN Cipher!DES_IP_Table = 1..64 /\ DOMAIN Cipher!DES_IP_1_Table = 1..64
  /\ \A k \in 1..64 : Cipher!DES_IP_Table[k] \in 1..64 /\ Cipher!DES_IP_1_Table[Cipher!DES_IP_Table[k]] = k
  /\ \A k \in 1..64 : Cipher!DES_IP_1_Table[k] \in 1..64 /\ Cipher!DES_IP_Table[Cipher!DES_IP_1_Table[k]] = k
<1>1. DOMAIN Cipher!DES_IP_Table = 1..64 /\ \A k \in 1..64 : Cipher!DES_IP_Table[k] \in 1..64
  BY DEF Cipher!DES_IP_Table
<1>2. DOMAIN Cipher!DES_IP_1_Table = 1..64 /\ \A k \in 1..64 : Cipher!DES_IP_1_Table[k] \in 1..64
  BY DEF Cipher!DES_IP_1_Table
<1>3. \A k \in 1..64 : Cipher!DES_IP_1_Table[Cipher!DES_IP_Table[k]] = k
  BY DEF Cipher!DES_IP_Table, Cipher!DES_IP_1_Table
<1>4. \A k \in 1..64 : Cipher!DES_IP_Table[Cipher!DES_IP_1_Table[k]] = k
  BY DEF Cipher!DES_IP_Table, Cipher!DES_IP_1_Table
<1> QED
  BY <1>1, <1>2, <1>3, <1>4

LEMMA TablesRead ==
  /\ DOMAIN Cipher!DES_E_Table = 1..48 /\ \A k \in 1..48 : Cipher!DES_E_Table[k] \in 1..32
  /\ DOMAIN Cipher!DES_P_Table = 1..32 /\ \A k \in 1..32 : Cipher!DES_P_Table[k] \in 1..32
  /\ DOMAIN Cipher!DES_PC_1 = 1..56 /\ \A k \in 1..56 : Cipher!DES_PC_1[k] \in 1..64
  /\ DOMAIN Cipher!DES_PC_2 = 1..48 /\ \A k \in 1..48 : Cipher!DES_PC_2[k] \in 1..56
<1>1. DOMAIN Cipher!DES_E_Table = 1..48 /\ \A k \in 1..48 : Cipher!DES_E_Table[k] \in 1..32
  BY DEF Cipher!DES_E_Table
<1>2. DOMAIN Cipher!DES_P_Table = 1..32 /\ \A k \in 1..32 : Cipher!DES_P_Table[k] \in 1..32
  BY DEF Cipher!DES_P_Table
<1>3. DOMAIN Cipher!DES_PC_1 = 1..56 /\ \A k \in 1..56 : Cipher!DES_PC_1[k] \in 1..64
  BY DEF Cipher!DES_PC_1
<1>4. DOMAIN Cipher!DES_PC_2 = 1..48 /\ \A k \in 1..48 : Cipher!DES_PC_2[k] \in 1..56
  BY DEF Cipher!DES_PC_2
<1> QED
  BY <1>1, <1>2, <1>3, <1>4

LEMMA PermutedTypes ==
  /\ \A b \in Bits(64) : Cipher!Permuted(b, Cipher!DES_IP_Table) \in Bits(64)
                         /\ Cipher!Permuted(b, Cipher!DES_IP_1_Table) \in Bits(64)
                         /\ Cipher!Permuted(b, Cipher!DES_PC_1) \in Bits(56)
  /\ \A b \in Bits(56) : Cipher!Permuted(b, Cipher!DES_PC_2) \in Bits(48)
  /\ \A b \in Bits(32) : Cipher!Permuted(b, Cipher!DES_E_Table) \in Bits(48)
                         /\ Cipher!Permuted(b, Cipher!DES_P_Table) \in Bits(32)
<1>1. ASSUME NEW b, NEW t, NEW n, NEW m, b \in Bits(n), DOMAIN t = 1..m, \A k \in 1..m : t[k] \in 1..n
      PROVE  Cipher!Permuted(b, t) \in Bits(m)
  <2>1. \A k \in 1..m : b[t[k]] \in {0, 1}
    BY <1>1 DEF Bits
  <2> QED
    BY <1>1, <2>1 DEF Bits, Cipher!Permuted
<1>2. /\ \A b \in Bits(64) : Cipher!Permuted(b, Cipher!DES_IP_Table) \in Bits(64)
      /\ \A b \in Bits(64) : Cipher!Permuted(b, Cipher!DES_IP_1_Table) \in Bits(64)
  BY <1>1, TablesInvert
<1>3. /\ \A b \in Bits(64) : Cipher!Permuted(b, Cipher!DES_PC_1) \in Bits(56)
      /\ \A b \in Bits(56) : Cipher!Permuted(b, Cipher!DES_PC_2) \in Bits(48)
      /\ \A b \in Bits(32) : Cipher!Permuted(b, Cipher!DES_E_Table) \in Bits(48)
      /\ \A b \in Bits(32) : Cipher!Permuted(b, Cipher!DES_P_Table) \in Bits(32)
  BY <1>1, TablesRead
<1> QED
  BY <1>2, <1>3

LEMMA PermutedTwice ==
  \A b \in Bits(64) :
    /\ Cipher!Permuted(Cipher!Permuted(b, Cipher!DES_IP_Table), Cipher!DES_IP_1_Table) = b
    /\ Cipher!Permuted(Cipher!Permuted(b, Cipher!DES_IP_1_Table), Cipher!DES_IP_Table) = b
<1>1. ASSUME NEW b \in Bits(64), NEW s, NEW t, DOMAIN s = 1..64, DOMAIN t = 1..64,
             \A k \in 1..64 : t[k] \in 1..64 /\ s[t[k]] = k
      PROVE  Cipher!Permuted(Cipher!Permuted(b, s), t) = b
  <2>1. Cipher!Permuted(b, s) = [k \in 1..64 |-> b[s[k]]]
    BY <1>1 DEF Cipher!Permuted
  <2>2. \A k \in 1..64 : Cipher!Permuted(b, s)[t[k]] = b[k]
    BY <1>1, <2>1
  <2>3. Cipher!Permuted(Cipher!Permuted(b, s), t) = [k \in 1..64 |-> b[k]]
    BY <1>1, <2>2 DEF Cipher!Permuted
  <2> QED
    BY <2>3 DEF Bits
<1> QED
  BY <1>1, TablesInvert

(* A byte and its bits. *)
LEMMA BitsOfByte ==
  \A c \in 0..255 : Cipher!ByteToBit(c) \in Bits(8) /\ Cipher!BitToByte(Cipher!ByteToBit(c)) = c
<1> SUFFICES ASSUME NEW c \in 0..255
             PROVE  Cipher!ByteToBit(c) \in Bits(8) /\ Cipher!BitToByte(Cipher!ByteToBit(c)) = c
  OBVIOUS
<1>1. \A k \in 1..8 : (c \div Cipher!Weights[k]) % 2 \in {0, 1}
  BY DEF Cipher!Weights
<1>2. /\ Cipher!ByteToBit(c)[1] = c % 2
      /\ Cipher!ByteToBit(c)[2] = (c \div 2) % 2
      /\ Cipher!ByteToBit(c)[3] = (c \div 4) % 2
      /\ Cipher!ByteToBit(c)[4] = (c \div 8) % 2
      /\ Cipher!ByteToBit(c)[5] = (c \div 16) % 2
      /\ Cipher!ByteToBit(c)[6] = (c \div 32) % 2
      /\ Cipher!ByteToBit(c)[7] = (c \div 64) % 2
      /\ Cipher!ByteToBit(c)[8] = (c \div 128) % 2
  BY DEF Cipher!ByteToBit, Cipher!Weights
<1>3. (c % 2) + 2 * ((c \div 2) % 2) + 4 * ((c \div 4) % 2) + 8 * ((c \div 8) % 2) + 16 * ((c \div 16) % 2)
        + 32 * ((c \div 32) % 2) + 64 * ((c \div 64) % 2) + 128 * ((c \div 128) % 2) = c
  OBVIOUS
<1>4. Cipher!BitToByte(Cipher!ByteToBit(c)) = c
  BY <1>2, <1>3 DEF Cipher!BitToByte
<1> QED
  BY <1>1, <1>4 DEF Cipher!ByteToBit, Bits

LEMMA ByteOfBits ==
  \A b \in Bits(8) : Cipher!BitToByte(b) \in 0..255 /\ Cipher!ByteToBit(Cipher!BitToByte(b)) = b
<1> SUFFICES ASSUME NEW b \in Bits(8)
             PROVE  Cipher!BitToByte(b) \in 0..255 /\ Cipher!ByteToBit(Cipher!BitToByte(b)) = b
  OBVIOUS
<1>1. PICK a1 \in {0, 1}, a2 \in {0, 1}, a3 \in {0, 1}, a4 \in {0, 1},
           a5 \in {0, 1}, a6 \in {0, 1}, a7 \in {0, 1}, a8 \in {0, 1} :
        /\ b[1] = a1 /\ b[2] = a2 /\ b[3] = a3 /\ b[4] = a4
        /\ b[5] = a5 /\ b[6] = a6 /\ b[7] = a7 /\ b[8] = a8
  BY DEF Bits
<1>2. PICK n : n = a1 + 2 * a2 + 4 * a3 + 8 * a4 + 16 * a5 + 32 * a6 + 64 * a7 + 128 * a8
  OBVIOUS
<1>3. n \in 0..255
  BY <1>2
<1>4. /\ n % 2 = a1 /\ (n \div 2) % 2 = a2 /\ (n \div 4) % 2 = a3 /\ (n \div 8) % 2 = a4
      /\ (n \div 16) % 2 = a5 /\ (n \div 32) % 2 = a6 /\ (n \div 64) % 2 = a7 /\ (n \div 128) % 2 = a8
  BY <1>2
<1>5. \A k \in 1..8 : (n \div Cipher!Weights[k]) % 2 = b[k]
  BY <1>1, <1>3, <1>4 DEF Cipher!Weights
<1>6. Cipher!BitToByte(b) = n
  BY <1>1, <1>2 DEF Cipher!BitToByte
<1> QED
  BY <1>3, <1>5, <1>6 DEF Cipher!ByteToBit, Bits

(* Eight bytes and their bits. *)
LEMMA PlaceOfBit ==
  /\ \A k \in 1..8 : \A i \in 1..8 : /\ 8 * k - 8 + i \in 1..64
                                     /\ ((8 * k - 8 + i - 1) \div 8) + 1 = k
                                     /\ ((8 * k - 8 + i - 1) % 8) + 1 = i
  /\ \A p \in 1..64 : /\ ((p - 1) \div 8) + 1 \in 1..8 /\ ((p - 1) % 8) + 1 \in 1..8
                      /\ 8 * (((p - 1) \div 8) + 1) - 8 + (((p - 1) % 8) + 1) = p
<1>1. ASSUME NEW k \in 1..8, NEW i \in 1..8
      PROVE  /\ 8 * k - 8 + i \in 1..64
             /\ ((8 * k - 8 + i - 1) \div 8) + 1 = k
             /\ ((8 * k - 8 + i - 1) % 8) + 1 = i
  OBVIOUS
<1>2. ASSUME NEW p \in 1..64
      PROVE  /\ ((p - 1) \div 8) + 1 \in 1..8 /\ ((p - 1) % 8) + 1 \in 1..8
             /\ 8 * (((p - 1) \div 8) + 1) - 8 + (((p - 1) % 8) + 1) = p
  OBVIOUS
<1> QED
  BY <1>1, <1>2

IsEighth(s, b, k, S) == s \in [1..8 -> S] /\ \A i \in 1..8 : s[i] = b[8 * k - 8 + i]

LEMMA EightOf ==
  \A S : \A b \in Seq(S), k \in Nat :
    1 <= k /\ 8 * k <= Len(b) => IsEighth(SubSeq(b, 8 * k - 7, 8 * k), b, k, S)
<1> SUFFICES ASSUME NEW S, NEW b \in Seq(S), NEW k \in Nat, 1 <= k, 8 * k <= Len(b)
             PROVE  IsEighth(SubSeq(b, 8 * k - 7, 8 * k), b, k, S)
  OBVIOUS
<1> DEFINE s == SubSeq(b, 8 * k - 7, 8 * k)
<1>1. Len(b) \in Nat /\ \A i \in 1..8 : 8 * k - 7 + i - 1 \in 1..Len(b) /\ 8 * k - 7 + i - 1 = 8 * k - 8 + i
  BY LenProperties
<1>2. 8 * k - 7 \in 1..Len(b) + 1 /\ 8 * k \in (8 * k - 7) - 1..Len(b) /\ 8 * k - (8 * k - 7) + 1 = 8
  BY <1>1
<1>3. s \in Seq(S) /\ Len(s) = 8 * k - (8 * k - 7) + 1
      /\ \A i \in 1..(8 * k - (8 * k - 7) + 1) : s[i] = b[8 * k - 7 + i - 1]
  BY <1>2, SubSeqProperties
<1>4. s \in [1..8 -> S] /\ \A i \in 1..8 : s[i] = b[8 * k - 7 + i - 1]
  BY <1>2, <1>3, LenProperties
<1> QED
  BY <1>1, <1>4 DEF IsEighth

LEMMA BitsOfBlock ==
  \A x \in Octets : /\ Cipher!Char8ToBit64(x) \in Bits(64)
                    /\ Cipher!Bit64ToChar8(Cipher!Char8ToBit64(x)) = x
<1> SUFFICES ASSUME NEW x \in Octets
             PROVE  /\ Cipher!Char8ToBit64(x) \in Bits(64)
                    /\ Cipher!Bit64ToChar8(Cipher!Char8ToBit64(x)) = x
  OBVIOUS
<1> DEFINE b == Cipher!Char8ToBit64(x)
<1>1. /\ b \in [1..64 -> {0, 1}]
      /\ \A p \in 1..64 : b[p] = Cipher!ByteToBit(x[((p - 1) \div 8) + 1])[((p - 1) % 8) + 1]
  <2>1. \A k \in 1..8 : \A i \in 1..8 : Cipher!ByteToBit(x[k])[i] \in {0, 1}
    BY BitsOfByte DEF Octets, Octet, Bits
  <2>2. \A p \in 1..64 : Cipher!ByteToBit(x[((p - 1) \div 8) + 1])[((p - 1) % 8) + 1] \in {0, 1}
    BY <2>1, PlaceOfBit
  <2> QED
    BY <2>2 DEF Cipher!Char8ToBit64
<1> HIDE DEF b
<1>2. b \in Seq({0, 1}) /\ Len(b) = 64
  <2>1. 64 \in Nat /\ b \in [1..64 -> {0, 1}]
    BY <1>1
  <2> QED
    BY <2>1, SeqOf
<1>3. ASSUME NEW k \in 1..8 PROVE Cipher!BitToByte(SubSeq(b, 8 * k - 7, 8 * k)) = x[k]
  <2> DEFINE s == SubSeq(b, 8 * k - 7, 8 * k)
  <2>1. k \in Nat /\ 1 <= k /\ 8 * k <= Len(b)
    BY <1>2
  <2>2. s \in [1..8 -> {0, 1}] /\ \A i \in 1..8 : s[i] = b[8 * k - 8 + i]
    <3>1. b \in Seq({0, 1})
      BY <1>2
    <3> QED
      BY <2>1, <3>1, EightOf DEF IsEighth
  <2> HIDE DEF s
  <2>3. \A i \in 1..8 : s[i] = Cipher!ByteToBit(x[k])[i]
    BY <1>1, <2>2, PlaceOfBit
  <2>4. x[k] \in 0..255 /\ Cipher!ByteToBit(x[k]) \in [1..8 -> {0, 1}]
    BY BitsOfByte DEF Octets, Octet, Bits
  <2>5. s = Cipher!ByteToBit(x[k])
    BY <2>2, <2>3, <2>4
  <2> QED
    BY <2>4, <2>5, BitsOfByte DEF s
<1>4. Cipher!Bit64ToChar8(b) = [k \in 1..8 |-> x[k]]
  BY <1>3 DEF Cipher!Bit64ToChar8
<1>5. Cipher!Bit64ToChar8(b) = x
  BY <1>4 DEF Octets, Octet
<1> QED
  BY <1>1, <1>5 DEF b, Bits

LEMMA BlockOfBits ==
  \A b \in Bits(64) : /\ Cipher!Bit64ToChar8(b) \in Octets
                      /\ Cipher!Char8ToBit64(Cipher!Bit64ToChar8(b)) = b
<1> SUFFICES ASSUME NEW b \in Bits(64)
             PROVE  /\ Cipher!Bit64ToChar8(b) \in Octets
                    /\ Cipher!Char8ToBit64(Cipher!Bit64ToChar8(b)) = b
  OBVIOUS
<1>1. b \in [1..64 -> {0, 1}] /\ b \in Seq({0, 1}) /\ Len(b) = 64
  <2>1. 64 \in Nat
    OBVIOUS
  <2> QED
    BY <2>1, BitsAreSeq
<1> DEFINE x == Cipher!Bit64ToChar8(b)
<1>2. ASSUME NEW k \in 1..8
      PROVE  x[k] \in 0..255 /\ \A i \in 1..8 : Cipher!ByteToBit(x[k])[i] = b[8 * k - 8 + i]
  <2> DEFINE s == SubSeq(b, 8 * k - 7, 8 * k)
  <2>0. Len(b) = 64
    BY <1>1
  <2>1. k \in Nat /\ 1 <= k /\ 8 * k <= Len(b)
    BY <2>0
  <2>2. s \in [1..8 -> {0, 1}] /\ \A i \in 1..8 : s[i] = b[8 * k - 8 + i]
    <3>1. b \in Seq({0, 1})
      BY <1>1
    <3> QED
      BY <2>1, <3>1, EightOf DEF IsEighth
  <2>3. x[k] = Cipher!BitToByte(s)
    BY DEF Cipher!Bit64ToChar8
  <2> HIDE DEF s, x
  <2> QED
    BY <2>2, <2>3, ByteOfBits DEF Bits
<1>3. x \in Octets
  <2>1. x = [k \in 1..8 |-> Cipher!BitToByte(SubSeq(b, 8 * k - 7, 8 * k))]
    BY DEF Cipher!Bit64ToChar8
  <2> HIDE DEF x
  <2> QED
    BY <1>2, <2>1 DEF Octets, Octet
<1> HIDE DEF x
<1>4. \A p \in 1..64 : Cipher!ByteToBit(x[((p - 1) \div 8) + 1])[((p - 1) % 8) + 1] = b[p]
  BY <1>2, PlaceOfBit
<1>5. Cipher!Char8ToBit64(x) = [p \in 1..64 |-> b[p]]
  BY <1>4 DEF Cipher!Char8ToBit64
<1>6. Cipher!Char8ToBit64(x) = b
  BY <1>1, <1>5
<1> QED
  BY <1>3, <1>6 DEF x

(* Combining twice with the same bits gives what there was. *)
LEMMA XorTwice ==
  \A l \in Bits(32), r \in Bits(32) : Cipher!Xor(l, r) \in Bits(32) /\ Cipher!Xor(Cipher!Xor(l, r), r) = l
<1> SUFFICES ASSUME NEW l \in Bits(32), NEW r \in Bits(32)
             PROVE  Cipher!Xor(l, r) \in Bits(32) /\ Cipher!Xor(Cipher!Xor(l, r), r) = l
  OBVIOUS
<1>1. \A k \in 1..32 : (l[k] + r[k]) % 2 \in {0, 1} /\ (((l[k] + r[k]) % 2) + r[k]) % 2 = l[k]
  <2> SUFFICES ASSUME NEW k \in 1..32
               PROVE  (l[k] + r[k]) % 2 \in {0, 1} /\ (((l[k] + r[k]) % 2) + r[k]) % 2 = l[k]
    OBVIOUS
  <2>1. PICK a \in {0, 1}, b \in {0, 1} : l[k] = a /\ r[k] = b
    BY DEF Bits
  <2>2. (a + b) % 2 \in {0, 1} /\ (((a + b) % 2) + b) % 2 = a
    OBVIOUS
  <2> QED
    BY <2>1, <2>2
<1> DEFINE x == Cipher!Xor(l, r)
<1>2. x = [k \in 1..32 |-> (l[k] + r[k]) % 2]
  BY DEF Cipher!Xor, Bits
<1>3. x \in Bits(32) /\ DOMAIN x = 1..32
  BY <1>1, <1>2 DEF Bits
<1>4. \A k \in 1..32 : (x[k] + r[k]) % 2 = l[k]
  BY <1>1, <1>2
<1> HIDE DEF x
<1>5. Cipher!Xor(x, r) = [k \in 1..32 |-> l[k]]
  BY <1>3, <1>4 DEF Cipher!Xor
<1> QED
  BY <1>3, <1>5 DEF x, Bits

LEMMA XorType ==
  \A l \in Bits(48), r \in Bits(48) : Cipher!Xor(l, r) \in Bits(48)
<1> SUFFICES ASSUME NEW l \in Bits(48), NEW r \in Bits(48) PROVE Cipher!Xor(l, r) \in Bits(48)
  OBVIOUS
<1>1. \A k \in 1..48 : (l[k] + r[k]) % 2 \in {0, 1}
  BY DEF Bits
<1> QED
  BY <1>1 DEF Cipher!Xor, Bits

(* What a round combines with is bits, whatever the boxes hold. *)
LEMMA MangledIsBits ==
  \A right \in Bits(32), subKey \in Bits(48) : Cipher!Mangled(right, subKey) \in Bits(32)
<1> SUFFICES ASSUME NEW right \in Bits(32), NEW subKey \in Bits(48)
             PROVE  Cipher!Mangled(right, subKey) \in Bits(32)
  OBVIOUS
<1> DEFINE data == Cipher!Xor(Cipher!Permuted(right, Cipher!DES_E_Table), subKey)
<1>1. data \in Bits(48)
  BY PermutedTypes, XorType
<1> HIDE DEF data
<1> DEFINE Out(k) == Boxes[k][2 * data[6 * k + 1] + data[6 * k + 6]]
                       [8 * data[6 * k + 2] + 4 * data[6 * k + 3] + 2 * data[6 * k + 4] + data[6 * k + 5]]
<1>2. ASSUME NEW k \in 0..7 PROVE Out(k) \in Nat
  <2>1. /\ 6 * k + 1 \in 1..48 /\ 6 * k + 2 \in 1..48 /\ 6 * k + 3 \in 1..48
        /\ 6 * k + 4 \in 1..48 /\ 6 * k + 5 \in 1..48 /\ 6 * k + 6 \in 1..48
    OBVIOUS
  <2>2. PICK a1 \in {0, 1}, a2 \in {0, 1}, a3 \in {0, 1}, a4 \in {0, 1}, a5 \in {0, 1}, a6 \in {0, 1} :
          /\ data[6 * k + 1] = a1 /\ data[6 * k + 2] = a2 /\ data[6 * k + 3] = a3
          /\ data[6 * k + 4] = a4 /\ data[6 * k + 5] = a5 /\ data[6 * k + 6] = a6
    BY <1>1, <2>1 DEF Bits
  <2>3. 2 * a1 + a6 \in 0..3 /\ 8 * a2 + 4 * a3 + 2 * a4 + a5 \in 0..15
    OBVIOUS
  <2>4. Boxes[k][2 * a1 + a6][8 * a2 + 4 * a3 + 2 * a4 + a5] \in Nat
    <3>1. Boxes \in [0..7 -> [0..3 -> [0..15 -> Nat]]]
      BY FunctionsAssumption
    <3>2. PICK line \in 0..3, row \in 0..15 : line = 2 * a1 + a6 /\ row = 8 * a2 + 4 * a3 + 2 * a4 + a5
      BY <2>3
    <3>3. Boxes[k] \in [0..3 -> [0..15 -> Nat]]
      BY <3>1
    <3>4. Boxes[k][line] \in [0..15 -> Nat]
      BY <3>3
    <3>5. Boxes[k][line][row] \in Nat
      BY <3>4
    <3> QED
      BY <3>2, <3>5
  <2> QED
    BY <2>2, <2>4
<1>3. Cipher!DES_SBOX(data) = [n \in 1..32 |-> (Out((n - 1) \div 4) \div Cipher!Weights[4 - ((n - 1) % 4)]) % 2]
  BY DEF Cipher!DES_SBOX
<1> HIDE DEF Out
<1>4. ASSUME NEW n \in 1..32 PROVE (Out((n - 1) \div 4) \div Cipher!Weights[4 - ((n - 1) % 4)]) % 2 \in {0, 1}
  <2>1. (n - 1) \div 4 \in 0..7 /\ 4 - ((n - 1) % 4) \in 1..4
    OBVIOUS
  <2>2. \A w \in 1..4 : Cipher!Weights[w] \in Nat /\ Cipher!Weights[w] > 0
    BY DEF Cipher!Weights
  <2>3. PICK o \in Nat, w \in Nat : o = Out((n - 1) \div 4) /\ w = Cipher!Weights[4 - ((n - 1) % 4)] /\ w > 0
    BY <1>2, <2>1, <2>2
  <2>4. o \div w \in Int
    BY <2>3
  <2>5. (o \div w) % 2 \in {0, 1}
    BY <2>4
  <2> QED
    BY <2>3, <2>5
<1>5. Cipher!DES_SBOX(data) \in Bits(32)
  BY <1>3, <1>4 DEF Bits
<1> QED
  BY <1>5, PermutedTypes DEF Cipher!Mangled, data

(* The halves of a block, and the block with its halves exchanged. *)
Left(b) == SubSeq(b, 1, 32)
Right(b) == SubSeq(b, 33, 64)
Turned(b) == Right(b) \o Left(b)

LEMMA HalvesOf ==
  \A b \in Bits(64) : Left(b) \in Bits(32) /\ Right(b) \in Bits(32) /\ Left(b) \o Right(b) = b
<1> SUFFICES ASSUME NEW b \in Bits(64)
             PROVE  Left(b) \in Bits(32) /\ Right(b) \in Bits(32) /\ Left(b) \o Right(b) = b
  OBVIOUS
<1>1. b \in [1..64 -> {0, 1}] /\ b \in Seq({0, 1}) /\ Len(b) = 64
  <2>1. 64 \in Nat
    OBVIOUS
  <2> QED
    BY <2>1, BitsAreSeq
<1>2. /\ Left(b) \in Seq({0, 1}) /\ Len(Left(b)) = 32
      /\ \A i \in 1..32 : Left(b)[i] = b[i]
  <2>1. \A i \in 1..32 : b[i] \in {0, 1}
    <3>1. \A i \in 1..32 : i \in 1..64
      OBVIOUS
    <3> QED
      BY <1>1, <3>1
  <2>2. /\ SubSeq(b, 1, 32) \in Seq({0, 1})
        /\ Len(SubSeq(b, 1, 32)) = IF 1 <= 32 THEN 32 - 1 + 1 ELSE 0
        /\ \A i \in 1 .. 32 - 1 + 1 : SubSeq(b, 1, 32)[i] = b[1 + i - 1]
    BY <2>1, SubSeqProperties
  <2> QED
    BY <2>2 DEF Left
<1>3. /\ Right(b) \in Seq({0, 1}) /\ Len(Right(b)) = 32
      /\ \A i \in 1..32 : Right(b)[i] = b[32 + i]
  <2>1. \A i \in 33..64 : b[i] \in {0, 1}
    <3>1. \A i \in 33..64 : i \in 1..64
      OBVIOUS
    <3> QED
      BY <1>1, <3>1
  <2>2. /\ SubSeq(b, 33, 64) \in Seq({0, 1})
        /\ Len(SubSeq(b, 33, 64)) = IF 33 <= 64 THEN 64 - 33 + 1 ELSE 0
        /\ \A i \in 1 .. 64 - 33 + 1 : SubSeq(b, 33, 64)[i] = b[33 + i - 1]
    BY <2>1, SubSeqProperties
  <2>3. \A i \in 1..32 : i \in 1 .. 64 - 33 + 1 /\ 33 + i - 1 = 32 + i
    OBVIOUS
  <2> QED
    BY <2>2, <2>3 DEF Right
<1>4. Left(b) \in Bits(32) /\ Right(b) \in Bits(32)
  BY <1>2, <1>3, SeqAreBits
<1>5. PICK l \in Seq({0, 1}), r \in Seq({0, 1}) : l = Left(b) /\ r = Right(b) /\ Len(l) = 32 /\ Len(r) = 32
  BY <1>2, <1>3
<1>6. /\ l \o r \in Seq({0, 1}) /\ Len(l \o r) = 64
      /\ \A i \in 1..64 : (l \o r)[i] = IF i <= 32 THEN l[i] ELSE r[i - 32]
  <2>1. /\ l \o r \in Seq({0, 1}) /\ Len(l \o r) = Len(l) + Len(r)
        /\ \A i \in 1 .. Len(l) + Len(r) : (l \o r)[i] = IF i <= Len(l) THEN l[i] ELSE r[i - Len(l)]
    BY ConcatProperties
  <2>2. Len(l) + Len(r) = 64 /\ Len(l) = 32
    BY <1>5
  <2> QED
    BY <2>1, <2>2
<1>7. \A i \in 1..64 : (l \o r)[i] = b[i]
  <2> SUFFICES ASSUME NEW i \in 1..64 PROVE (l \o r)[i] = b[i]
    OBVIOUS
  <2>1. CASE i <= 32
    <3>1. i \in 1..32
      BY <2>1
    <3>2. l[i] = b[i]
      BY <1>2, <1>5, <3>1
    <3> QED
      BY <1>6, <2>1, <3>2
  <2>2. CASE ~(i <= 32)
    <3>1. i - 32 \in 1..32 /\ 32 + (i - 32) = i
      BY <2>2
    <3>2. r[i - 32] = b[i]
      BY <1>3, <1>5, <3>1
    <3> QED
      BY <1>6, <2>2, <3>2
  <2> QED
    BY <2>1, <2>2
<1>8. l \o r = b
  <2>1. b \in Seq({0, 1}) /\ l \o r \in Seq({0, 1})
    BY <1>1, <1>6
  <2>2. Len(l \o r) = Len(b) /\ Len(l \o r) = 64
    BY <1>1, <1>6
  <2>3. \A i \in 1..Len(l \o r) : (l \o r)[i] = b[i]
    BY <1>7, <2>2
  <2> QED
    BY <2>1, <2>2, <2>3, SeqEqual
<1> QED
  BY <1>4, <1>5, <1>8

LEMMA HalvesJoined ==
  \A l \in Bits(32), r \in Bits(32) : l \o r \in Bits(64) /\ Left(l \o r) = l /\ Right(l \o r) = r
<1> SUFFICES ASSUME NEW l \in Bits(32), NEW r \in Bits(32)
             PROVE  l \o r \in Bits(64) /\ Left(l \o r) = l /\ Right(l \o r) = r
  OBVIOUS
<1>1. l \in Seq({0, 1}) /\ Len(l) = 32 /\ r \in Seq({0, 1}) /\ Len(r) = 32
  <2>1. 32 \in Nat
    OBVIOUS
  <2> QED
    BY <2>1, BitsAreSeq
<1>2. PICK b : b = l \o r
  OBVIOUS
<1>3. /\ b \in Seq({0, 1}) /\ Len(b) = 64
      /\ \A i \in 1..64 : b[i] = IF i <= 32 THEN l[i] ELSE r[i - 32]
  <2>1. /\ l \o r \in Seq({0, 1}) /\ Len(l \o r) = Len(l) + Len(r)
        /\ \A i \in 1 .. Len(l) + Len(r) : (l \o r)[i] = IF i <= Len(l) THEN l[i] ELSE r[i - Len(l)]
    BY <1>1, ConcatProperties
  <2>2. Len(l) + Len(r) = 64 /\ Len(l) = 32
    BY <1>1
  <2> QED
    BY <1>2, <2>1, <2>2
<1>4. b \in Bits(64)
  BY <1>3, SeqAreBits
<1>5. Left(b) \in Bits(32) /\ Right(b) \in Bits(32) /\ Left(b) \o Right(b) = b
  BY <1>4, HalvesOf
<1>6. PICK m \in Bits(32), s \in Bits(32) : m = Left(b) /\ s = Right(b) /\ m \o s = b
  BY <1>5
<1>7. m \in Seq({0, 1}) /\ Len(m) = 32 /\ s \in Seq({0, 1}) /\ Len(s) = 32
  <2>1. 32 \in Nat
    OBVIOUS
  <2> QED
    BY <2>1, BitsAreSeq
<1>8. \A i \in 1..64 : b[i] = IF i <= 32 THEN m[i] ELSE s[i - 32]
  <2>1. \A i \in 1 .. Len(m) + Len(s) : (m \o s)[i] = IF i <= Len(m) THEN m[i] ELSE s[i - Len(m)]
    BY <1>7, ConcatProperties
  <2>2. Len(m) + Len(s) = 64 /\ Len(m) = 32
    BY <1>7
  <2> QED
    BY <1>6, <2>1, <2>2
<1>9. \A i \in 1..32 : m[i] = l[i] /\ s[i] = r[i]
  <2> SUFFICES ASSUME NEW i \in 1..32 PROVE m[i] = l[i] /\ s[i] = r[i]
    OBVIOUS
  <2>1. i \in 1..64 /\ i <= 32 /\ 32 + i \in 1..64 /\ ~(32 + i <= 32) /\ (32 + i) - 32 = i
    OBVIOUS
  <2>2. m[i] = l[i]
    <3>1. b[i] = l[i]
      BY <1>3, <2>1
    <3>2. b[i] = m[i]
      BY <1>8, <2>1
    <3> QED
      BY <3>1, <3>2
  <2>3. b[32 + i] = s[i] /\ b[32 + i] = r[i]
    <3>1. b[32 + i] = r[(32 + i) - 32]
      BY <1>3, <2>1
    <3>2. b[32 + i] = s[(32 + i) - 32]
      BY <1>8, <2>1
    <3> QED
      BY <2>1, <3>1, <3>2
  <2> QED
    BY <2>2, <2>3
<1>10. m = l /\ s = r
  BY <1>9 DEF Bits
<1> QED
  BY <1>2, <1>4, <1>6, <1>10

LEMMA TurnedBack ==
  \A b \in Bits(64) : Turned(b) \in Bits(64) /\ Turned(Turned(b)) = b
BY HalvesOf, HalvesJoined DEF Turned

(* A round exchanges the halves and combines one of them; the last round is one
   whose exchange is undone; and a round with the same key, on the block turned,
   goes back. *)
LEMMA RoundTurns ==
  \A b \in Bits(64), k \in Bits(48) :
    /\ Cipher!Round(b, k, FALSE) \in Bits(64)
    /\ Cipher!Round(b, k, TRUE) = Turned(Cipher!Round(b, k, FALSE))
    /\ Cipher!Round(Turned(Cipher!Round(b, k, FALSE)), k, FALSE) = Turned(b)
<1> SUFFICES ASSUME NEW b \in Bits(64), NEW k \in Bits(48)
             PROVE  /\ Cipher!Round(b, k, FALSE) \in Bits(64)
                    /\ Cipher!Round(b, k, TRUE) = Turned(Cipher!Round(b, k, FALSE))
                    /\ Cipher!Round(Turned(Cipher!Round(b, k, FALSE)), k, FALSE) = Turned(b)
  OBVIOUS
<1>1. PICK l \in Bits(32), r \in Bits(32) : l = Left(b) /\ r = Right(b)
  BY HalvesOf
<1>2. PICK m \in Bits(32) : m = Cipher!Mangled(r, k)
  BY MangledIsBits
<1>3. PICK x \in Bits(32) : x = Cipher!Xor(l, m) /\ Cipher!Xor(x, m) = l
  BY XorTwice
<1>4. Cipher!Round(b, k, FALSE) = r \o x /\ Cipher!Round(b, k, TRUE) = x \o r
  BY <1>1, <1>2, <1>3 DEF Cipher!Round, Left, Right
<1>5. r \o x \in Bits(64) /\ Left(r \o x) = r /\ Right(r \o x) = x
  BY HalvesJoined
<1>6. PICK t \in Bits(64) : t = x \o r /\ Left(t) = x /\ Right(t) = r
  BY HalvesJoined
<1>7. Cipher!Round(t, k, FALSE) = r \o l
  BY <1>2, <1>3, <1>6 DEF Cipher!Round, Left, Right
<1> QED
  BY <1>1, <1>4, <1>5, <1>6, <1>7 DEF Turned

-----------------------------------------------------------------------------
(* What holds of the first and goes from each to the next holds of all. *)
LEMMA Reaches ==
  ASSUME NEW V, NEW n \in Nat, NEW h, h[0] \in V, \A k \in 1..n : h[k - 1] \in V => h[k] \in V
  PROVE  \A k \in 0..n : h[k] \in V
<1> DEFINE Bad == {k \in Nat : k <= n /\ h[k] \notin V}
<1>1. ASSUME Bad # {} PROVE FALSE
  <2>1. PICK k \in Bad : \A y \in Bad : k <= y
    BY <1>1, Smallest
  <2>2. k \in Nat /\ k <= n /\ h[k] \notin V /\ k # 0
    BY <2>1
  <2>3. k \in 1..n /\ k - 1 \in Nat /\ k - 1 <= n /\ ~(k <= k - 1)
    BY <2>2
  <2>4. k - 1 \notin Bad
    <3> HIDE DEF Bad
    <3> QED
      BY <2>1, <2>3
  <2> QED
    BY <2>2, <2>3, <2>4
<1> QED
  BY <1>1

(* The keys of the rounds. *)
KeyStep(h, key, n) ==
  IF n = 0 THEN Cipher!Permuted(key, Cipher!DES_PC_1) ELSE Cipher!DES_ROL(h[n - 1], Cipher!DES_MOVE_TIMES[n])
KeyTemps(key) == CHOOSE h : h = [n \in 0..16 |-> KeyStep(h, key, n)]

LEMMA RolType == \A data \in Bits(56), n \in 1..16 : Cipher!DES_ROL(data, Cipher!DES_MOVE_TIMES[n]) \in Bits(56)
<1> SUFFICES ASSUME NEW data \in Bits(56), NEW n \in 1..16
             PROVE  Cipher!DES_ROL(data, Cipher!DES_MOVE_TIMES[n]) \in Bits(56)
  OBVIOUS
<1>1. PICK time \in Nat : time = Cipher!DES_MOVE_TIMES[n]
  <2>1. Cipher!DES_MOVE_TIMES[n] \in {1, 2}
    BY DEF Cipher!DES_MOVE_TIMES
  <2> QED
    BY <2>1
<1>2. ASSUME NEW k \in 1..56
      PROVE  (IF k <= 28 THEN data[((k - 1 + time) % 28) + 1] ELSE data[((k - 29 + time) % 28) + 29]) \in {0, 1}
  <2>1. ((k - 1 + time) % 28) + 1 \in 1..56 /\ ((k - 29 + time) % 28) + 29 \in 1..56
    OBVIOUS
  <2> QED
    BY <2>1 DEF Bits
<1> QED
  BY <1>1, <1>2 DEF Cipher!DES_ROL, Bits

LEMMA SubKeysType ==
  \A key \in Bits(64) : Cipher!DES_MakeSubKeys(key) \in [1..16 -> Bits(48)]
<1> SUFFICES ASSUME NEW key \in Bits(64) PROVE Cipher!DES_MakeSubKeys(key) \in [1..16 -> Bits(48)]
  OBVIOUS
<1> DEFINE a == Cipher!Permuted(key, Cipher!DES_PC_1)
           g == [p \in (1..16) \X Bits(56) |-> Cipher!DES_ROL(p[2], Cipher!DES_MOVE_TIMES[p[1]])]
           temp == KeyTemps(key)
<1>1. a \in Bits(56) /\ g \in [(1..16) \X Bits(56) -> Bits(56)]
  BY PermutedTypes, RolType
<1>2. \A n \in 1..16, b \in Bits(56) : g[<<n, b>>] = Cipher!DES_ROL(b, Cipher!DES_MOVE_TIMES[n])
  OBVIOUS
<1> HIDE DEF g, a
<1>3. PICK f : Grows(f, Bits(56), 16, a, g)
  BY <1>1, GrownExists
<1>4. f \in [0..16 -> Bits(56)] /\ f[0] = a /\ \A n \in 1..16 : f[n] = g[<<n, f[n - 1]>>]
  BY <1>3 DEF Grows
<1>5. \A n \in 0..16 : f[n] = KeyStep(f, key, n)
  <2> SUFFICES ASSUME NEW n \in 0..16 PROVE f[n] = KeyStep(f, key, n)
    OBVIOUS
  <2>1. CASE n = 0
    BY <1>4, <2>1 DEF KeyStep, a
  <2>2. CASE n # 0
    <3>1. n \in 1..16 /\ n - 1 \in 0..16
      BY <2>2
    <3>2. f[n - 1] \in Bits(56)
      BY <1>4, <3>1
    <3> QED
      BY <1>2, <1>4, <2>2, <3>1, <3>2 DEF KeyStep
  <2> QED
    BY <2>1, <2>2
<1>6. f = [n \in 0..16 |-> KeyStep(f, key, n)]
  <2>1. f = [n \in 0..16 |-> f[n]]
    BY <1>4
  <2> QED
    BY <1>5, <2>1
<1>7. temp = [n \in 0..16 |-> KeyStep(temp, key, n)]
  BY <1>6 DEF KeyTemps
<1> HIDE DEF temp
<1>8. temp[0] \in Bits(56)
  BY <1>1, <1>7 DEF KeyStep, a
<1>9. \A n \in 1..16 : temp[n - 1] \in Bits(56) => temp[n] \in Bits(56)
  <2> SUFFICES ASSUME NEW n \in 1..16, temp[n - 1] \in Bits(56) PROVE temp[n] \in Bits(56)
    OBVIOUS
  <2>1. n \in 0..16 /\ n # 0
    OBVIOUS
  <2>2. temp[n] = KeyStep(temp, key, n)
    BY <1>7, <2>1
  <2>3. temp[n] = Cipher!DES_ROL(temp[n - 1], Cipher!DES_MOVE_TIMES[n])
    BY <2>1, <2>2 DEF KeyStep
  <2> QED
    BY <2>3, RolType
<1>10. \A n \in 0..16 : temp[n] \in Bits(56)
  BY <1>8, <1>9, Reaches
<1>11. Cipher!DES_MakeSubKeys(key) = [n \in 1..16 |-> Cipher!Permuted(temp[n], Cipher!DES_PC_2)]
  BY DEF Cipher!DES_MakeSubKeys, temp, KeyTemps, KeyStep
<1>12. \A n \in 1..16 : Cipher!Permuted(temp[n], Cipher!DES_PC_2) \in Bits(48)
  BY <1>10, PermutedTypes
<1> QED
  BY <1>11, <1>12

(* The rounds of encryption and of decryption, from the block a. *)
EncStep(h, a, keys, cnt) ==
  IF cnt = -1 THEN a ELSE Cipher!Round(h[cnt - 1], keys[cnt + 1], cnt = 15)
EncRounds(a, keys) == CHOOSE h : h = [cnt \in -1..15 |-> EncStep(h, a, keys, cnt)]
DecStep(h, a, keys, cnt) ==
  IF cnt = 16 THEN a ELSE Cipher!Round(h[cnt + 1], keys[cnt + 1], cnt = 0)
DecRounds(a, keys) == CHOOSE h : h = [cnt \in 0..16 |-> DecStep(h, a, keys, cnt)]

LEMMA RoundType ==
  \A b \in Bits(64), k \in Bits(48), last \in BOOLEAN : Cipher!Round(b, k, last) \in Bits(64)
<1> SUFFICES ASSUME NEW b \in Bits(64), NEW k \in Bits(48), NEW last \in BOOLEAN
             PROVE  Cipher!Round(b, k, last) \in Bits(64)
  OBVIOUS
<1>1. Cipher!Round(b, k, FALSE) \in Bits(64) /\ Cipher!Round(b, k, TRUE) \in Bits(64)
  BY RoundTurns, TurnedBack
<1>2. last = TRUE \/ last = FALSE
  OBVIOUS
<1> QED
  BY <1>1, <1>2

LEMMA EncRoundsAre ==
  ASSUME NEW a \in Bits(64), NEW keys \in [1..16 -> Bits(48)]
  PROVE  /\ EncRounds(a, keys)[-1] = a
         /\ \A cnt \in 0..15 : EncRounds(a, keys)[cnt] =
              Cipher!Round(EncRounds(a, keys)[cnt - 1], keys[cnt + 1], cnt = 15)
         /\ \A cnt \in -1..15 : EncRounds(a, keys)[cnt] \in Bits(64)
<1> DEFINE g == [p \in (1..16) \X Bits(64) |-> Cipher!Round(p[2], keys[p[1]], p[1] = 16)]
           E == EncRounds(a, keys)
<1>1. \A n \in 1..16, b \in Bits(64) : Cipher!Round(b, keys[n], n = 16) \in Bits(64)
  BY RoundType
<1>2. /\ g \in [(1..16) \X Bits(64) -> Bits(64)]
      /\ \A n \in 1..16, b \in Bits(64) : g[<<n, b>>] = Cipher!Round(b, keys[n], n = 16)
  BY <1>1
<1> HIDE DEF g
<1>3. PICK f : Grows(f, Bits(64), 16, a, g)
  BY <1>2, GrownExists
<1>4. f \in [0..16 -> Bits(64)] /\ f[0] = a /\ \A n \in 1..16 : f[n] = g[<<n, f[n - 1]>>]
  BY <1>3 DEF Grows
<1> DEFINE h == [cnt \in -1..15 |-> f[cnt + 1]]
<1>5. \A cnt \in -1..15 : h[cnt] = EncStep(h, a, keys, cnt)
  <2> SUFFICES ASSUME NEW cnt \in -1..15 PROVE h[cnt] = EncStep(h, a, keys, cnt)
    OBVIOUS
  <2>1. CASE cnt = -1
    BY <1>4, <2>1 DEF EncStep
  <2>2. CASE cnt # -1
    <3>1. cnt + 1 \in 1..16 /\ (cnt + 1) - 1 = cnt /\ cnt \in 0..16 /\ cnt - 1 \in -1..15 /\ (cnt - 1) + 1 = cnt
          /\ ((cnt + 1 = 16) <=> (cnt = 15))
      BY <2>2
    <3>2. f[cnt] \in Bits(64) /\ f[cnt + 1] = g[<<cnt + 1, f[cnt]>>]
      BY <1>4, <3>1
    <3>3. f[cnt + 1] = Cipher!Round(f[cnt], keys[cnt + 1], cnt + 1 = 16)
      BY <1>2, <3>1, <3>2
    <3>4. (cnt + 1 = 16) = (cnt = 15)
      BY <3>1
    <3>5. h[cnt - 1] = f[cnt] /\ h[cnt] = f[cnt + 1]
      BY <3>1
    <3> HIDE DEF h
    <3> QED
      BY <2>2, <3>3, <3>4, <3>5 DEF EncStep
  <2> QED
    BY <2>1, <2>2
<1>6. h = [cnt \in -1..15 |-> EncStep(h, a, keys, cnt)]
  <2>1. h = [cnt \in -1..15 |-> h[cnt]]
    OBVIOUS
  <2> HIDE DEF h
  <2> QED
    BY <1>5, <2>1
<1> HIDE DEF h
<1>7. E = [cnt \in -1..15 |-> EncStep(E, a, keys, cnt)]
  BY <1>6 DEF EncRounds
<1> HIDE DEF E
<1>8. E[-1] = a
  BY <1>7 DEF EncStep
<1>9. \A cnt \in 0..15 : E[cnt] = Cipher!Round(E[cnt - 1], keys[cnt + 1], cnt = 15)
  <2> SUFFICES ASSUME NEW cnt \in 0..15 PROVE E[cnt] = Cipher!Round(E[cnt - 1], keys[cnt + 1], cnt = 15)
    OBVIOUS
  <2>1. cnt \in -1..15 /\ cnt # -1
    OBVIOUS
  <2>2. E[cnt] = EncStep(E, a, keys, cnt)
    BY <1>7, <2>1
  <2> QED
    BY <2>1, <2>2 DEF EncStep
<1> DEFINE d == [n \in 0..16 |-> E[n - 1]]
<1>10. d[0] \in Bits(64)
  BY <1>8
<1>11. \A n \in 1..16 : d[n - 1] \in Bits(64) => d[n] \in Bits(64)
  <2> SUFFICES ASSUME NEW n \in 1..16, d[n - 1] \in Bits(64) PROVE d[n] \in Bits(64)
    OBVIOUS
  <2>1. n - 1 \in 0..15 /\ n - 1 \in 0..16 /\ n \in 0..16 /\ (n - 1) + 1 = n
    OBVIOUS
  <2>2. d[n] = E[n - 1] /\ d[n - 1] = E[(n - 1) - 1]
    BY <2>1
  <2>3. E[n - 1] = Cipher!Round(E[(n - 1) - 1], keys[n], n - 1 = 15)
    BY <1>9, <2>1
  <2>4. n \in 1..16 /\ E[(n - 1) - 1] \in Bits(64) /\ keys[n] \in Bits(48) /\ (n - 1 = 15) \in BOOLEAN
    BY <2>2
  <2>5. Cipher!Round(E[(n - 1) - 1], keys[n], n - 1 = 15) \in Bits(64)
    <3>1. PICK e \in Bits(64), k \in Bits(48), last \in BOOLEAN :
            e = E[(n - 1) - 1] /\ k = keys[n] /\ last = (n - 1 = 15)
      BY <2>4
    <3> QED
      BY <3>1, RoundType
  <2> QED
    BY <2>2, <2>3, <2>5
<1>12. \A n \in 0..16 : d[n] \in Bits(64)
  <2> HIDE DEF d
  <2> QED
    BY <1>10, <1>11, Reaches
<1>13. \A cnt \in -1..15 : E[cnt] \in Bits(64)
  <2> SUFFICES ASSUME NEW cnt \in -1..15 PROVE E[cnt] \in Bits(64)
    OBVIOUS
  <2>1. cnt + 1 \in 0..16 /\ (cnt + 1) - 1 = cnt
    OBVIOUS
  <2> QED
    BY <1>12, <2>1
<1> QED
  BY <1>8, <1>9, <1>13 DEF E

LEMMA DecRoundsAre ==
  ASSUME NEW a \in Bits(64), NEW keys \in [1..16 -> Bits(48)]
  PROVE  /\ DecRounds(a, keys)[16] = a
         /\ \A cnt \in 0..15 : DecRounds(a, keys)[cnt] =
              Cipher!Round(DecRounds(a, keys)[cnt + 1], keys[cnt + 1], cnt = 0)
<1> DEFINE g == [p \in (1..16) \X Bits(64) |-> Cipher!Round(p[2], keys[17 - p[1]], p[1] = 16)]
           D == DecRounds(a, keys)
<1>1. \A n \in 1..16, b \in Bits(64) : Cipher!Round(b, keys[17 - n], n = 16) \in Bits(64)
  <2> SUFFICES ASSUME NEW n \in 1..16, NEW b \in Bits(64) PROVE Cipher!Round(b, keys[17 - n], n = 16) \in Bits(64)
    OBVIOUS
  <2>1. 17 - n \in 1..16
    OBVIOUS
  <2> QED
    BY <2>1, RoundType
<1>2. /\ g \in [(1..16) \X Bits(64) -> Bits(64)]
      /\ \A n \in 1..16, b \in Bits(64) : g[<<n, b>>] = Cipher!Round(b, keys[17 - n], n = 16)
  BY <1>1
<1> HIDE DEF g
<1>3. PICK f : Grows(f, Bits(64), 16, a, g)
  BY <1>2, GrownExists
<1>4. f \in [0..16 -> Bits(64)] /\ f[0] = a /\ \A n \in 1..16 : f[n] = g[<<n, f[n - 1]>>]
  BY <1>3 DEF Grows
<1> DEFINE h == [cnt \in 0..16 |-> f[16 - cnt]]
<1>5. \A cnt \in 0..16 : h[cnt] = DecStep(h, a, keys, cnt)
  <2> SUFFICES ASSUME NEW cnt \in 0..16 PROVE h[cnt] = DecStep(h, a, keys, cnt)
    OBVIOUS
  <2>1. CASE cnt = 16
    BY <1>4, <2>1 DEF DecStep
  <2>2. CASE cnt # 16
    <3>1. /\ 16 - cnt \in 1..16 /\ (16 - cnt) - 1 = 15 - cnt /\ 15 - cnt \in 0..16
          /\ cnt + 1 \in 0..16 /\ 16 - (cnt + 1) = 15 - cnt /\ 17 - (16 - cnt) = cnt + 1
          /\ ((16 - cnt = 16) <=> (cnt = 0))
      BY <2>2
    <3>2. f[15 - cnt] \in Bits(64) /\ f[16 - cnt] = g[<<16 - cnt, f[15 - cnt]>>]
      BY <1>4, <3>1
    <3>3. f[16 - cnt] = Cipher!Round(f[15 - cnt], keys[cnt + 1], 16 - cnt = 16)
      BY <1>2, <3>1, <3>2
    <3>4. (16 - cnt = 16) = (cnt = 0)
      BY <3>1
    <3>5. h[cnt + 1] = f[15 - cnt] /\ h[cnt] = f[16 - cnt]
      BY <3>1
    <3> HIDE DEF h
    <3> QED
      BY <2>2, <3>3, <3>4, <3>5 DEF DecStep
  <2> QED
    BY <2>1, <2>2
<1>6. h = [cnt \in 0..16 |-> DecStep(h, a, keys, cnt)]
  <2>1. h = [cnt \in 0..16 |-> h[cnt]]
    OBVIOUS
  <2> HIDE DEF h
  <2> QED
    BY <1>5, <2>1
<1> HIDE DEF h
<1>7. D = [cnt \in 0..16 |-> DecStep(D, a, keys, cnt)]
  BY <1>6 DEF DecRounds
<1> HIDE DEF D
<1>8. D[16] = a
  BY <1>7 DEF DecStep
<1>9. \A cnt \in 0..15 : D[cnt] = Cipher!Round(D[cnt + 1], keys[cnt + 1], cnt = 0)
  <2> SUFFICES ASSUME NEW cnt \in 0..15 PROVE D[cnt] = Cipher!Round(D[cnt + 1], keys[cnt + 1], cnt = 0)
    OBVIOUS
  <2>1. cnt \in 0..16 /\ cnt # 16
    OBVIOUS
  <2>2. D[cnt] = DecStep(D, a, keys, cnt)
    BY <1>7, <2>1
  <2> QED
    BY <2>1, <2>2 DEF DecStep
<1> QED
  BY <1>8, <1>9 DEF D

(* The rounds of decryption go through the blocks of encryption backwards, each
   turned, and end where encryption began. *)
LEMMA RoundsInvert ==
  ASSUME NEW a \in Bits(64), NEW keys \in [1..16 -> Bits(48)]
  PROVE  /\ EncRounds(a, keys)[15] \in Bits(64)
         /\ DecRounds(EncRounds(a, keys)[15], keys)[0] = a
<1> DEFINE E == EncRounds(a, keys)
           D == DecRounds(E[15], keys)
<1>1. /\ E[-1] = a /\ \A cnt \in -1..15 : E[cnt] \in Bits(64)
      /\ \A cnt \in 0..15 : E[cnt] = Cipher!Round(E[cnt - 1], keys[cnt + 1], cnt = 15)
  BY EncRoundsAre
<1>2. E[15] \in Bits(64)
  BY <1>1
<1>3. D[16] = E[15] /\ \A cnt \in 0..15 : D[cnt] = Cipher!Round(D[cnt + 1], keys[cnt + 1], cnt = 0)
  BY <1>2, DecRoundsAre
<1> HIDE DEF E, D
\* The block before the round cnt, and the one after it if it is not the last.
<1>4. ASSUME NEW cnt \in 0..15
      PROVE  /\ E[cnt - 1] \in Bits(64) /\ keys[cnt + 1] \in Bits(48)
             /\ Cipher!Round(Turned(Cipher!Round(E[cnt - 1], keys[cnt + 1], FALSE)), keys[cnt + 1], FALSE)
                  = Turned(E[cnt - 1])
  <2>1. cnt - 1 \in -1..15 /\ cnt + 1 \in 1..16
    OBVIOUS
  <2>2. E[cnt - 1] \in Bits(64) /\ keys[cnt + 1] \in Bits(48)
    BY <1>1, <2>1
  <2> QED
    BY <2>2, RoundTurns
<1> DEFINE Backwards == {n \in 0..14 : D[15 - n] = Turned(E[14 - n])}
           w == [n \in 0..14 |-> n]
<1>5. w[0] \in Backwards
  <2>1. E[15] = Turned(Cipher!Round(E[14], keys[16], FALSE))
    <3>0. 15 \in 0..15 /\ 15 - 1 = 14 /\ 15 + 1 = 16 /\ (15 = 15) = TRUE /\ 14 \in -1..15 /\ 16 \in 1..16
      OBVIOUS
    <3>1. E[15] = Cipher!Round(E[14], keys[16], TRUE)
      <4>1. E[15] = Cipher!Round(E[15 - 1], keys[15 + 1], 15 = 15)
        BY <1>1, <3>0
      <4> QED
        BY <3>0, <4>1
    <3>2. E[14] \in Bits(64) /\ keys[16] \in Bits(48)
      BY <1>1, <3>0
    <3> QED
      BY <3>1, <3>2, RoundTurns
  <2>2. D[15] = Cipher!Round(E[15], keys[16], FALSE)
    <3>1. 15 \in 0..15 /\ 15 + 1 = 16 /\ (15 = 0) = FALSE
      OBVIOUS
    <3>2. D[15] = Cipher!Round(D[15 + 1], keys[15 + 1], 15 = 0)
      BY <1>3, <3>1
    <3> QED
      BY <1>3, <3>1, <3>2
  <2>3. Cipher!Round(Turned(Cipher!Round(E[14], keys[16], FALSE)), keys[16], FALSE) = Turned(E[14])
    <3>1. 15 \in 0..15 /\ 15 - 1 = 14 /\ 15 + 1 = 16
      OBVIOUS
    <3>2. Cipher!Round(Turned(Cipher!Round(E[15 - 1], keys[15 + 1], FALSE)), keys[15 + 1], FALSE) = Turned(E[15 - 1])
      BY <1>4, <3>1
    <3> QED
      BY <3>1, <3>2
  <2>4. D[15] = Turned(E[14])
    BY <2>1, <2>2, <2>3
  <2>5. 0 \in 0..14 /\ 15 - 0 = 15 /\ 14 - 0 = 14
    OBVIOUS
  <2> QED
    BY <2>4, <2>5
<1>6. \A n \in 1..14 : w[n - 1] \in Backwards => w[n] \in Backwards
  <2> SUFFICES ASSUME NEW n \in 1..14, w[n - 1] \in Backwards PROVE w[n] \in Backwards
    OBVIOUS
  <2>1. PICK cnt \in 1..14 : cnt = 15 - n
    OBVIOUS
  <2>2. cnt \in 0..15 /\ cnt # 0 /\ cnt # 15 /\ 15 - (n - 1) = cnt + 1 /\ 14 - (n - 1) = cnt /\ 14 - n = cnt - 1
        /\ n - 1 \in 0..14
    BY <2>1
  <2>3. D[cnt + 1] = Turned(E[cnt])
    BY <2>2
  <2>4. E[cnt] = Cipher!Round(E[cnt - 1], keys[cnt + 1], FALSE)
    <3>1. (cnt = 15) = FALSE
      BY <2>2
    <3> QED
      BY <1>1, <2>2, <3>1
  <2>5. D[cnt] = Cipher!Round(D[cnt + 1], keys[cnt + 1], FALSE)
    <3>1. (cnt = 0) = FALSE
      BY <2>2
    <3> QED
      BY <1>3, <2>2, <3>1
  <2>6. D[cnt] = Turned(E[cnt - 1])
    BY <1>4, <2>2, <2>3, <2>4, <2>5
  <2> QED
    BY <2>1, <2>2, <2>6
<1>7. w[14] \in Backwards
  <2> HIDE DEF Backwards, w
  <2> QED
    BY <1>5, <1>6, Reaches
<1>8. D[1] = Turned(E[0])
  BY <1>7
<1>9. D[0] = Turned(Cipher!Round(D[1], keys[1], FALSE))
  <2>1. D[0] = Cipher!Round(D[1], keys[1], TRUE)
    <3>1. 0 \in 0..15 /\ 0 + 1 = 1 /\ (0 = 0) = TRUE
      OBVIOUS
    <3>2. D[0] = Cipher!Round(D[0 + 1], keys[0 + 1], 0 = 0)
      BY <1>3, <3>1
    <3> QED
      BY <3>1, <3>2
  <2>2. E[0] \in Bits(64)
    BY <1>1
  <2>3. D[1] \in Bits(64) /\ keys[1] \in Bits(48)
    BY <1>8, <2>2, TurnedBack
  <2> QED
    BY <2>1, <2>3, RoundTurns
<1>10. E[0] = Cipher!Round(E[-1], keys[1], FALSE)
  <2>1. 0 \in 0..15 /\ 0 - 1 = -1 /\ 0 + 1 = 1 /\ (0 = 15) = FALSE
    OBVIOUS
  <2>2. E[0] = Cipher!Round(E[0 - 1], keys[0 + 1], 0 = 15)
    BY <1>1, <2>1
  <2> QED
    BY <2>1, <2>2
<1>11. Cipher!Round(D[1], keys[1], FALSE) = Turned(a)
  <2>1. 0 \in 0..15 /\ 0 - 1 = -1 /\ 0 + 1 = 1
    OBVIOUS
  <2>2. Cipher!Round(Turned(Cipher!Round(E[-1], keys[1], FALSE)), keys[1], FALSE) = Turned(E[-1])
    BY <1>4, <2>1
  <2> QED
    BY <1>1, <1>8, <1>10, <2>2
<1>12. D[0] = a
  BY <1>9, <1>11, TurnedBack
<1> QED
  BY <1>2, <1>12 DEF D, E

-----------------------------------------------------------------------------
(* Pieces.  Sequences of one width, joined. *)
IsJoined(x, p, N, w, S) ==
  /\ x \in Seq(S) /\ Len(x) = w * N
  /\ \A n \in 1..N : \A j \in 1..w : x[w * (n - 1) + j] = p[n][j]

LEMMA WidthsJoined ==
  \A S, f, p : \A w \in Nat :
    Joins(f, p, S) /\ (\A i \in 1..Len(p) : Len(p[i]) = w) => IsJoined(Flat(p), p, Len(p), w, S)
<1> SUFFICES ASSUME NEW S, NEW w \in Nat, NEW p, NEW f, Joins(f, p, S), \A i \in 1..Len(p) : Len(p[i]) = w
             PROVE  IsJoined(Flat(p), p, Len(p), w, S)
  OBVIOUS
<1>1. PICK N \in Nat : N = Len(p)
  BY LenProperties DEF Joins
<1>2. /\ Flat(p) \in Seq(S) /\ Flat(p) = f[N]
      /\ Len(f[0]) = 0 /\ \A i \in 1..N : Len(f[i]) = Len(f[i - 1]) + Len(p[i])
      /\ \A i \in 1..N : \A j \in 1..Len(p[i]) : Flat(p)[Len(f[i - 1]) + j] = p[i][j]
  <2>1. Flat(p) = f[Len(p)]
    BY DEF Joins
  <2>2. InPlace(f, p, S)
    BY JoinsReads
  <2> QED
    BY <1>1, <2>1, <2>2 DEF InPlace
<1>3. \A i \in 1..N : Len(p[i]) = w
  BY <1>1
<1> DEFINE Wide == {k \in Nat : Len(f[k]) = w * k}
           place == [k \in 0..N |-> k]
<1>4. place[0] \in Wide
  BY <1>2
<1>5. \A k \in 1..N : place[k - 1] \in Wide => place[k] \in Wide
  <2> SUFFICES ASSUME NEW k \in 1..N, place[k - 1] \in Wide PROVE place[k] \in Wide
    OBVIOUS
  <2>1. k - 1 \in 0..N /\ k \in 0..N /\ k \in Nat
    OBVIOUS
  <2>2. Len(f[k - 1]) = w * (k - 1)
    BY <2>1
  <2>3. Len(f[k]) = w * (k - 1) + w
    BY <1>2, <1>3, <2>2
  <2>4. w * (k - 1) + w = w * k
    BY <2>1
  <2>5. Len(f[k]) = w * k
    BY <2>3, <2>4
  <2> QED
    BY <2>1, <2>5
<1>6. \A k \in 0..N : place[k] \in Wide
  <2> HIDE DEF Wide, place
  <2> QED
    BY <1>4, <1>5, Reaches
<1>7. \A k \in 0..N : Len(f[k]) = w * k
  BY <1>6
<1>8. ASSUME NEW n \in 1..N, NEW j \in 1..w PROVE Flat(p)[w * (n - 1) + j] = p[n][j]
  <2>1. n - 1 \in 0..N
    OBVIOUS
  <2>2. Flat(p)[Len(f[n - 1]) + j] = p[n][j]
    BY <1>2, <1>3
  <2>3. Len(f[n - 1]) = w * (n - 1)
    BY <1>7, <2>1
  <2> QED
    BY <2>2, <2>3
<1>9. Len(Flat(p)) = w * N
  <2>1. N \in 0..N
    OBVIOUS
  <2> QED
    BY <1>2, <1>7, <2>1
<1> QED
  BY <1>1, <1>2, <1>8, <1>9 DEF IsJoined

\* p is a function to sequences of the length w.
LEMMA Joined ==
  ASSUME NEW S, NEW w \in Nat, NEW N \in Nat, NEW p \in [1..N -> Seq(S)],
         \A i \in 1..N : Len(p[i]) = w
  PROVE  IsJoined(Flat(p), p, N, w, S)
<1>1. p \in Seq(Seq(S)) /\ Len(p) = N
  BY SeqOf
<1>2. PICK q : q = p
  OBVIOUS
<1>3. q \in Seq(Seq(S)) /\ Len(q) = N
  BY <1>1, <1>2
<1>4. PICK f : Joins(f, q, S)
  BY <1>3, FlatIs
<1>5. \A i \in 1..Len(q) : Len(q[i]) = w
  BY <1>2, <1>3
<1>6. IsJoined(Flat(q), q, Len(q), w, S)
  BY <1>4, <1>5, WidthsJoined
<1> QED
  BY <1>2, <1>3, <1>6

-----------------------------------------------------------------------------
(* A block that is encrypted and decrypted with the same keys. *)
LEMMA EncryptIs ==
  \A x, keys : Cipher!DES_EncryptBlock(x, keys) =
    Cipher!Bit64ToChar8(Cipher!Permuted(
      EncRounds(Cipher!Permuted(Cipher!Char8ToBit64(x), Cipher!DES_IP_Table), keys)[15], Cipher!DES_IP_1_Table))
BY DEF Cipher!DES_EncryptBlock, EncRounds, EncStep

LEMMA DecryptIs ==
  \A x, keys : Cipher!DES_DecryptBlock(x, keys) =
    Cipher!Bit64ToChar8(Cipher!Permuted(
      DecRounds(Cipher!Permuted(Cipher!Char8ToBit64(x), Cipher!DES_IP_Table), keys)[0], Cipher!DES_IP_1_Table))
BY DEF Cipher!DES_DecryptBlock, DecRounds, DecStep

LEMMA BlockInverts ==
  \A x \in Octets, keys \in [1..16 -> Bits(48)] :
    /\ Cipher!DES_EncryptBlock(x, keys) \in Octets
    /\ Cipher!DES_DecryptBlock(Cipher!DES_EncryptBlock(x, keys), keys) = x
<1> SUFFICES ASSUME NEW x \in Octets, NEW keys \in [1..16 -> Bits(48)]
             PROVE  /\ Cipher!DES_EncryptBlock(x, keys) \in Octets
                    /\ Cipher!DES_DecryptBlock(Cipher!DES_EncryptBlock(x, keys), keys) = x
  OBVIOUS
<1>1. PICK b \in Bits(64) : b = Cipher!Char8ToBit64(x) /\ Cipher!Bit64ToChar8(b) = x
  BY BitsOfBlock
<1>2. PICK a \in Bits(64) : a = Cipher!Permuted(b, Cipher!DES_IP_Table)
                            /\ Cipher!Permuted(a, Cipher!DES_IP_1_Table) = b
  BY PermutedTypes, PermutedTwice
<1>3. PICK e \in Bits(64) : e = EncRounds(a, keys)[15] /\ DecRounds(e, keys)[0] = a
  BY RoundsInvert
<1>4. PICK f \in Bits(64) : f = Cipher!Permuted(e, Cipher!DES_IP_1_Table)
                            /\ Cipher!Permuted(f, Cipher!DES_IP_Table) = e
  BY PermutedTypes, PermutedTwice
<1>5. PICK y \in Octets : y = Cipher!Bit64ToChar8(f) /\ Cipher!Char8ToBit64(y) = f
  BY BlockOfBits
<1>6. Cipher!DES_EncryptBlock(x, keys) = y
  BY <1>1, <1>2, <1>3, <1>4, <1>5, EncryptIs
<1>7. Cipher!DES_DecryptBlock(y, keys) = x
  BY <1>1, <1>2, <1>3, <1>4, <1>5, DecryptIs
<1> QED
  BY <1>6, <1>7

-----------------------------------------------------------------------------
(* Blocks joined to one text, and the text cut into blocks again. *)
LEMMA BlocksJoined ==
  ASSUME NEW N \in Nat, NEW p \in [1..N -> Octets]
  PROVE  /\ Flat(p) \in Seq(Octet) /\ Len(Flat(p)) = 8 * N
         /\ \A n \in 1..N : \A j \in 1..8 : Flat(p)[8 * n - 8 + j] = p[n][j]
<1>1. \A x \in Octets : x \in Seq(Octet) /\ Len(x) = 8
  <2> SUFFICES ASSUME NEW x \in Octets PROVE x \in Seq(Octet) /\ Len(x) = 8
    OBVIOUS
  <2>1. PICK n \in Nat : n = 8
    OBVIOUS
  <2>2. x \in [1..n -> Octet]
    BY <2>1 DEF Octets
  <2>3. x \in Seq(Octet) /\ Len(x) = n
    BY <2>2, SeqOf
  <2> QED
    BY <2>1, <2>3
<1>2. p \in [1..N -> Seq(Octet)] /\ \A i \in 1..N : Len(p[i]) = 8
  BY <1>1
<1>3. PICK w \in Nat : w = 8
  OBVIOUS
<1>4. IsJoined(Flat(p), p, N, w, Octet)
  BY <1>2, <1>3, Joined
<1>5. \A n \in 1..N : \A j \in 1..8 : w * (n - 1) + j = 8 * n - 8 + j /\ j \in 1..w
  BY <1>3
<1> QED
  BY <1>3, <1>4, <1>5 DEF IsJoined

LEMMA BlocksAre ==
  ASSUME NEW input \in Seq(Octet), NEW N \in Nat, Len(input) = 8 * N
  PROVE  /\ Cipher!Blocks(input) \in [1..N -> Octets]
         /\ \A n \in 1..N : \A j \in 1..8 : Cipher!Blocks(input)[n][j] = input[8 * n - 8 + j]
<1>1. Len(input) \div 8 = N
  <2>1. (8 * N) \div 8 = N
    OBVIOUS
  <2> QED
    BY <2>1
<1>2. ASSUME NEW n \in 1..N
      PROVE  /\ SubSeq(input, 8 * n - 7, 8 * n) \in Octets
             /\ \A j \in 1..8 : SubSeq(input, 8 * n - 7, 8 * n)[j] = input[8 * n - 8 + j]
  <2>1. n \in Nat /\ 1 <= n /\ 8 * n <= Len(input)
    OBVIOUS
  <2>2. /\ SubSeq(input, 8 * n - 7, 8 * n) \in [1..8 -> Octet]
        /\ \A i \in 1..8 : SubSeq(input, 8 * n - 7, 8 * n)[i] = input[8 * n - 8 + i]
    BY <2>1, EightOf DEF IsEighth
  <2> QED
    BY <2>2 DEF Octets
<1>3. Cipher!Blocks(input) = [n \in 1..N |-> SubSeq(input, 8 * n - 7, 8 * n)]
  BY <1>1 DEF Cipher!Blocks
<1> QED
  BY <1>2, <1>3

LEMMA PlaceInBlock ==
  ASSUME NEW N \in Nat, NEW p \in 1..8 * N
  PROVE  \E n \in 1..N, j \in 1..8 : p = 8 * n - 8 + j
<1>1. ((p - 1) \div 8) + 1 \in 1..N /\ ((p - 1) % 8) + 1 \in 1..8
      /\ p = 8 * (((p - 1) \div 8) + 1) - 8 + (((p - 1) % 8) + 1)
  <2>1. PICK q \in Nat : q = p - 1 /\ q <= 8 * N - 1
    OBVIOUS
  <2>2. PICK a \in Int, b \in 0..7 : a = q \div 8 /\ b = q % 8 /\ q = 8 * a + b
    <3>1. q \div 8 \in Int /\ q % 8 \in 0..7 /\ q = 8 * (q \div 8) + (q % 8)
      OBVIOUS
    <3> QED
      BY <3>1
  <2>3. a + 1 \in 1..N /\ b + 1 \in 1..8 /\ p = 8 * (a + 1) - 8 + (b + 1)
    BY <2>1, <2>2
  <2> QED
    BY <2>1, <2>2, <2>3
<1> QED
  BY <1>1

LEMMA CutIsJoined ==
  ASSUME NEW N \in Nat, NEW p \in [1..N -> Octets] PROVE Cipher!Blocks(Flat(p)) = p
<1> DEFINE s == Flat(p)
           b == Cipher!Blocks(s)
<1>1. s \in Seq(Octet) /\ Len(s) = 8 * N /\ \A n \in 1..N : \A j \in 1..8 : s[8 * n - 8 + j] = p[n][j]
  BY BlocksJoined
<1> HIDE DEF s
<1>2. b \in [1..N -> Octets] /\ \A n \in 1..N : \A j \in 1..8 : b[n][j] = s[8 * n - 8 + j]
  BY <1>1, BlocksAre
<1> HIDE DEF b
<1>3. \A n \in 1..N : b[n] = p[n]
  <2> SUFFICES ASSUME NEW n \in 1..N PROVE b[n] = p[n]
    OBVIOUS
  <2>1. b[n] \in Octets /\ p[n] \in Octets /\ \A j \in 1..8 : b[n][j] = p[n][j]
    BY <1>1, <1>2
  <2>2. b[n] \in [1..8 -> Octet] /\ p[n] \in [1..8 -> Octet]
    BY <2>1 DEF Octets
  <2>3. b[n] = [j \in 1..8 |-> b[n][j]] /\ p[n] = [j \in 1..8 |-> p[n][j]]
    BY <2>2
  <2> QED
    BY <2>1, <2>3
<1>4. b = p
  BY <1>2, <1>3
<1> QED
  BY <1>4 DEF b, s

LEMMA JoinedIsCut ==
  ASSUME NEW input \in Seq(Octet), NEW N \in Nat, Len(input) = 8 * N
  PROVE  Flat(Cipher!Blocks(input)) = input
<1>1. PICK b \in [1..N -> Octets] :
        b = Cipher!Blocks(input) /\ \A n \in 1..N : \A j \in 1..8 : b[n][j] = input[8 * n - 8 + j]
  BY BlocksAre
<1>2. PICK s \in Seq(Octet) : s = Flat(b) /\ Len(s) = 8 * N
                               /\ \A n \in 1..N : \A j \in 1..8 : s[8 * n - 8 + j] = b[n][j]
  BY BlocksJoined
<1>3. \A i \in 1..Len(s) : s[i] = input[i]
  <2> SUFFICES ASSUME NEW i \in 1..Len(s) PROVE s[i] = input[i]
    OBVIOUS
  <2>1. PICK n \in 1..N, j \in 1..8 : i = 8 * n - 8 + j
    <3>1. i \in 1..8 * N
      BY <1>2
    <3> QED
      BY <3>1, PlaceInBlock
  <2> QED
    BY <1>1, <1>2, <2>1
<1>4. s = input
  BY <1>2, <1>3, SeqEqual
<1> QED
  BY <1>1, <1>2, <1>4

(* The theorem of the module Des: what was encrypted with the default key is
   decrypted to what it was. *)
LEMMA DecryptIsInverse == \A input \in Seq(Octet) : Cipher!DecryptInverts(input)
<1> SUFFICES ASSUME NEW input \in Seq(Octet), Cipher!Aligned(input),
                    NEW cipher \in Cipher!DES__encrypt(input, Nothing)
             PROVE  Cipher!DES__decrypt(cipher, Nothing) = {input}
  BY DEF Cipher!DecryptInverts
<1>1. PICK N \in Nat : Len(input) = 8 * N /\ N > 0
  <2>1. PICK n \in Nat : n = Len(input)
    BY LenProperties
  <2>2. n > 0 /\ n % 8 = 0
    BY <2>1 DEF Cipher!Aligned
  <2>3. n = 8 * (n \div 8) /\ n \div 8 \in Nat /\ n \div 8 > 0
    BY <2>2
  <2> QED
    BY <2>1, <2>3
<1>2. PICK keys \in [1..16 -> Bits(48)] : keys = Cipher!SubKeys(DefaultKey)
  <2>1. DefaultKey \in Octets
    BY FunctionsAssumption DEF Octets, Octet
  <2> QED
    BY <2>1, BitsOfBlock, SubKeysType DEF Cipher!SubKeys
<1>3. PICK b \in [1..N -> Octets] : b = Cipher!Blocks(input) /\ Flat(b) = input
  BY <1>1, BlocksAre, JoinedIsCut
<1> DEFINE e == [n \in 1..N |-> Cipher!DES_EncryptBlock(b[n], keys)]
           d == [n \in 1..N |-> Cipher!DES_DecryptBlock(e[n], keys)]
<1>4. e \in [1..N -> Octets] /\ \A n \in 1..N : Cipher!DES_DecryptBlock(e[n], keys) = b[n]
  BY BlockInverts
<1>5. d = b
  <2> HIDE DEF e
  <2>1. d = [n \in 1..N |-> b[n]]
    BY <1>4
  <2> HIDE DEF d
  <2> QED
    BY <2>1
<1>6. \A s : Cipher!FlattenSeq(s) = Flat(s)
  BY DEF Cipher!FlattenSeq, Flat
<1>7. Cipher!KeyBlocks(Nothing) = {DefaultKey}
  BY DEF Cipher!KeyBlocks
<1>8. cipher = Flat(e)
  <2>1. DOMAIN b = 1..N
    OBVIOUS
  <2>2. e = [n \in DOMAIN b |-> Cipher!DES_EncryptBlock(b[n], keys)]
    BY <2>1
  <2> HIDE DEF e
  <2>3. cipher = Cipher!FlattenSeq([n \in DOMAIN b |-> Cipher!DES_EncryptBlock(b[n], keys)])
    BY <1>2, <1>3, <1>7 DEF Cipher!DES__encrypt
  <2> QED
    BY <1>6, <2>2, <2>3
<1>9. Cipher!Blocks(cipher) = e /\ Cipher!Aligned(cipher)
  <2> HIDE DEF e
  <2>1. Len(cipher) = 8 * N
    BY <1>4, <1>8, BlocksJoined
  <2>2. 8 * N > 0 /\ (8 * N) % 8 = 0
    BY <1>1
  <2> QED
    BY <1>4, <1>8, <2>1, <2>2, CutIsJoined DEF Cipher!Aligned
<1>10. Cipher!DES__decrypt(cipher, Nothing) = {Flat(d)}
  <2>1. DOMAIN e = 1..N
    OBVIOUS
  <2>2. d = [n \in DOMAIN e |-> Cipher!DES_DecryptBlock(e[n], keys)]
    BY <2>1
  <2> HIDE DEF e, d
  <2>3. Cipher!DES__decrypt(cipher, Nothing) =
          {Cipher!FlattenSeq([n \in DOMAIN e |-> Cipher!DES_DecryptBlock(e[n], Cipher!SubKeys(keyBlock))]) :
             keyBlock \in {DefaultKey}}
    BY <1>7, <1>9 DEF Cipher!DES__decrypt
  <2>4. Cipher!DES__decrypt(cipher, Nothing) = {Cipher!FlattenSeq([n \in DOMAIN e |-> Cipher!DES_DecryptBlock(e[n], keys)])}
    BY <1>2, <2>3
  <2> QED
    BY <1>6, <2>2, <2>4
<1> QED
  <2> HIDE DEF d
  <2> QED
    BY <1>3, <1>5, <1>10

LEMMA SubSeqReads ==
  ASSUME NEW S, NEW x \in Seq(S), NEW a \in Nat, NEW b \in Nat, 1 <= a, a <= b + 1, b <= Len(x)
  PROVE  /\ SubSeq(x, a, b) \in Seq(S) /\ Len(SubSeq(x, a, b)) = b + 1 - a
         /\ \A j \in 1..(b + 1 - a) : SubSeq(x, a, b)[j] = x[a + j - 1]
<1>1. \A i \in a..b : x[i] \in S
  BY LenProperties
<1>2. /\ SubSeq(x, a, b) \in Seq(S)
      /\ Len(SubSeq(x, a, b)) = IF a <= b THEN b - a + 1 ELSE 0
      /\ \A i \in 1 .. b - a + 1 : SubSeq(x, a, b)[i] = x[a + i - 1]
  BY <1>1, SubSeqProperties
<1>3. b - a + 1 = b + 1 - a /\ (IF a <= b THEN b - a + 1 ELSE 0) = b + 1 - a
  OBVIOUS
<1> QED
  BY <1>2, <1>3

(* Pieces of three and of four: where they start and how long they are. *)
Reach(N, w, k) == IF w * k < N THEN w * k ELSE N
CutInto(x, w, p, G, S) ==
  /\ p \in [1..G -> Seq(S)]
  /\ \A k \in 1..G : /\ Len(p[k]) = Reach(Len(x), w, k) - w * (k - 1)
                     /\ \A j \in 1..Len(p[k]) : p[k][j] = x[w * (k - 1) + j]

LEMMA PiecesAre ==
  ASSUME NEW S, NEW x \in Seq(S), NEW w \in {3, 4}, NEW G \in Nat,
         Len(x) <= w * G, \A k \in 1..G : w * (k - 1) < Len(x)
  PROVE  Codec!Pieces(x, w) = [k \in 1..G |-> SubSeq(x, w * (k - 1) + 1, Reach(Len(x), w, k))]
         /\ CutInto(x, w, Codec!Pieces(x, w), G, S)
<1>1. PICK N \in Nat : N = Len(x)
  BY LenProperties
<1>2. N <= w * G /\ \A k \in 1..G : w * (k - 1) < N
  BY <1>1
<1>3. (N + w - 1) \div w = G
  <2>1. CASE G = 0
    BY <1>2, <2>1
  <2>2. CASE G # 0
    <3>1. w * (G - 1) < N
      BY <1>2, <2>2
    <3> QED
      BY <1>2, <3>1
  <2> QED
    BY <2>1, <2>2
<1>4. Codec!Pieces(x, w) = [k \in 1..G |-> SubSeq(x, w * (k - 1) + 1, Reach(N, w, k))]
  BY <1>1, <1>3 DEF Codec!Pieces, Reach
<1>5. ASSUME NEW k \in 1..G
      PROVE  /\ SubSeq(x, w * (k - 1) + 1, Reach(N, w, k)) \in Seq(S)
             /\ Len(SubSeq(x, w * (k - 1) + 1, Reach(N, w, k))) = Reach(N, w, k) - w * (k - 1)
             /\ \A j \in 1..Reach(N, w, k) - w * (k - 1) :
                  SubSeq(x, w * (k - 1) + 1, Reach(N, w, k))[j] = x[w * (k - 1) + j]
  <2>1. PICK a \in Nat, b \in Nat : a = w * (k - 1) + 1 /\ b = Reach(N, w, k)
    BY DEF Reach
  <2>2. w * (k - 1) < N /\ w * (k - 1) <= w * k
    BY <1>2
  <2>3. 1 <= a /\ a <= b + 1 /\ b <= N
    BY <2>1, <2>2 DEF Reach
  <2>4. /\ SubSeq(x, a, b) \in Seq(S) /\ Len(SubSeq(x, a, b)) = b + 1 - a
        /\ \A j \in 1..(b + 1 - a) : SubSeq(x, a, b)[j] = x[a + j - 1]
    BY <1>1, <2>3, SubSeqReads
  <2>5. b + 1 - a = b - w * (k - 1) /\ \A j \in 1..(b + 1 - a) : a + j - 1 = w * (k - 1) + j
    BY <2>1
  <2> QED
    BY <2>1, <2>4, <2>5
<1> DEFINE p == Codec!Pieces(x, w)
<1>6. p \in [1..G -> Seq(S)] /\ \A k \in 1..G : p[k] = SubSeq(x, w * (k - 1) + 1, Reach(N, w, k))
  BY <1>4, <1>5
<1> HIDE DEF p
<1>7. CutInto(x, w, p, G, S)
  <2>1. \A k \in 1..G : /\ Len(p[k]) = Reach(N, w, k) - w * (k - 1)
                        /\ \A j \in 1..Len(p[k]) : p[k][j] = x[w * (k - 1) + j]
    <3> SUFFICES ASSUME NEW k \in 1..G
                 PROVE  /\ Len(p[k]) = Reach(N, w, k) - w * (k - 1)
                        /\ \A j \in 1..Len(p[k]) : p[k][j] = x[w * (k - 1) + j]
      OBVIOUS
    <3> QED
      BY <1>5, <1>6
  <2> QED
    BY <1>1, <1>6, <2>1 DEF CutInto
<1> QED
  BY <1>1, <1>4, <1>7 DEF p

-----------------------------------------------------------------------------
(* base64.  A group of one, two or three bytes is decoded to what it was; only a
   group that is not whole holds the pad. *)
Code == 0..64
Quad(e) == e \in Seq(Code) /\ Len(e) = 4

LEMMA TupleOf ==
  ASSUME NEW S, NEW b \in Seq(S)
  PROVE  /\ Len(b) = 1 => b = <<b[1]>>
         /\ Len(b) = 2 => b = <<b[1], b[2]>>
         /\ Len(b) = 3 => b = <<b[1], b[2], b[3]>>
<1>1. \A n \in Nat : Len(b) = n => DOMAIN b = 1..n /\ b \in [1..n -> S]
  BY LenProperties
<1>2. Len(b) = 1 => b = <<b[1]>>
  BY <1>1
<1>3. Len(b) = 2 => b = <<b[1], b[2]>>
  BY <1>1
<1>4. Len(b) = 3 => b = <<b[1], b[2], b[3]>>
  BY <1>1
<1> QED
  BY <1>2, <1>3, <1>4

LEMMA GroupInverts ==
  \A b \in Seq(Octet) : Len(b) \in 1..3 =>
    /\ Quad(Codec!EncodeGroup(b)) /\ Codec!DecodeGroup(Codec!EncodeGroup(b)) = b
    /\ Codec!EncodeGroup(b)[3] = Codec!Pad <=> Len(b) = 1
    /\ Codec!EncodeGroup(b)[4] = Codec!Pad <=> Len(b) # 3
<1> SUFFICES ASSUME NEW b \in Seq(Octet), Len(b) \in 1..3
             PROVE  /\ Quad(Codec!EncodeGroup(b)) /\ Codec!DecodeGroup(Codec!EncodeGroup(b)) = b
                    /\ Codec!EncodeGroup(b)[3] = Codec!Pad <=> Len(b) = 1
                    /\ Codec!EncodeGroup(b)[4] = Codec!Pad <=> Len(b) # 3
  OBVIOUS
<1>0. \A i \in 1..Len(b) : b[i] \in 0..255
  BY LenProperties DEF Octet
<1>1. CASE Len(b) = 1
  <2>1. PICK b1 \in 0..255 : b1 = b[1]
    BY <1>0, <1>1
  <2>2. PICK e1 \in 0..63, e2 \in 0..63 : e1 = b1 \div 4 /\ e2 = (b1 % 4) * 16 + 0
    OBVIOUS
  <2>3. Codec!EncodeGroup(b) = <<e1, e2, 64, 64>>
    BY <1>1, <2>1, <2>2 DEF Codec!EncodeGroup, Codec!Pad
  <2>4. e1 * 4 + e2 \div 16 = b1
    BY <2>2
  <2>5. Codec!DecodeGroup(<<e1, e2, 64, 64>>) = <<b1>>
    BY <2>4 DEF Codec!DecodeGroup, Codec!Pad
  <2>6. Quad(<<e1, e2, 64, 64>>)
    BY DEF Quad, Code
  <2> QED
    BY <1>1, <2>1, <2>3, <2>5, <2>6, TupleOf DEF Codec!Pad
<1>2. CASE Len(b) = 2
  <2>1. PICK b1 \in 0..255, b2 \in 0..255 : b1 = b[1] /\ b2 = b[2]
    <3>1. 1 \in 1..Len(b) /\ 2 \in 1..Len(b)
      BY <1>2
    <3> QED
      BY <1>0, <3>1
  <2>2. PICK e1 \in 0..63, e2 \in 0..63, e3 \in 0..63 :
          e1 = b1 \div 4 /\ e2 = (b1 % 4) * 16 + b2 \div 16 /\ e3 = (b2 % 16) * 4 + 0
    <3>1. b1 \div 4 \in 0..63
      OBVIOUS
    <3>2. (b1 % 4) * 16 + b2 \div 16 \in 0..63
      OBVIOUS
    <3>3. (b2 % 16) * 4 + 0 \in 0..63
      OBVIOUS
    <3> QED
      BY <3>1, <3>2, <3>3
  <2>3. Codec!EncodeGroup(b) = <<e1, e2, e3, 64>>
    BY <1>2, <2>1, <2>2 DEF Codec!EncodeGroup, Codec!Pad
  <2>4. e1 * 4 + e2 \div 16 = b1 /\ (e2 % 16) * 16 + e3 \div 4 = b2
    BY <2>2
  <2>5. Codec!DecodeGroup(<<e1, e2, e3, 64>>) = <<b1, b2>>
    BY <2>4 DEF Codec!DecodeGroup, Codec!Pad
  <2>6. Quad(<<e1, e2, e3, 64>>)
    BY DEF Quad, Code
  <2>7. e3 # 64
    OBVIOUS
  <2> QED
    BY <1>2, <2>1, <2>3, <2>5, <2>6, <2>7, TupleOf DEF Codec!Pad
<1>3. CASE Len(b) = 3
  <2>1. PICK b1 \in 0..255, b2 \in 0..255, b3 \in 0..255 : b1 = b[1] /\ b2 = b[2] /\ b3 = b[3]
    <3>1. 1 \in 1..Len(b) /\ 2 \in 1..Len(b) /\ 3 \in 1..Len(b)
      BY <1>3
    <3> QED
      BY <1>0, <3>1
  <2>2. PICK e1 \in 0..63, e2 \in 0..63, e3 \in 0..63, e4 \in 0..63 :
          /\ e1 = b1 \div 4 /\ e2 = (b1 % 4) * 16 + b2 \div 16
          /\ e3 = (b2 % 16) * 4 + b3 \div 64 /\ e4 = b3 % 64
    <3>1. b1 \div 4 \in 0..63
      OBVIOUS
    <3>2. (b1 % 4) * 16 + b2 \div 16 \in 0..63
      OBVIOUS
    <3>3. (b2 % 16) * 4 + b3 \div 64 \in 0..63
      OBVIOUS
    <3>4. b3 % 64 \in 0..63
      OBVIOUS
    <3> QED
      BY <3>1, <3>2, <3>3, <3>4
  <2>3. Codec!EncodeGroup(b) = <<e1, e2, e3, e4>>
    BY <1>3, <2>1, <2>2 DEF Codec!EncodeGroup, Codec!Pad
  <2>4. e1 * 4 + e2 \div 16 = b1 /\ (e2 % 16) * 16 + e3 \div 4 = b2 /\ (e3 % 4) * 64 + e4 = b3
    <3>1. e1 * 4 + e2 \div 16 = b1
      BY <2>2
    <3>2. (e2 % 16) * 16 + e3 \div 4 = b2
      BY <2>2
    <3>3. (e3 % 4) * 64 + e4 = b3
      BY <2>2
    <3> QED
      BY <3>1, <3>2, <3>3
  <2>5. Codec!DecodeGroup(<<e1, e2, e3, e4>>) = <<b1, b2, b3>>
    BY <2>4 DEF Codec!DecodeGroup, Codec!Pad
  <2>6. Quad(<<e1, e2, e3, e4>>)
    BY DEF Quad, Code
  <2>7. e3 # 64 /\ e4 # 64
    OBVIOUS
  <2> QED
    BY <1>3, <2>1, <2>3, <2>5, <2>6, <2>7, TupleOf DEF Codec!Pad
<1> QED
  BY <1>1, <1>2, <1>3

(* Pieces of three joined again are what was cut; pieces of four of what was
   joined from fours are those. *)
LEMMA ThreesRejoin ==
  ASSUME NEW S, NEW x \in Seq(S), NEW G \in Nat, NEW p, CutInto(x, 3, p, G, S),
         Len(x) <= 3 * G, \A k \in 1..G : 3 * (k - 1) < Len(x)
  PROVE  Flat(p) = x
<1>1. PICK N \in Nat : N = Len(x)
  BY LenProperties
<1>2. /\ p \in [1..G -> Seq(S)]
      /\ \A k \in 1..G : /\ Len(p[k]) = Reach(N, 3, k) - 3 * (k - 1)
                         /\ \A j \in 1..Len(p[k]) : p[k][j] = x[3 * (k - 1) + j]
  BY <1>1 DEF CutInto
<1>3. N <= 3 * G /\ \A k \in 1..G : 3 * (k - 1) < N
  BY <1>1
<1>4. p \in Seq(Seq(S)) /\ Len(p) = G
  BY <1>2, SeqOf
<1>5. PICK q : q = p
  OBVIOUS
<1>6. q \in Seq(Seq(S)) /\ Len(q) = G
  BY <1>4, <1>5
<1>7. PICK f : Joins(f, q, S)
  BY <1>6, FlatIs
<1>8. InPlace(f, q, S) /\ Flat(q) = f[G]
  BY <1>6, <1>7, JoinsReads DEF Joins
<1>9. /\ Flat(q) \in Seq(S) /\ Len(f[0]) = 0
      /\ \A i \in 1..G : Len(f[i]) = Len(f[i - 1]) + Len(q[i])
      /\ \A i \in 1..G : \A j \in 1..Len(q[i]) : Flat(q)[Len(f[i - 1]) + j] = q[i][j]
  BY <1>6, <1>8 DEF InPlace
<1>10. \A i \in 1..G : Len(q[i]) = Reach(N, 3, i) - 3 * (i - 1)
  BY <1>2, <1>5
<1> DEFINE Reached == {k \in Nat : Len(f[k]) = Reach(N, 3, k)}
           place == [k \in 0..G |-> k]
<1>11. place[0] \in Reached
  BY <1>1, <1>9 DEF Reach
<1>12. \A k \in 1..G : place[k - 1] \in Reached => place[k] \in Reached
  <2> SUFFICES ASSUME NEW k \in 1..G, place[k - 1] \in Reached PROVE place[k] \in Reached
    OBVIOUS
  <2>1. k - 1 \in 0..G /\ k \in 0..G /\ k \in Nat
    OBVIOUS
  <2>2. Len(f[k - 1]) = Reach(N, 3, k - 1)
    BY <2>1
  <2>3. Reach(N, 3, k - 1) = 3 * (k - 1) /\ Reach(N, 3, k) \in Nat
    BY <1>3 DEF Reach
  <2>4. Len(f[k]) = 3 * (k - 1) + (Reach(N, 3, k) - 3 * (k - 1))
    BY <1>9, <1>10, <2>2, <2>3
  <2>5. Len(f[k]) = Reach(N, 3, k)
    BY <2>1, <2>3, <2>4
  <2> QED
    BY <2>1, <2>5
<1>13. \A k \in 0..G : place[k] \in Reached
  <2> HIDE DEF Reached, place
  <2> QED
    BY <1>11, <1>12, Reaches
<1>14. \A k \in 0..G : Len(f[k]) = Reach(N, 3, k)
  BY <1>13
<1>15. Len(Flat(q)) = N
  <2>1. G \in 0..G /\ Reach(N, 3, G) = N
    BY <1>3 DEF Reach
  <2> QED
    BY <1>8, <1>14, <2>1
<1>16. \A i \in 1..N : Flat(q)[i] = x[i]
  <2> SUFFICES ASSUME NEW i \in 1..N PROVE Flat(q)[i] = x[i]
    OBVIOUS
  <2>1. PICK k \in 1..G, j \in 1..3 : i = 3 * (k - 1) + j
    <3>1. PICK m \in Nat : m = i - 1 /\ m < 3 * G
      BY <1>3
    <3>2. m \div 3 \in Nat /\ m % 3 \in 0..2 /\ m = 3 * (m \div 3) + (m % 3)
      BY <3>1
    <3>3. (m \div 3) + 1 \in 1..G /\ (m % 3) + 1 \in 1..3 /\ i = 3 * (((m \div 3) + 1) - 1) + ((m % 3) + 1)
      BY <3>1, <3>2
    <3> QED
      BY <3>3
  <2>2. j \in 1..Reach(N, 3, k) - 3 * (k - 1)
    BY <2>1 DEF Reach
  <2>3. j \in 1..Len(q[k])
    BY <1>10, <2>2
  <2>4. Flat(q)[Len(f[k - 1]) + j] = q[k][j]
    BY <1>9, <2>3
  <2>5. Len(f[k - 1]) = 3 * (k - 1)
    <3>1. k - 1 \in 0..G /\ Reach(N, 3, k - 1) = 3 * (k - 1)
      BY <1>3 DEF Reach
    <3> QED
      BY <1>14, <3>1
  <2>6. q[k][j] = x[3 * (k - 1) + j]
    BY <1>2, <1>5, <2>3
  <2> QED
    BY <2>1, <2>4, <2>5, <2>6
<1>17. Flat(q) = x
  <2>1. Flat(q) \in Seq(S) /\ Len(Flat(q)) = Len(x) /\ \A i \in 1..Len(Flat(q)) : Flat(q)[i] = x[i]
    BY <1>1, <1>9, <1>15, <1>16
  <2> QED
    BY <2>1, SeqEqual
<1> QED
  BY <1>5, <1>17

LEMMA FoursRecut ==
  ASSUME NEW S, NEW G \in Nat, NEW p \in [1..G -> Seq(S)], \A k \in 1..G : Len(p[k]) = 4
  PROVE  Codec!Pieces(Flat(p), 4) = p
<1> DEFINE x == Flat(p)
           c == Codec!Pieces(x, 4)
<1>1. IsJoined(x, p, G, 4, S)
  <2>1. PICK w \in Nat : w = 4
    OBVIOUS
  <2>2. IsJoined(x, p, G, w, S)
    BY <2>1, Joined
  <2> QED
    BY <2>1, <2>2
<1> HIDE DEF x
<1>2. x \in Seq(S) /\ Len(x) = 4 * G /\ \A n \in 1..G : \A j \in 1..4 : x[4 * (n - 1) + j] = p[n][j]
  BY <1>1 DEF IsJoined
<1>3. CutInto(x, 4, c, G, S)
  <2>1. Len(x) <= 4 * G /\ \A k \in 1..G : 4 * (k - 1) < Len(x)
    BY <1>2
  <2> QED
    BY <1>2, <2>1, PiecesAre
<1> HIDE DEF c
<1>4. c \in [1..G -> Seq(S)]
  BY <1>3 DEF CutInto
<1>5. ASSUME NEW k \in 1..G PROVE c[k] = p[k]
  <2>1. Reach(4 * G, 4, k) - 4 * (k - 1) = 4
    BY DEF Reach
  <2>2. Len(c[k]) = 4 /\ \A j \in 1..4 : c[k][j] = x[4 * (k - 1) + j]
    <3>1. /\ Len(c[k]) = Reach(Len(x), 4, k) - 4 * (k - 1)
          /\ \A j \in 1..Len(c[k]) : c[k][j] = x[4 * (k - 1) + j]
      BY <1>3 DEF CutInto
    <3>2. Len(c[k]) = 4
      BY <1>2, <2>1, <3>1
    <3> QED
      BY <3>1, <3>2
  <2>3. c[k] \in Seq(S) /\ p[k] \in Seq(S) /\ Len(c[k]) = Len(p[k]) /\ \A j \in 1..Len(c[k]) : c[k][j] = p[k][j]
    BY <1>2, <1>4, <2>2
  <2> QED
    BY <2>3, SeqEqual
<1>6. c = p
  BY <1>4, <1>5
<1> QED
  BY <1>6 DEF c, x

(* The last group is the only one that may hold the pad, so that the decoder
   stops after it and not before. *)
LEMMA Base64IsInverse == \A input \in Seq(Octet) : Codec!Base64Inverts(input)
<1> SUFFICES ASSUME NEW input \in Seq(Octet), input # <<>>
             PROVE  /\ Len(Codec!base64__encode(input)) = Codec!base64_encode_len(Len(input))
                    /\ Codec!base64_decode_len(Codec!base64__encode(input)) = Len(input)
                    /\ Codec!base64__decode(Codec!base64__encode(input)) = input
  BY DEF Codec!Base64Inverts
<1>1. PICK N \in Nat : N = Len(input) /\ N > 0
  BY EmptySeq, LenProperties
<1>2. PICK G \in Nat : G > 0 /\ N <= 3 * G /\ 3 * (G - 1) < N
  <2>1. (N + 2) \div 3 \in Nat /\ (N + 2) \div 3 > 0 /\ N <= 3 * ((N + 2) \div 3) /\ 3 * (((N + 2) \div 3) - 1) < N
    BY <1>1
  <2> QED
    BY <2>1
<1>3. \A k \in 1..G : 3 * (k - 1) < N
  BY <1>2
<1> DEFINE p == Codec!Pieces(input, 3)
<1>4. CutInto(input, 3, p, G, Octet)
  <2>1. Len(input) <= 3 * G /\ \A k \in 1..G : 3 * (k - 1) < Len(input)
    BY <1>1, <1>2, <1>3
  <2> QED
    BY <2>1, PiecesAre
<1> HIDE DEF p
<1>5. Flat(p) = input
  <2>1. Len(input) <= 3 * G /\ \A k \in 1..G : 3 * (k - 1) < Len(input)
    BY <1>1, <1>2, <1>3
  <2> QED
    BY <1>4, <2>1, ThreesRejoin
<1>6. /\ p \in [1..G -> Seq(Octet)]
      /\ \A k \in 1..G : Len(p[k]) \in 1..3 /\ (k # G => Len(p[k]) = 3)
      /\ Len(p[G]) = N - 3 * (G - 1)
  <2>1. p \in [1..G -> Seq(Octet)] /\ \A k \in 1..G : Len(p[k]) = Reach(N, 3, k) - 3 * (k - 1)
    BY <1>1, <1>4 DEF CutInto
  <2>2. \A k \in 1..G : /\ Reach(N, 3, k) - 3 * (k - 1) \in 1..3
                        /\ k # G => Reach(N, 3, k) - 3 * (k - 1) = 3
    BY <1>2, <1>3 DEF Reach
  <2>3. G \in 1..G /\ Reach(N, 3, G) - 3 * (G - 1) = N - 3 * (G - 1)
    BY <1>2 DEF Reach
  <2> QED
    BY <2>1, <2>2, <2>3
<1> DEFINE e == [k \in 1..G |-> Codec!EncodeGroup(p[k])]
<1>7. /\ e \in [1..G -> Seq(Code)]
      /\ \A k \in 1..G : /\ Len(e[k]) = 4 /\ Codec!DecodeGroup(e[k]) = p[k]
                         /\ e[k][3] = Codec!Pad <=> Len(p[k]) = 1
                         /\ e[k][4] = Codec!Pad <=> Len(p[k]) # 3
  <2>1. \A k \in 1..G : /\ Quad(Codec!EncodeGroup(p[k]))
                        /\ Codec!DecodeGroup(Codec!EncodeGroup(p[k])) = p[k]
                        /\ Codec!EncodeGroup(p[k])[3] = Codec!Pad <=> Len(p[k]) = 1
                        /\ Codec!EncodeGroup(p[k])[4] = Codec!Pad <=> Len(p[k]) # 3
    BY <1>6, GroupInverts
  <2> QED
    BY <2>1 DEF Quad
<1>8. DOMAIN p = 1..G
  BY <1>6
<1>9. \A s : Codec!FlattenSeq(s) = Flat(s)
  BY DEF Codec!FlattenSeq, Flat
<1> DEFINE text == Flat(e)
<1>10. Codec!base64__encode(input) = text
  <2>1. e = [k \in DOMAIN p |-> Codec!EncodeGroup(p[k])]
    BY <1>8
  <2> HIDE DEF e
  <2>2. Codec!base64_encode(input) = Codec!FlattenSeq([k \in DOMAIN p |-> Codec!EncodeGroup(p[k])])
    BY DEF Codec!base64_encode, Codec!MapEach, p
  <2> QED
    BY <1>9, <2>1, <2>2 DEF Codec!base64__encode
<1> HIDE DEF e
<1>11. /\ text \in Seq(Code) /\ Len(text) = 4 * G
       /\ \A n \in 1..G : \A j \in 1..4 : text[4 * (n - 1) + j] = e[n][j]
  <2>1. PICK w \in Nat : w = 4
    OBVIOUS
  <2>2. \A k \in 1..G : Len(e[k]) = w
    BY <1>7, <2>1
  <2>3. IsJoined(text, e, G, w, Code)
    BY <1>7, <2>2, Joined
  <2> QED
    BY <2>1, <2>3 DEF IsJoined
<1>12. Codec!Pieces(text, 4) = e
  BY <1>7, FoursRecut
<1> HIDE DEF text
<1>13. Len(text) = Codec!base64_encode_len(Len(input))
  <2>1. (N + (IF N % 3 # 0 THEN 3 - (N % 3) ELSE 0)) \div 3 = G
    BY <1>2
  <2>2. Codec!base64_encode_len(N) = 4 * ((N + (IF N % 3 # 0 THEN 3 - (N % 3) ELSE 0)) \div 3)
    BY DEF Codec!base64_encode_len
  <2> QED
    BY <1>1, <1>11, <2>1, <2>2
<1>14. Codec!base64_decode_len(text) = N
  <2>1. text[4 * G] = e[G][4] /\ text[4 * G - 1] = e[G][3]
    <3>1. G \in 1..G /\ 4 * (G - 1) + 4 = 4 * G /\ 4 * (G - 1) + 3 = 4 * G - 1
      BY <1>2
    <3>2. text[4 * (G - 1) + 4] = e[G][4] /\ text[4 * (G - 1) + 3] = e[G][3]
      BY <1>11, <3>1
    <3> QED
      BY <3>1, <3>2
  <2>2. /\ text[4 * G] = Codec!Pad <=> Len(p[G]) # 3
        /\ text[4 * G - 1] = Codec!Pad <=> Len(p[G]) = 1
    <3>1. G \in 1..G
      BY <1>2
    <3> QED
      BY <1>7, <2>1, <3>1
  <2>3. (4 * G) \div 4 = G
    OBVIOUS
  <2>4. Codec!base64_decode_len(text) =
          3 * G - (IF text[4 * G] = Codec!Pad THEN 1 ELSE 0) - (IF text[4 * G - 1] = Codec!Pad THEN 1 ELSE 0)
    BY <1>11, <2>3 DEF Codec!base64_decode_len
  <2>5. PICK l \in 1..3 : l = Len(p[G]) /\ l = N - 3 * (G - 1)
    <3>1. G \in 1..G
      BY <1>2
    <3> QED
      BY <1>6, <3>1
  <2>6. Codec!base64_decode_len(text) = 3 * G - (IF l # 3 THEN 1 ELSE 0) - (IF l = 1 THEN 1 ELSE 0)
    BY <2>2, <2>4, <2>5
  <2> QED
    BY <2>5, <2>6
<1> DEFINE g == Codec!Pieces(text, 4)
           padded == {k \in DOMAIN g : Codec!Pad \in {g[k][3], g[k][4]}}
           last == IF padded = {} THEN Len(g) ELSE CHOOSE k \in padded : \A l \in padded : k <= l
<1>15. Codec!base64_decode(text) =
         Codec!FlattenSeq([k \in DOMAIN SubSeq(g, 1, last) |-> Codec!DecodeGroup(SubSeq(g, 1, last)[k])])
  BY DEF Codec!base64_decode, Codec!MapEach
<1>16. g = e /\ DOMAIN g = 1..G /\ g \in Seq(Seq(Code)) /\ Len(g) = G
  BY <1>7, <1>12, SeqOf
<1> HIDE DEF g
<1>17. last = G
  <2>1. padded \subseteq {G}
    <3> SUFFICES ASSUME NEW k \in padded PROVE k = G
      OBVIOUS
    <3>1. k \in 1..G /\ (g[k][3] = Codec!Pad \/ g[k][4] = Codec!Pad)
      BY <1>16
    <3>2. Len(p[k]) # 3
      <4>1. CASE g[k][3] = Codec!Pad
        <5>1. Len(p[k]) = 1
          BY <1>7, <1>16, <3>1, <4>1
        <5> QED
          BY <5>1
      <4>2. CASE g[k][4] = Codec!Pad
        BY <1>7, <1>16, <3>1, <4>2
      <4> QED
        BY <3>1, <4>1, <4>2
    <3> QED
      BY <1>6, <3>1, <3>2
  <2>2. CASE padded = {}
    BY <1>16, <2>2
  <2>3. CASE padded # {}
    <3>1. padded = {G}
      BY <2>1, <2>3
    <3> HIDE DEF padded
    <3>2. last = CHOOSE k \in {G} : \A l \in {G} : k <= l
      BY <3>1
    <3>3. \A k \in {G} : \A l \in {G} : k <= l
      OBVIOUS
    <3> HIDE DEF last
    <3> QED
      BY <3>2, <3>3
  <2> QED
    BY <2>2, <2>3
<1> HIDE DEF padded
<1>18. SubSeq(g, 1, last) = g
  BY <1>16, <1>17, SubSeqFull
<1> HIDE DEF last
<1>19. Codec!base64_decode(text) = input
  <2> DEFINE d == [k \in DOMAIN g |-> Codec!DecodeGroup(g[k])]
  <2>1. d = [k \in 1..G |-> p[k]]
    BY <1>7, <1>16
  <2>2. d = p
    <3> HIDE DEF d
    <3> QED
      BY <1>6, <2>1
  <2>3. Codec!base64_decode(text) = Codec!FlattenSeq(d)
    BY <1>15, <1>18
  <2> HIDE DEF d
  <2> QED
    BY <1>5, <1>9, <2>2, <2>3
<1>20. text # <<>>
  <2>1. 4 * G # 0
    BY <1>2
  <2> QED
    BY <1>11, <2>1, EmptySeq
<1>21. Codec!base64__decode(text) = input
  BY <1>1, <1>14, <1>19, <1>20 DEF Codec!base64__decode
<1> QED
  BY <1>1, <1>10, <1>13, <1>14, <1>21

-----------------------------------------------------------------------------
(* The cipher of encrypt.cpp.  Its alphabet is decoded to what was encoded, and
   has no tilde. *)
LEMMA AlphabetInverts ==
  \A v \in 0..63 : /\ Codec!ENCODE_TABLE[v + 1] \in Int /\ Codec!ENCODE_TABLE[v + 1] # Codec!Tilde
                   /\ Codec!Decoded(Codec!ENCODE_TABLE[v + 1]) = v
<1>1. \A v \in 1..64 : /\ Codec!ENCODE_TABLE[v] \in 32..127 /\ Codec!ENCODE_TABLE[v] # 126
                       /\ Codec!DECODE_TABLE[Codec!ENCODE_TABLE[v] - 31] = v - 1
  BY DEF Codec!ENCODE_TABLE, Codec!DECODE_TABLE
<1>2. ASSUME NEW v \in 0..63
      PROVE  /\ Codec!ENCODE_TABLE[v + 1] \in Int /\ Codec!ENCODE_TABLE[v + 1] # Codec!Tilde
             /\ Codec!Decoded(Codec!ENCODE_TABLE[v + 1]) = v
  <2>1. v + 1 \in 1..64 /\ (v + 1) - 1 = v
    OBVIOUS
  <2>2. PICK c : c = Codec!ENCODE_TABLE[v + 1] /\ c \in 32..127 /\ c # 126 /\ Codec!DECODE_TABLE[c - 31] = v
    BY <1>1, <2>1
  <2> QED
    BY <2>2 DEF Codec!Decoded, Codec!Tilde
<1> QED
  BY <1>2

(* Bits mixed twice are what they were. *)
Bit(c, k) == Cipher!ByteToBit(c)[k]

LEMMA MixedIs ==
  \A x \in Octet, y \in Octet :
    /\ Codec!Mixed(x, y) \in Octet
    /\ \A k \in 1..8 : Bit(Codec!Mixed(x, y), k) = IF k % 2 = 1 THEN Bit(x, k) ELSE Bit(y, k)
<1> SUFFICES ASSUME NEW x \in Octet, NEW y \in Octet
             PROVE  /\ Codec!Mixed(x, y) \in Octet
                    /\ \A k \in 1..8 : Bit(Codec!Mixed(x, y), k) = IF k % 2 = 1 THEN Bit(x, k) ELSE Bit(y, k)
  OBVIOUS
<1> DEFINE z == [k \in 1..8 |-> IF k % 2 = 1 THEN Bit(x, k) ELSE Bit(y, k)]
<1>1. /\ Cipher!ByteToBit(x) \in [1..8 -> {0, 1}] /\ Cipher!ByteToBit(y) \in [1..8 -> {0, 1}]
  BY BitsOfByte DEF Bits, Octet
<1>2. z \in Bits(8)
  BY <1>1 DEF Bits, Bit
<1>3. Codec!Mixed(x, y) = Cipher!BitToByte(z)
  <2>1. /\ z[1] = (x \div 1) % 2 /\ z[2] = (y \div 2) % 2 /\ z[3] = (x \div 4) % 2 /\ z[4] = (y \div 8) % 2
        /\ z[5] = (x \div 16) % 2 /\ z[6] = (y \div 32) % 2 /\ z[7] = (x \div 64) % 2 /\ z[8] = (y \div 128) % 2
    BY DEF Bit, Cipher!ByteToBit, Cipher!Weights
  <2>2. PICK a1 \in {0, 1}, a2 \in {0, 1}, a3 \in {0, 1}, a4 \in {0, 1},
             a5 \in {0, 1}, a6 \in {0, 1}, a7 \in {0, 1}, a8 \in {0, 1} :
          /\ z[1] = a1 /\ z[2] = a2 /\ z[3] = a3 /\ z[4] = a4
          /\ z[5] = a5 /\ z[6] = a6 /\ z[7] = a7 /\ z[8] = a8
    BY <1>2 DEF Bits
  <2> HIDE DEF z
  <2>3. Codec!Mixed(x, y) = a1 * 1 + a2 * 2 + a3 * 4 + a4 * 8 + a5 * 16 + a6 * 32 + a7 * 64 + a8 * 128
    BY <2>1, <2>2 DEF Codec!Mixed
  <2>4. Cipher!BitToByte(z) = a1 + 2 * a2 + 4 * a3 + 8 * a4 + 16 * a5 + 32 * a6 + 64 * a7 + 128 * a8
    BY <2>2 DEF Cipher!BitToByte
  <2> QED
    BY <2>3, <2>4
<1>4. Cipher!BitToByte(z) \in 0..255 /\ Cipher!ByteToBit(Cipher!BitToByte(z)) = z
  BY <1>2, ByteOfBits
<1>5. \A k \in 1..8 : Bit(Codec!Mixed(x, y), k) = z[k]
  BY <1>3, <1>4 DEF Bit
<1>6. \A k \in 1..8 : z[k] = IF k % 2 = 1 THEN Bit(x, k) ELSE Bit(y, k)
  OBVIOUS
<1> QED
  BY <1>3, <1>4, <1>5, <1>6 DEF Octet

LEMMA MixedTwice ==
  \A x \in Octet, y \in Octet : Codec!Mixed(Codec!Mixed(x, y), Codec!Mixed(y, x)) = x
<1> SUFFICES ASSUME NEW x \in Octet, NEW y \in Octet
             PROVE  Codec!Mixed(Codec!Mixed(x, y), Codec!Mixed(y, x)) = x
  OBVIOUS
<1>1. PICK u \in Octet, v \in Octet : u = Codec!Mixed(x, y) /\ v = Codec!Mixed(y, x)
  BY MixedIs
<1>2. \A k \in 1..8 : Bit(u, k) = IF k % 2 = 1 THEN Bit(x, k) ELSE Bit(y, k)
  BY <1>1, MixedIs
<1>3. \A k \in 1..8 : Bit(v, k) = IF k % 2 = 1 THEN Bit(y, k) ELSE Bit(x, k)
  BY <1>1, MixedIs
<1>4. PICK w \in Octet : w = Codec!Mixed(u, v) /\ \A k \in 1..8 : Bit(w, k) = IF k % 2 = 1 THEN Bit(u, k) ELSE Bit(v, k)
  BY MixedIs
<1>5. \A k \in 1..8 : Bit(w, k) = Bit(x, k)
  BY <1>2, <1>3, <1>4
<1>6. /\ Cipher!ByteToBit(w) \in [1..8 -> {0, 1}] /\ Cipher!BitToByte(Cipher!ByteToBit(w)) = w
      /\ Cipher!ByteToBit(x) \in [1..8 -> {0, 1}] /\ Cipher!BitToByte(Cipher!ByteToBit(x)) = x
  BY BitsOfByte DEF Bits, Octet
<1>7. Cipher!ByteToBit(w) = Cipher!ByteToBit(x)
  BY <1>5, <1>6 DEF Bit
<1> QED
  BY <1>1, <1>4, <1>6, <1>7

LEMMA KeyByteType ==
  \A key \in Seq(Octet), i \in Nat : Len(key) >= 8 /\ i >= 1 => Codec!KeyByte(key, i) \in Octet
<1> SUFFICES ASSUME NEW key \in Seq(Octet), NEW i \in Nat, Len(key) >= 8, i >= 1
             PROVE  Codec!KeyByte(key, i) \in Octet
  OBVIOUS
<1>1. PICK n \in Nat : n = Len(key) /\ n > 0
  BY LenProperties
<1>2. PICK m \in Nat : m = i - 1
  OBVIOUS
<1>3. m % n \in 0..(n - 1)
  BY <1>1
<1>4. (m % n) + 1 \in 1..n
  BY <1>1, <1>3
<1>5. key[(m % n) + 1] \in Octet
  BY <1>1, <1>4, ElementOfSeq
<1> QED
  BY <1>1, <1>2, <1>5 DEF Codec!KeyByte

LEMMA BlendIs ==
  \A ori \in Seq(Octet), key \in Seq(Octet) : Len(key) >= 8 =>
    /\ Codec!Blend(ori, key) \in Seq(Octet) /\ Len(Codec!Blend(ori, key)) = 2 * Len(ori)
    /\ \A i \in 1..Len(ori) :
         /\ Codec!Blend(ori, key)[2 * i - 1] = Codec!Mixed(Codec!KeyByte(key, i), ori[i])
         /\ Codec!Blend(ori, key)[2 * i] = Codec!Mixed(ori[i], Codec!KeyByte(key, i))
<1> SUFFICES ASSUME NEW ori \in Seq(Octet), NEW key \in Seq(Octet), Len(key) >= 8
             PROVE  /\ Codec!Blend(ori, key) \in Seq(Octet) /\ Len(Codec!Blend(ori, key)) = 2 * Len(ori)
                    /\ \A i \in 1..Len(ori) :
                         /\ Codec!Blend(ori, key)[2 * i - 1] = Codec!Mixed(Codec!KeyByte(key, i), ori[i])
                         /\ Codec!Blend(ori, key)[2 * i] = Codec!Mixed(ori[i], Codec!KeyByte(key, i))
  OBVIOUS
<1>1. PICK L \in Nat : L = Len(ori)
  BY LenProperties
<1>2. \A i \in 1..L : ori[i] \in Octet /\ Codec!KeyByte(key, i) \in Octet
  <2>1. \A i \in 1..L : i \in Nat /\ i >= 1
    OBVIOUS
  <2> QED
    BY <1>1, <2>1, ElementOfSeq, KeyByteType
<1> DEFINE At(n, i) == IF n % 2 = 1 THEN Codec!Mixed(Codec!KeyByte(key, i), ori[i])
                       ELSE Codec!Mixed(ori[i], Codec!KeyByte(key, i))
           b == Codec!Blend(ori, key)
<1>3. \A i \in 1..L : \A n : At(n, i) \in Octet
  BY <1>2, MixedIs
<1>4. b = [n \in 1..2 * L |-> At(n, (n + 1) \div 2)]
  BY <1>1 DEF Codec!Blend
<1> HIDE DEF At, b
<1>5. \A n \in 1..2 * L : (n + 1) \div 2 \in 1..L
  OBVIOUS
<1>6. b \in [1..2 * L -> Octet]
  BY <1>3, <1>4, <1>5
<1>7. b \in Seq(Octet) /\ Len(b) = 2 * L
  <2>1. 2 * L \in Nat
    OBVIOUS
  <2> QED
    BY <1>6, <2>1, SeqOf
<1>8. ASSUME NEW i \in 1..L
      PROVE  b[2 * i - 1] = Codec!Mixed(Codec!KeyByte(key, i), ori[i]) /\ b[2 * i] = Codec!Mixed(ori[i], Codec!KeyByte(key, i))
  <2>1. /\ 2 * i - 1 \in 1..2 * L /\ 2 * i \in 1..2 * L
        /\ ((2 * i - 1) + 1) \div 2 = i /\ (2 * i + 1) \div 2 = i
        /\ (2 * i - 1) % 2 = 1 /\ (2 * i) % 2 = 0
    OBVIOUS
  <2>2. b[2 * i - 1] = At(2 * i - 1, i) /\ b[2 * i] = At(2 * i, i)
    BY <1>4, <2>1
  <2> QED
    BY <2>1, <2>2 DEF At
<1> QED
  BY <1>1, <1>7, <1>8 DEF b

(* A page of three bytes is decoded to them, up to the bytes that tildes in the
   places of its last codes leave out. *)
Shown(c, b, s) == Len(c) = 4 /\ \A j \in 1..4 : c[j] = IF j > 4 - s THEN Codec!Tilde ELSE Codec!EncodePage(b)[j]
PageHolds(d, b, s) == d \in Seq(Int) /\ Len(d) = 3 /\ \A j \in 1..3 : j <= 3 - s => d[j] = b[j]

LEMMA PageReads ==
  \A c : \A b \in Seq(Octet), s \in 0..2 : Len(b) = 3 /\ Shown(c, b, s) => PageHolds(Codec!DecodePage(c), b, s)
<1> SUFFICES ASSUME NEW b \in Seq(Octet), NEW c, NEW s \in 0..2, Len(b) = 3, Shown(c, b, s)
             PROVE  PageHolds(Codec!DecodePage(c), b, s)
  OBVIOUS
<1>1. PICK b1 \in 0..255, b2 \in 0..255, b3 \in 0..255 : b1 = b[1] /\ b2 = b[2] /\ b3 = b[3]
  <2>1. 1 \in 1..Len(b) /\ 2 \in 1..Len(b) /\ 3 \in 1..Len(b)
    OBVIOUS
  <2>2. b[1] \in Octet /\ b[2] \in Octet /\ b[3] \in Octet
    BY <2>1, ElementOfSeq
  <2> QED
    BY <2>2 DEF Octet
<1>2. PICK e1 \in 0..63, e2 \in 0..63, e3 \in 0..63, e4 \in 0..63 :
        /\ e1 = b1 \div 4 /\ e2 = (b1 % 4) * 16 + b2 \div 16
        /\ e3 = (b2 % 16) * 4 + b3 \div 64 /\ e4 = b3 % 64
  <2>1. b1 \div 4 \in 0..63
    OBVIOUS
  <2>2. (b1 % 4) * 16 + b2 \div 16 \in 0..63
    OBVIOUS
  <2>3. (b2 % 16) * 4 + b3 \div 64 \in 0..63
    OBVIOUS
  <2>4. b3 % 64 \in 0..63
    OBVIOUS
  <2> QED
    BY <2>1, <2>2, <2>3, <2>4
<1>3. PICK t1, t2, t3, t4 :
        /\ t1 = Codec!ENCODE_TABLE[e1 + 1] /\ t2 = Codec!ENCODE_TABLE[e2 + 1]
        /\ t3 = Codec!ENCODE_TABLE[e3 + 1] /\ t4 = Codec!ENCODE_TABLE[e4 + 1]
  OBVIOUS
<1>4. /\ t1 # Codec!Tilde /\ Codec!Decoded(t1) = e1 /\ t2 # Codec!Tilde /\ Codec!Decoded(t2) = e2
      /\ t3 # Codec!Tilde /\ Codec!Decoded(t3) = e3 /\ t4 # Codec!Tilde /\ Codec!Decoded(t4) = e4
  BY <1>3, AlphabetInverts
<1>5. /\ Codec!EncodePage(b)[1] = t1 /\ Codec!EncodePage(b)[2] = t2
      /\ Codec!EncodePage(b)[3] = t3 /\ Codec!EncodePage(b)[4] = t4
  <2> DEFINE page == <<b1 \div 4, (b1 % 4) * 16 + b2 \div 16, (b2 % 16) * 4 + b3 \div 64, b3 % 64>>
  <2>1. Codec!EncodePage(b) = [j \in 1..4 |-> Codec!ENCODE_TABLE[page[j] + 1]]
    BY <1>1 DEF Codec!EncodePage
  <2>2. page[1] = e1 /\ page[2] = e2 /\ page[3] = e3 /\ page[4] = e4
    BY <1>2
  <2> HIDE DEF page
  <2>3. \A j \in 1..4 : Codec!EncodePage(b)[j] = Codec!ENCODE_TABLE[page[j] + 1]
    BY <2>1
  <2>4. Codec!EncodePage(b)[1] = t1
    BY <1>3, <2>2, <2>3
  <2>5. Codec!EncodePage(b)[2] = t2
    BY <1>3, <2>2, <2>3
  <2>6. Codec!EncodePage(b)[3] = t3
    BY <1>3, <2>2, <2>3
  <2>7. Codec!EncodePage(b)[4] = t4
    BY <1>3, <2>2, <2>3
  <2> QED
    BY <2>4, <2>5, <2>6, <2>7
<1>6. c[1] = t1 /\ c[2] = t2 /\ c[3] = (IF s = 2 THEN Codec!Tilde ELSE t3) /\ c[4] = (IF s = 0 THEN t4 ELSE Codec!Tilde)
  <2>1. \A j \in 1..4 : c[j] = IF j > 4 - s THEN Codec!Tilde ELSE Codec!EncodePage(b)[j]
    BY DEF Shown
  <2>2. ~(1 > 4 - s) /\ ~(2 > 4 - s) /\ (3 > 4 - s <=> s = 2) /\ (4 > 4 - s <=> s # 0)
    OBVIOUS
  <2>3. c[1] = t1 /\ c[2] = t2
    BY <1>5, <2>1, <2>2
  <2>4. c[3] = IF s = 2 THEN Codec!Tilde ELSE t3
    BY <1>5, <2>1, <2>2
  <2>5. c[4] = IF s = 0 THEN t4 ELSE Codec!Tilde
    BY <1>5, <2>1, <2>2
  <2> QED
    BY <2>3, <2>4, <2>5
<1> DEFINE v == [j \in 1..4 |-> IF c[j] = Codec!Tilde THEN Codec!Tilde
                                ELSE IF Codec!Decoded(c[j]) = -1 THEN 255 ELSE Codec!Decoded(c[j])]
           first == ((v[1] * 4) % 256) + (v[2] % 64) \div 16
           second == (v[2] % 16) * 16 + (IF c[3] = Codec!Tilde THEN 0 ELSE (v[3] % 64) \div 4)
           third == IF c[3] = Codec!Tilde THEN Codec!Or(Stale(c), IF c[4] = Codec!Tilde THEN 0 ELSE v[4])
                    ELSE (v[3] * 64) % 256
           end == IF Codec!Tilde \in {c[3], c[4]} THEN third ELSE IF v[4] = 255 THEN 255 ELSE third + v[4]
<1>7. Codec!DecodePage(c) = <<first, second, end>>
  BY DEF Codec!DecodePage
<1>8. v[1] = e1 /\ v[2] = e2 /\ (s # 2 => v[3] = e3) /\ (s = 0 => v[4] = e4)
  <2>0. \A e \in 0..63 : e # -1
    OBVIOUS
  <2>1. /\ v[1] = IF c[1] = Codec!Tilde THEN Codec!Tilde ELSE IF Codec!Decoded(c[1]) = -1 THEN 255 ELSE Codec!Decoded(c[1])
        /\ v[2] = IF c[2] = Codec!Tilde THEN Codec!Tilde ELSE IF Codec!Decoded(c[2]) = -1 THEN 255 ELSE Codec!Decoded(c[2])
        /\ v[3] = IF c[3] = Codec!Tilde THEN Codec!Tilde ELSE IF Codec!Decoded(c[3]) = -1 THEN 255 ELSE Codec!Decoded(c[3])
        /\ v[4] = IF c[4] = Codec!Tilde THEN Codec!Tilde ELSE IF Codec!Decoded(c[4]) = -1 THEN 255 ELSE Codec!Decoded(c[4])
    OBVIOUS
  <2> HIDE DEF v
  <2>2. e1 # -1 /\ e2 # -1 /\ e3 # -1 /\ e4 # -1
    BY <2>0
  <2>3. v[1] = e1
    <3>1. c[1] # Codec!Tilde /\ Codec!Decoded(c[1]) = e1
      BY <1>4, <1>6
    <3> QED
      BY <2>1, <2>2, <3>1
  <2>4. v[2] = e2
    <3>1. c[2] # Codec!Tilde /\ Codec!Decoded(c[2]) = e2
      BY <1>4, <1>6
    <3> QED
      BY <2>1, <2>2, <3>1
  <2>5. s # 2 => v[3] = e3
    <3>1. s # 2 => c[3] # Codec!Tilde /\ Codec!Decoded(c[3]) = e3
      BY <1>4, <1>6
    <3> QED
      BY <2>1, <2>2, <3>1
  <2>6. s = 0 => v[4] = e4
    <3>1. s = 0 => c[4] # Codec!Tilde /\ Codec!Decoded(c[4]) = e4
      BY <1>4, <1>6
    <3> QED
      BY <2>1, <2>2, <3>1
  <2> QED
    BY <2>3, <2>4, <2>5, <2>6
<1> HIDE DEF v
<1>9. first = b1
  <2>1. first = ((e1 * 4) % 256) + (e2 % 64) \div 16
    BY <1>8
  <2> HIDE DEF first
  <2> QED
    BY <1>2, <2>1
<1>10. second \in Int /\ (s # 2 => second = b2)
  <2>1. CASE s = 2
    <3>1. second = (e2 % 16) * 16 + 0
      BY <1>6, <1>8, <2>1
    <3> HIDE DEF second
    <3> QED
      BY <2>1, <3>1
  <2>2. CASE s # 2
    <3>1. second = (e2 % 16) * 16 + (e3 % 64) \div 4
      BY <1>4, <1>6, <1>8, <2>2
    <3> HIDE DEF second
    <3>2. second = b2
      <4>1. e2 % 16 = b2 \div 16
        BY <1>2
      <4>2. (e3 % 64) \div 4 = b2 % 16
        <5>1. PICK q \in 0..15, r \in 0..3 : q = b2 % 16 /\ e3 = q * 4 + r
          <6>1. b2 % 16 \in 0..15 /\ b3 \div 64 \in 0..3
            OBVIOUS
          <6> QED
            BY <1>2, <6>1
        <5>2. e3 % 64 = e3
          BY <1>2
        <5>3. e3 \div 4 = q
          BY <5>1
        <5> QED
          BY <5>1, <5>2, <5>3
      <4> QED
        BY <3>1, <4>1, <4>2
    <3> QED
      BY <3>2
  <2> QED
    BY <2>1, <2>2
<1>11. end \in Int /\ (s = 0 => end = b3)
  <2>1. CASE s = 2
    <3>1. end = Codec!Or(Stale(c), 0)
      BY <1>6, <2>1
    <3>2. \A x : Codec!Or(x, 0) \in Int
      BY DEF Codec!Or
    <3> HIDE DEF end
    <3> QED
      BY <2>1, <3>1, <3>2
  <2>2. CASE s = 1
    <3>1. end = (e3 * 64) % 256
      BY <1>4, <1>6, <1>8, <2>2
    <3> HIDE DEF end
    <3> QED
      BY <2>2, <3>1
  <2>3. CASE s = 0
    <3>1. e4 # 255
      OBVIOUS
    <3>2. c[3] # Codec!Tilde /\ c[4] # Codec!Tilde
      BY <1>4, <1>6, <2>3
    <3>3. end = ((e3 * 64) % 256) + e4
      <4>1. v[3] = e3 /\ v[4] = e4 /\ v[4] # 255
        BY <1>8, <2>3, <3>1
      <4> QED
        BY <3>2, <4>1
    <3> HIDE DEF end
    <3>4. end = b3
      <4>1. PICK q \in 0..15, r \in 0..3 : q = b2 % 16 /\ r = b3 \div 64 /\ e3 = q * 4 + r
        <5>1. b2 % 16 \in 0..15 /\ b3 \div 64 \in 0..3
          OBVIOUS
        <5> QED
          BY <1>2, <5>1
      <4>2. (e3 * 64) % 256 = r * 64
        BY <4>1
      <4>3. r * 64 + e4 = b3
        BY <1>2, <4>1
      <4> QED
        BY <3>3, <4>2, <4>3
    <3> QED
      BY <3>4
  <2> QED
    BY <2>1, <2>2, <2>3
<1> HIDE DEF first, second, end
<1>12. <<first, second, end>> \in Seq(Int) /\ Len(<<first, second, end>>) = 3
  BY <1>9, <1>10, <1>11
<1>13. \A j \in 1..3 : j <= 3 - s => <<first, second, end>>[j] = b[j]
  <2> SUFFICES ASSUME NEW j \in 1..3, j <= 3 - s PROVE <<first, second, end>>[j] = b[j]
    OBVIOUS
  <2>1. CASE j = 1
    BY <1>1, <1>9, <2>1
  <2>2. CASE j = 2
    <3>1. s # 2
      BY <2>2
    <3> QED
      BY <1>1, <1>10, <2>2, <3>1
  <2>3. CASE j = 3
    <3>1. s = 0
      BY <2>3
    <3> QED
      BY <1>1, <1>11, <2>3, <3>1
  <2> QED
    BY <2>1, <2>2, <2>3
<1> QED
  BY <1>7, <1>12, <1>13 DEF PageHolds

(* What encrypt writes: the pages of the blend, of which the last s codes are
   tildes because s zeros were added to it. *)
Padded(x, ori, key, M, s) ==
  /\ x = Codec!Blend(ori, key) \o [k \in 1..s |-> 0]
  /\ x \in Seq(Octet) /\ Len(x) = 3 * M /\ M > 0 /\ 2 * Len(ori) + s = 3 * M
  /\ \A n \in 1..2 * Len(ori) : x[n] = Codec!Blend(ori, key)[n]

Thirds(p, x, M) ==
  /\ p \in [1..M -> Seq(Octet)]
  /\ \A k \in 1..M : Len(p[k]) = 3 /\ \A j \in 1..3 : p[k][j] = x[3 * (k - 1) + j]

Written(crypt, p, M, s) ==
  /\ crypt \in Seq(Int) /\ Len(crypt) = 4 * M
  /\ \A k \in 1..M : \A j \in 1..4 :
       crypt[4 * (k - 1) + j] = IF 4 * (k - 1) + j > 4 * M - s THEN Codec!Tilde ELSE Codec!EncodePage(p[k])[j]

LEMMA BlendPadded ==
  \A ori \in Seq(Octet), key \in Seq(Octet) : Len(key) >= 8 /\ Len(ori) > 0 =>
    \E M \in Nat, s \in 0..2 :
      /\ s = IF (2 * Len(ori)) % 3 = 0 THEN 0 ELSE 3 - ((2 * Len(ori)) % 3)
      /\ Padded(Codec!Blend(ori, key) \o [k \in 1..s |-> 0], ori, key, M, s)
<1> SUFFICES ASSUME NEW ori \in Seq(Octet), NEW key \in Seq(Octet), Len(key) >= 8, Len(ori) > 0
             PROVE  \E M \in Nat, s \in 0..2 :
                      /\ s = IF (2 * Len(ori)) % 3 = 0 THEN 0 ELSE 3 - ((2 * Len(ori)) % 3)
                      /\ Padded(Codec!Blend(ori, key) \o [k \in 1..s |-> 0], ori, key, M, s)
  OBVIOUS
<1>1. PICK L \in Nat : L = Len(ori) /\ L > 0
  BY LenProperties
<1>2. PICK s \in 0..2 : s = IF (2 * L) % 3 = 0 THEN 0 ELSE 3 - ((2 * L) % 3)
  <2>1. (2 * L) % 3 \in 0..2
    OBVIOUS
  <2> QED
    BY <2>1
<1>3. PICK M \in Nat : 2 * L + s = 3 * M /\ M > 0
  <2>1. PICK q \in Nat, r \in 0..2 : 2 * L = 3 * q + r /\ r = (2 * L) % 3
    <3>1. /\ (2 * L) \div 3 \in Nat /\ (2 * L) % 3 \in 0..2
          /\ 2 * L = 3 * ((2 * L) \div 3) + ((2 * L) % 3)
      OBVIOUS
    <3> QED
      BY <3>1
  <2>2. CASE r = 0
    <3>0. s = 0 /\ 2 * L = 3 * q
      BY <1>2, <2>1, <2>2
    <3>1. 2 * L + s = 3 * q /\ q > 0
      BY <1>1, <3>0
    <3> QED
      BY <3>1
  <2>3. CASE r # 0
    <3>1. 2 * L + s = 3 * (q + 1) /\ q + 1 > 0 /\ q + 1 \in Nat
      BY <1>2, <2>1, <2>3
    <3> QED
      BY <3>1
  <2> QED
    BY <2>2, <2>3
<1> DEFINE b == Codec!Blend(ori, key)
           z == [k \in 1..s |-> 0]
<1>4. b \in Seq(Octet) /\ Len(b) = 2 * L
  BY <1>1, BlendIs
<1>5. z \in Seq(Octet) /\ Len(z) = s
  <2>1. s \in Nat /\ 0 \in Octet
    BY DEF Octet
  <2>2. z \in [1..s -> Octet]
    BY <2>1
  <2> QED
    BY <2>1, <2>2, SeqOf
<1>6. Padded(b \o z, ori, key, M, s)
  <2>0. b \o z = Codec!Blend(ori, key) \o [k \in 1..s |-> 0]
    OBVIOUS
  <2> HIDE DEF b, z
  <2>1. b \o z \in Seq(Octet) /\ Len(b \o z) = 3 * M
    <3>1. b \o z \in Seq(Octet) /\ Len(b \o z) = Len(b) + Len(z)
      BY <1>4, <1>5, ConcatProperties
    <3> QED
      BY <1>3, <1>4, <1>5, <3>1
  <2>2. \A n \in 1..2 * L : (b \o z)[n] = b[n]
    <3>1. \A n \in 1 .. Len(b) + Len(z) : (b \o z)[n] = IF n <= Len(b) THEN b[n] ELSE z[n - Len(b)]
      BY <1>4, <1>5, ConcatProperties
    <3>2. \A n \in 1..2 * L : n \in 1 .. 2 * L + s /\ n <= 2 * L
      OBVIOUS
    <3> QED
      BY <1>4, <1>5, <3>1, <3>2
  <2>3. \A n \in 1..2 * L : (b \o z)[n] = Codec!Blend(ori, key)[n]
    BY <2>2 DEF b
  <2> QED
    BY <1>1, <1>3, <2>0, <2>1, <2>3 DEF Padded
<1>7. s = IF (2 * Len(ori)) % 3 = 0 THEN 0 ELSE 3 - ((2 * Len(ori)) % 3)
  BY <1>1, <1>2
<1> QED
  BY <1>6, <1>7

LEMMA ThirdsAre ==
  \A x \in Seq(Octet), M \in Nat : Len(x) = 3 * M => Thirds(Codec!Pieces(x, 3), x, M)
<1> SUFFICES ASSUME NEW x \in Seq(Octet), NEW M \in Nat, Len(x) = 3 * M
             PROVE  Thirds(Codec!Pieces(x, 3), x, M)
  OBVIOUS
<1>1. Len(x) <= 3 * M /\ \A k \in 1..M : 3 * (k - 1) < Len(x)
  OBVIOUS
<1>2. CutInto(x, 3, Codec!Pieces(x, 3), M, Octet)
  BY <1>1, PiecesAre
<1>3. \A k \in 1..M : Reach(3 * M, 3, k) - 3 * (k - 1) = 3
  BY DEF Reach
<1>4. PICK p : p = Codec!Pieces(x, 3)
  OBVIOUS
<1>5. /\ p \in [1..M -> Seq(Octet)]
      /\ \A k \in 1..M : /\ Len(p[k]) = Reach(Len(x), 3, k) - 3 * (k - 1)
                         /\ \A j \in 1..Len(p[k]) : p[k][j] = x[3 * (k - 1) + j]
  BY <1>2, <1>4 DEF CutInto
<1>6. \A k \in 1..M : Len(p[k]) = 3
  BY <1>3, <1>5
<1>7. \A k \in 1..M : \A j \in 1..3 : p[k][j] = x[3 * (k - 1) + j]
  BY <1>5, <1>6
<1> QED
  BY <1>4, <1>5, <1>6, <1>7 DEF Thirds

LEMMA PageIs ==
  \A b \in Seq(Octet) : Len(b) = 3 =>
    /\ Codec!EncodePage(b) \in Seq(Int) /\ Len(Codec!EncodePage(b)) = 4
    /\ \A j \in 1..4 : Codec!EncodePage(b)[j] # Codec!Tilde
<1> SUFFICES ASSUME NEW b \in Seq(Octet), Len(b) = 3
             PROVE  /\ Codec!EncodePage(b) \in Seq(Int) /\ Len(Codec!EncodePage(b)) = 4
                    /\ \A j \in 1..4 : Codec!EncodePage(b)[j] # Codec!Tilde
  OBVIOUS
<1>1. PICK b1 \in 0..255, b2 \in 0..255, b3 \in 0..255 : b1 = b[1] /\ b2 = b[2] /\ b3 = b[3]
  <2>1. 1 \in 1..Len(b) /\ 2 \in 1..Len(b) /\ 3 \in 1..Len(b)
    OBVIOUS
  <2>2. b[1] \in Octet /\ b[2] \in Octet /\ b[3] \in Octet
    BY <2>1, ElementOfSeq
  <2> QED
    BY <2>2 DEF Octet
<1> DEFINE page == <<b1 \div 4, (b1 % 4) * 16 + b2 \div 16, (b2 % 16) * 4 + b3 \div 64, b3 % 64>>
           coded == [j \in 1..4 |-> Codec!ENCODE_TABLE[page[j] + 1]]
<1>2. Codec!EncodePage(b) = coded
  BY <1>1 DEF Codec!EncodePage
<1>3. \A j \in 1..4 : page[j] \in 0..63
  <2>1. b1 \div 4 \in 0..63
    OBVIOUS
  <2>2. (b1 % 4) * 16 + b2 \div 16 \in 0..63
    OBVIOUS
  <2>3. (b2 % 16) * 4 + b3 \div 64 \in 0..63
    OBVIOUS
  <2>4. b3 % 64 \in 0..63
    OBVIOUS
  <2>5. page[1] \in 0..63 /\ page[2] \in 0..63 /\ page[3] \in 0..63 /\ page[4] \in 0..63
    BY <2>1, <2>2, <2>3, <2>4
  <2> HIDE DEF page
  <2>6. \A j \in 1..4 : j = 1 \/ j = 2 \/ j = 3 \/ j = 4
    OBVIOUS
  <2> QED
    BY <2>5, <2>6
<1> HIDE DEF page
<1>5. coded \in [1..4 -> Int] /\ \A j \in 1..4 : coded[j] # Codec!Tilde
  BY <1>3, AlphabetInverts
<1> HIDE DEF coded
<1>6. coded \in Seq(Int) /\ Len(coded) = 4
  <2>0. PICK n \in Nat : n = 4
    OBVIOUS
  <2>1. PICK S : n = 4 /\ S = Int
    BY <2>0
  <2>2. coded \in [1..n -> S]
    BY <1>5, <2>1
  <2>3. coded \in Seq(S) /\ Len(coded) = n
    BY <2>2, SeqOf
  <2> QED
    BY <2>1, <2>3
<1> QED
  BY <1>2, <1>5, <1>6

LEMMA WrittenIs ==
  \A ori \in Seq(Octet), key \in Seq(Octet) : Len(key) >= 8 /\ Len(ori) > 0 =>
    \E M \in Nat, s \in 0..2 : \E x, p :
      Padded(x, ori, key, M, s) /\ Thirds(p, x, M) /\ Written(Codec!encrypt(ori, key), p, M, s)
<1> SUFFICES ASSUME NEW ori \in Seq(Octet), NEW key \in Seq(Octet), Len(key) >= 8, Len(ori) > 0
             PROVE  \E M \in Nat, s \in 0..2 : \E x, p :
                      /\ Padded(x, ori, key, M, s) /\ Thirds(p, x, M)
                      /\ Written(Codec!encrypt(ori, key), p, M, s)
  OBVIOUS
<1> DEFINE blend == Codec!Blend(ori, key)
           symbol_add == IF Len(blend) % 3 = 0 THEN 0 ELSE 3 - (Len(blend) % 3)
           x == blend \o [k \in 1..symbol_add |-> 0]
           p == Codec!Pieces(x, 3)
           e == [k \in DOMAIN p |-> Codec!EncodePage(p[k])]
           text == Codec!FlattenSeq(e)
           crypt == [k \in 1..Len(text) |-> IF k > Len(text) - symbol_add THEN Codec!Tilde ELSE text[k]]
<1>1. Codec!encrypt(ori, key) = crypt
  <2>1. ori # <<>> /\ ~(Len(key) < 8)
    BY LenProperties
  <2> QED
    BY <2>1 DEF Codec!encrypt, Codec!MapEach
<1>2. PICK M \in Nat, s \in 0..2 : s = symbol_add /\ Padded(x, ori, key, M, s)
  <2>1. PICK M \in Nat, s \in 0..2 :
          /\ s = IF (2 * Len(ori)) % 3 = 0 THEN 0 ELSE 3 - ((2 * Len(ori)) % 3)
          /\ Padded(Codec!Blend(ori, key) \o [k \in 1..s |-> 0], ori, key, M, s)
    BY BlendPadded
  <2>2. Len(blend) = 2 * Len(ori)
    BY BlendIs
  <2> HIDE DEF blend
  <2>3. s = symbol_add
    BY <2>1, <2>2
  <2> HIDE DEF symbol_add
  <2>4. x = Codec!Blend(ori, key) \o [k \in 1..s |-> 0]
    BY <2>3 DEF blend
  <2> QED
    BY <2>1, <2>3, <2>4
<1> HIDE DEF blend, symbol_add
<1>3. x \in Seq(Octet) /\ Len(x) = 3 * M
  BY <1>2 DEF Padded
<1> HIDE DEF x
<1>4. Thirds(p, x, M)
  BY <1>3, ThirdsAre
<1>5. /\ DOMAIN p = 1..M /\ \A k \in 1..M : p[k] \in Seq(Octet) /\ Len(p[k]) = 3
  BY <1>4 DEF Thirds
<1> HIDE DEF p
<1>6. /\ e \in [1..M -> Seq(Int)] /\ \A k \in 1..M : Len(e[k]) = 4 /\ e[k] = Codec!EncodePage(p[k])
  BY <1>5, PageIs
<1> HIDE DEF e
<1>7. /\ text \in Seq(Int) /\ Len(text) = 4 * M
      /\ \A k \in 1..M : \A j \in 1..4 : text[4 * (k - 1) + j] = e[k][j]
  <2>1. PICK w \in Nat : w = 4
    OBVIOUS
  <2>2. \A k \in 1..M : Len(e[k]) = w
    BY <1>6, <2>1
  <2>3. IsJoined(Flat(e), e, M, w, Int)
    BY <1>6, <2>2, Joined
  <2>4. text = Flat(e)
    BY DEF Codec!FlattenSeq, Flat
  <2> QED
    BY <2>1, <2>3, <2>4 DEF IsJoined
<1> HIDE DEF text
<1>8. PICK N \in Nat : N = 4 * M
  OBVIOUS
<1>9. \A k \in 1..N : text[k] \in Int
  BY <1>7, <1>8, ElementOfSeq
<1>10. crypt \in [1..N -> Int] /\ \A k \in 1..N : crypt[k] = IF k > 4 * M - s THEN Codec!Tilde ELSE text[k]
  BY <1>2, <1>7, <1>8, <1>9 DEF Codec!Tilde
<1> HIDE DEF crypt
<1>11. crypt \in Seq(Int) /\ Len(crypt) = 4 * M
  <2>1. crypt \in Seq(Int) /\ Len(crypt) = N
    BY <1>10, SeqOf
  <2> QED
    BY <1>8, <2>1
<1>12. ASSUME NEW k \in 1..M, NEW j \in 1..4
       PROVE  crypt[4 * (k - 1) + j] = IF 4 * (k - 1) + j > 4 * M - s THEN Codec!Tilde ELSE Codec!EncodePage(p[k])[j]
  <2>1. 4 * (k - 1) + j \in 1..N
    BY <1>8
  <2>2. text[4 * (k - 1) + j] = Codec!EncodePage(p[k])[j]
    BY <1>6, <1>7
  <2> QED
    BY <1>10, <2>1, <2>2
<1>13. Written(crypt, p, M, s)
  BY <1>11, <1>12 DEF Written
<1> QED
  BY <1>1, <1>2, <1>4, <1>13

\* What decrypt cuts and counts.
LEMMA PiecesShown ==
  \A M \in Nat, s \in 0..2 : \A x, p, crypt :
    Thirds(p, x, M) /\ Written(crypt, p, M, s) /\ M > 0 =>
      /\ DOMAIN Codec!Pieces(crypt, 4) = 1..M
      /\ \A k \in 1..M : Shown(Codec!Pieces(crypt, 4)[k], p[k], IF k = M THEN s ELSE 0)
<1> SUFFICES ASSUME NEW M \in Nat, NEW s \in 0..2, NEW x, NEW p, NEW crypt,
                    Thirds(p, x, M), Written(crypt, p, M, s), M > 0
             PROVE  /\ DOMAIN Codec!Pieces(crypt, 4) = 1..M
                    /\ \A k \in 1..M : Shown(Codec!Pieces(crypt, 4)[k], p[k], IF k = M THEN s ELSE 0)
  OBVIOUS
<1>1. crypt \in Seq(Int) /\ Len(crypt) = 4 * M
  BY DEF Written
<1>2. CutInto(crypt, 4, Codec!Pieces(crypt, 4), M, Int)
  <2>1. Len(crypt) <= 4 * M /\ \A k \in 1..M : 4 * (k - 1) < Len(crypt)
    BY <1>1
  <2> QED
    BY <1>1, <2>1, PiecesAre
<1>3. PICK c : c = Codec!Pieces(crypt, 4)
  OBVIOUS
<1>4. /\ DOMAIN c = 1..M
      /\ \A k \in 1..M : /\ Len(c[k]) = Reach(4 * M, 4, k) - 4 * (k - 1)
                         /\ \A j \in 1..Len(c[k]) : c[k][j] = crypt[4 * (k - 1) + j]
  BY <1>1, <1>2, <1>3 DEF CutInto
<1>5. \A k \in 1..M : Reach(4 * M, 4, k) - 4 * (k - 1) = 4
  BY DEF Reach
<1>6. ASSUME NEW k \in 1..M PROVE Shown(c[k], p[k], IF k = M THEN s ELSE 0)
  <2>1. Len(c[k]) = 4
    BY <1>4, <1>5
  <2>2. \A j \in 1..4 : c[k][j] = crypt[4 * (k - 1) + j]
    BY <1>4, <2>1
  <2>3. \A j \in 1..4 : crypt[4 * (k - 1) + j] = IF 4 * (k - 1) + j > 4 * M - s THEN Codec!Tilde ELSE Codec!EncodePage(p[k])[j]
    BY DEF Written
  <2>4. PICK t : t = IF k = M THEN s ELSE 0
    OBVIOUS
  <2>5. \A j \in 1..4 : 4 * (k - 1) + j > 4 * M - s <=> j > 4 - t
    BY <2>4
  <2>6. \A j \in 1..4 : c[k][j] = IF j > 4 - t THEN Codec!Tilde ELSE Codec!EncodePage(p[k])[j]
    BY <2>2, <2>3, <2>5
  <2>7. Shown(c[k], p[k], t)
    BY <2>1, <2>6 DEF Shown
  <2> QED
    BY <2>4, <2>7
<1> QED
  BY <1>3, <1>4, <1>6

LEMMA TildesCounted ==
  \A M \in Nat, s \in 0..2 : \A x, p, crypt :
    Thirds(p, x, M) /\ Written(crypt, p, M, s) /\ M > 0 =>
      Codec!Cardinality({k \in DOMAIN crypt : crypt[k] = Codec!Tilde /\ k % 4 \in {0, 3}}) = s
<1> SUFFICES ASSUME NEW M \in Nat, NEW s \in 0..2, NEW x, NEW p, NEW crypt,
                    Thirds(p, x, M), Written(crypt, p, M, s), M > 0
             PROVE  Codec!Cardinality({k \in DOMAIN crypt : crypt[k] = Codec!Tilde /\ k % 4 \in {0, 3}}) = s
  OBVIOUS
<1>1. DOMAIN crypt = 1..4 * M
  <2>1. PICK N \in Nat : N = 4 * M
    OBVIOUS
  <2>2. DOMAIN crypt = 1..N
    BY <2>1, LenProperties DEF Written
  <2> QED
    BY <2>1, <2>2
<1>2. ASSUME NEW n \in 1..4 * M
      PROVE  crypt[n] = Codec!Tilde /\ n % 4 \in {0, 3} <=> n \in (4 * M - s + 1)..4 * M
  <2>1. PICK k \in 1..M, j \in 1..4 : n = 4 * (k - 1) + j
    <3>1. PICK q \in Int, r \in 0..3 : n - 1 = 4 * q + r
      <4>1. /\ (n - 1) \div 4 \in Int /\ (n - 1) % 4 \in 0..3
            /\ n - 1 = 4 * ((n - 1) \div 4) + ((n - 1) % 4)
        OBVIOUS
      <4> QED
        BY <4>1
    <3>2. q + 1 \in 1..M /\ r + 1 \in 1..4 /\ n = 4 * ((q + 1) - 1) + (r + 1)
      BY <3>1
    <3> QED
      BY <3>2
  <2>2. Codec!EncodePage(p[k])[j] # Codec!Tilde
    BY PageIs DEF Thirds
  <2>3. crypt[n] = IF n > 4 * M - s THEN Codec!Tilde ELSE Codec!EncodePage(p[k])[j]
    BY <2>1 DEF Written
  <2>4. crypt[n] = Codec!Tilde <=> n > 4 * M - s
    BY <2>2, <2>3
  <2>5. n > 4 * M - s => n % 4 \in {0, 3}
    <3> SUFFICES ASSUME n > 4 * M - s PROVE n % 4 \in {0, 3}
      OBVIOUS
    <3>1. n = 4 * M \/ n = 4 * (M - 1) + 3
      OBVIOUS
    <3> QED
      BY <3>1
  <2> QED
    BY <2>4, <2>5
<1>3. {k \in DOMAIN crypt : crypt[k] = Codec!Tilde /\ k % 4 \in {0, 3}} = (4 * M - s + 1)..4 * M
  <2>1. \A n \in (4 * M - s + 1)..4 * M : n \in 1..4 * M
    OBVIOUS
  <2> QED
    BY <1>1, <1>2, <2>1
<1>4. Cardinality((4 * M - s + 1)..4 * M) = s
  <2>1. PICK a \in Int, b \in Int : a = 4 * M - s + 1 /\ b = 4 * M
    OBVIOUS
  <2>2. Cardinality(a..b) = IF a > b THEN 0 ELSE b - a + 1
    BY FS_Interval
  <2> QED
    BY <2>1, <2>2
<1>5. \A S : Codec!Cardinality(S) = Cardinality(S)
  BY DEF Codec!Cardinality, Cardinality
<1> QED
  BY <1>3, <1>4, <1>5

\* What decrypt reads: the blend, and what the tildes leave of the last page.
LEMMA PagesJoined ==
  \A M \in Nat, s \in 0..2 : \A x, p, crypt :
    Thirds(p, x, M) /\ Written(crypt, p, M, s) /\ M > 0 =>
      LET t == Codec!MapEach(Codec!DecodePage, Codec!Pieces(crypt, 4))
      IN \A n \in 1 .. 3 * M - s : t[n] = x[n]
<1> SUFFICES ASSUME NEW M \in Nat, NEW s \in 0..2, NEW x, NEW p, NEW crypt,
                    Thirds(p, x, M), Written(crypt, p, M, s), M > 0
             PROVE  \A n \in 1 .. 3 * M - s : Codec!MapEach(Codec!DecodePage, Codec!Pieces(crypt, 4))[n] = x[n]
  OBVIOUS
<1> DEFINE c == Codec!Pieces(crypt, 4)
           d == [k \in DOMAIN c |-> Codec!DecodePage(c[k])]
           t == Codec!FlattenSeq(d)
<1>1. Codec!MapEach(Codec!DecodePage, Codec!Pieces(crypt, 4)) = t
  BY DEF Codec!MapEach
<1>2. DOMAIN c = 1..M /\ \A k \in 1..M : Shown(c[k], p[k], IF k = M THEN s ELSE 0)
  BY PiecesShown
<1> HIDE DEF c
<1>3. ASSUME NEW k \in 1..M
      PROVE  PageHolds(Codec!DecodePage(c[k]), p[k], IF k = M THEN s ELSE 0)
  <2>1. PICK z \in 0..2 : z = IF k = M THEN s ELSE 0
    OBVIOUS
  <2>2. Shown(c[k], p[k], z)
    BY <1>2, <2>1
  <2>3. p[k] \in Seq(Octet) /\ Len(p[k]) = 3
    BY DEF Thirds
  <2>4. PageHolds(Codec!DecodePage(c[k]), p[k], z)
    BY <2>2, <2>3, PageReads
  <2> QED
    BY <2>1, <2>4
<1>4. /\ d \in [1..M -> Seq(Int)]
      /\ \A k \in 1..M : Len(d[k]) = 3 /\ \A j \in 1..3 : j <= 3 - (IF k = M THEN s ELSE 0) => d[k][j] = p[k][j]
  <2>1. \A k \in 1..M : /\ Codec!DecodePage(c[k]) \in Seq(Int) /\ Len(Codec!DecodePage(c[k])) = 3
                        /\ \A j \in 1..3 : j <= 3 - (IF k = M THEN s ELSE 0) => Codec!DecodePage(c[k])[j] = p[k][j]
    BY <1>3 DEF PageHolds
  <2>2. d = [k \in 1..M |-> Codec!DecodePage(c[k])]
    BY <1>2
  <2> HIDE DEF d
  <2> QED
    BY <2>1, <2>2
<1> HIDE DEF d
<1>5. \A k \in 1..M : \A j \in 1..3 : t[3 * (k - 1) + j] = d[k][j]
  <2>1. PICK w \in Nat : w = 3
    OBVIOUS
  <2>2. \A k \in 1..M : Len(d[k]) = w
    BY <1>4, <2>1
  <2>3. IsJoined(Flat(d), d, M, w, Int)
    BY <1>4, <2>2, Joined
  <2>4. t = Flat(d)
    BY DEF Codec!FlattenSeq, Flat
  <2> QED
    BY <2>1, <2>3, <2>4 DEF IsJoined
<1> HIDE DEF t
<1>6. ASSUME NEW n \in 1 .. 3 * M - s PROVE t[n] = x[n]
  <2>1. PICK k \in 1..M, j \in 1..3 : n = 3 * (k - 1) + j
    <3>1. PICK q \in Int, r \in 0..2 : n - 1 = 3 * q + r
      <4>1. /\ (n - 1) \div 3 \in Int /\ (n - 1) % 3 \in 0..2
            /\ n - 1 = 3 * ((n - 1) \div 3) + ((n - 1) % 3)
        OBVIOUS
      <4> QED
        BY <4>1
    <3>2. q + 1 \in 1..M /\ r + 1 \in 1..3 /\ n = 3 * ((q + 1) - 1) + (r + 1)
      BY <3>1
    <3> QED
      BY <3>2
  <2>2. j <= 3 - (IF k = M THEN s ELSE 0)
    BY <2>1
  <2>3. t[n] = d[k][j] /\ d[k][j] = p[k][j]
    BY <1>4, <1>5, <2>1, <2>2
  <2>4. p[k][j] = x[n]
    BY <2>1 DEF Thirds
  <2> QED
    BY <2>3, <2>4
<1> QED
  BY <1>1, <1>6

LEMMA DecryptsWhatEncrypts ==
  \A ori \in Seq(Octet), a \in Seq(Octet), b \in Seq(Octet) :
    Len(ori) > 0 /\ Len(a) >= 8 /\ Len(b) >= 8 =>
      Codec!decrypt(Codec!encrypt(ori, a), b) =
        IF \A i \in 1..Len(ori) : Codec!KeyByte(a, i) = Codec!KeyByte(b, i) THEN ori ELSE Codec!Refused
<1> SUFFICES ASSUME NEW ori \in Seq(Octet), NEW a \in Seq(Octet), NEW b \in Seq(Octet),
                    Len(ori) > 0, Len(a) >= 8, Len(b) >= 8
             PROVE  Codec!decrypt(Codec!encrypt(ori, a), b) =
                      IF \A i \in 1..Len(ori) : Codec!KeyByte(a, i) = Codec!KeyByte(b, i) THEN ori ELSE Codec!Refused
  OBVIOUS
<1>1. PICK L \in Nat : L = Len(ori) /\ L > 0
  BY LenProperties
<1>2. PICK M \in Nat, s \in 0..2 : \E x, p :
        Padded(x, ori, a, M, s) /\ Thirds(p, x, M) /\ Written(Codec!encrypt(ori, a), p, M, s)
  BY WrittenIs
<1>3. PICK x, p : Padded(x, ori, a, M, s) /\ Thirds(p, x, M) /\ Written(Codec!encrypt(ori, a), p, M, s)
  BY <1>2
<1> DEFINE crypt == Codec!encrypt(ori, a)
           tildes == {k \in DOMAIN crypt : crypt[k] = Codec!Tilde /\ k % 4 \in {0, 3}}
           dstlen == 3 * (Len(crypt) \div 4) - Codec!Cardinality(tildes)
           blend == Codec!MapEach(Codec!DecodePage, Codec!Pieces(crypt, 4))
           out == [i \in 1 .. dstlen \div 2 |-> Codec!Mixed(blend[2 * i], blend[2 * i - 1])]
           keys == [i \in 1 .. dstlen \div 2 |-> Codec!Mixed(blend[2 * i - 1], blend[2 * i])]
<1>4. Codec!decrypt(crypt, b) =
        IF crypt = <<>> \/ Len(crypt) % 4 # 0 \/ Len(b) < 8 \/ dstlen % 2 # 0
           \/ \E i \in DOMAIN keys : keys[i] # Codec!KeyByte(b, i)
        THEN Codec!Refused
        ELSE out
  BY DEF Codec!decrypt
<1>5. Written(crypt, p, M, s) /\ M > 0 /\ 2 * L + s = 3 * M
  BY <1>1, <1>3 DEF Padded
<1>6. Codec!Cardinality(tildes) = s
  BY <1>3, <1>5, TildesCounted
<1>7. \A n \in 1 .. 2 * L : blend[n] = Codec!Blend(ori, a)[n]
  <2>1. \A n \in 1 .. 3 * M - s : blend[n] = x[n]
    BY <1>3, <1>5, PagesJoined
  <2>2. \A n \in 1 .. 2 * L : x[n] = Codec!Blend(ori, a)[n]
    BY <1>1, <1>3 DEF Padded
  <2>3. 3 * M - s = 2 * L
    BY <1>5
  <2> HIDE DEF blend
  <2> QED
    BY <2>1, <2>2, <2>3
<1> HIDE DEF crypt, tildes, blend
<1>8. Len(crypt) = 4 * M /\ crypt # <<>> /\ Len(crypt) % 4 = 0
  <2>1. Len(crypt) = 4 * M /\ crypt \in Seq(Int)
    BY <1>5 DEF Written
  <2>2. 4 * M # 0 /\ (4 * M) % 4 = 0
    BY <1>5
  <2> QED
    BY <2>1, <2>2, EmptySeq
<1>9. dstlen = 2 * L /\ dstlen % 2 = 0 /\ dstlen \div 2 = L
  <2>1. (4 * M) \div 4 = M
    OBVIOUS
  <2>2. dstlen = 2 * L
    BY <1>5, <1>6, <1>8, <2>1
  <2>3. (2 * L) % 2 = 0 /\ (2 * L) \div 2 = L
    OBVIOUS
  <2> QED
    BY <2>2, <2>3
<1> HIDE DEF dstlen
<1>10. ASSUME NEW i \in 1..L
       PROVE  /\ Codec!Mixed(blend[2 * i], blend[2 * i - 1]) = ori[i]
              /\ Codec!Mixed(blend[2 * i - 1], blend[2 * i]) = Codec!KeyByte(a, i)
  <2>1. 2 * i - 1 \in 1 .. 2 * L /\ 2 * i \in 1 .. 2 * L
    OBVIOUS
  <2>2. /\ blend[2 * i - 1] = Codec!Mixed(Codec!KeyByte(a, i), ori[i])
        /\ blend[2 * i] = Codec!Mixed(ori[i], Codec!KeyByte(a, i))
    BY <1>1, <1>7, <2>1, BlendIs
  <2>3. ori[i] \in Octet /\ Codec!KeyByte(a, i) \in Octet
    <3>1. i \in Nat /\ i >= 1
      OBVIOUS
    <3> QED
      BY <1>1, <3>1, ElementOfSeq, KeyByteType
  <2> QED
    BY <2>2, <2>3, MixedTwice
<1>11. out = [i \in 1..L |-> ori[i]] /\ keys = [i \in 1..L |-> Codec!KeyByte(a, i)]
  BY <1>9, <1>10
<1>12. ori = [i \in 1..L |-> ori[i]]
  BY <1>1, LenProperties
<1> HIDE DEF out, keys
<1>13. (\E i \in DOMAIN keys : keys[i] # Codec!KeyByte(b, i))
         <=> ~\A i \in 1..Len(ori) : Codec!KeyByte(a, i) = Codec!KeyByte(b, i)
  BY <1>1, <1>11
<1>14. Codec!decrypt(crypt, b) =
         IF \A i \in 1..Len(ori) : Codec!KeyByte(a, i) = Codec!KeyByte(b, i) THEN ori ELSE Codec!Refused
  <2>1. Codec!decrypt(crypt, b) = IF \E i \in DOMAIN keys : keys[i] # Codec!KeyByte(b, i) THEN Codec!Refused ELSE out
    BY <1>4, <1>8, <1>9
  <2>2. out = ori
    BY <1>11, <1>12
  <2> QED
    BY <1>13, <2>1, <2>2
<1> QED
  BY <1>14 DEF crypt

LEMMA KeyFormatType ==
  \A key \in CipherKeys : Codec!encrypt_key_format(key) \in Seq(Octet) /\ Len(Codec!encrypt_key_format(key)) >= 8
<1> SUFFICES ASSUME NEW key \in CipherKeys
             PROVE  Codec!encrypt_key_format(key) \in Seq(Octet) /\ Len(Codec!encrypt_key_format(key)) >= 8
  OBVIOUS
<1>1. key \in Seq(Octet) /\ KeyDigest(key) \in Seq(Octet) /\ Len(KeyDigest(key)) = 16
  BY FunctionsAssumption DEF Octet
<1>2. PICK n \in Nat : n = Len(key)
  BY <1>1, LenProperties
<1>3. Codec!encrypt_key_format(key) = IF n < 16 \/ n % 8 # 0 THEN KeyDigest(key) ELSE key
  BY <1>2 DEF Codec!encrypt_key_format
<1>4. CASE n < 16 \/ n % 8 # 0
  <2>1. PICK d \in Seq(Octet) : d = KeyDigest(key) /\ Len(d) = 16
    BY <1>1
  <2>2. Codec!encrypt_key_format(key) = d
    BY <1>3, <1>4, <2>1
  <2>3. Len(d) >= 8
    BY <2>1
  <2> QED
    BY <2>2, <2>3
<1>5. CASE ~(n < 16 \/ n % 8 # 0)
  <2>1. Codec!encrypt_key_format(key) = key /\ n >= 8
    BY <1>3, <1>5
  <2> QED
    BY <1>1, <1>2, <2>1
<1> QED
  BY <1>4, <1>5

LEMMA CipherIsInverse ==
  \A input \in Seq(Octet), key \in CipherKeys, other \in CipherKeys : Codec!CipherInverts(input, key, other)
<1> SUFFICES ASSUME NEW input \in Seq(Octet), NEW key \in CipherKeys, NEW other \in CipherKeys, input # <<>>
             PROVE  /\ Codec!DecryptString(Codec!EncryptString(input, key), key) = input
                    /\ Codec!DecryptVector(Codec!EncryptString(input, key), key, <<>>) = input
                    /\ Codec!DecryptString(Codec!EncryptString(input, key), other) =
                         IF \A i \in 1..Len(input) :
                              Codec!KeyByte(Codec!encrypt_key_format(key), i) = Codec!KeyByte(Codec!encrypt_key_format(other), i)
                         THEN input ELSE Codec!Refused
  BY DEF Codec!CipherInverts
<1>1. PICK a \in Seq(Octet), b \in Seq(Octet) :
        /\ a = Codec!encrypt_key_format(key) /\ b = Codec!encrypt_key_format(other)
        /\ Len(a) >= 8 /\ Len(b) >= 8
  BY KeyFormatType
<1>2. Len(input) > 0
  BY LenProperties, EmptySeq
<1> DEFINE text == Codec!EncryptString(input, key)
<1>3. text = Codec!encrypt(input, a)
  BY <1>1 DEF Codec!EncryptString
<1> HIDE DEF text
<1>4. Codec!decrypt(text, a) = input
  BY <1>1, <1>2, <1>3, DecryptsWhatEncrypts
<1>5. Codec!DecryptString(text, key) = input
  BY <1>1, <1>4 DEF Codec!DecryptString
<1>6. input # Codec!Refused
  <2>1. 1 \in 1..Len(input)
    BY <1>2, LenProperties
  <2>2. input[1] \in Octet
    BY <2>1, ElementOfSeq
  <2>3. Codec!Refused[1] = -1
    BY DEF Codec!Refused
  <2>4. -1 \notin Octet
    BY DEF Octet
  <2> QED
    BY <2>2, <2>3, <2>4
<1>7. Codec!DecryptVector(text, key, <<>>) = input
  <2>1. <<>> \o input = input
    BY ConcatEmptySeq
  <2> QED
    BY <1>5, <1>6, <2>1 DEF Codec!DecryptVector
<1>8. Codec!DecryptString(text, other) =
        IF \A i \in 1..Len(input) : Codec!KeyByte(a, i) = Codec!KeyByte(b, i) THEN input ELSE Codec!Refused
  <2>1. Codec!DecryptString(text, other) = Codec!decrypt(text, b)
    BY <1>1 DEF Codec!DecryptString
  <2> QED
    BY <1>1, <1>2, <1>3, <2>1, DecryptsWhatEncrypts
<1> QED
  BY <1>1, <1>5, <1>7, <1>8 DEF text

-----------------------------------------------------------------------------
(* What runs is one of the calls, or nothing. *)
CallInv == call = <<>> \/ call \in Calls

LEMMA CallInvHolds == CallSpec => []CallInv
<1>1. CallInit => CallInv
  BY DEF CallInit, CallInv
<1>2. CallInv /\ [CallNext]_call => CallInv'
  BY DEF CallInv, CallNext, Call, Return, Calls
<1> QED
  BY <1>1, <1>2, PTL DEF CallSpec

LEMMA CallsAre ==
  CallInv =>
    /\ Runs("des") => call[2] \in DesInputs
    /\ Runs("packet") => call[2] \in PacketLengths
    /\ Runs("base64") => call[2] \in Inputs
    /\ Runs("cipher") => call[2] \in Inputs /\ call[3] \in CipherKeys /\ call[4] \in CipherKeys
BY DEF CallInv, Calls, Runs

(* DES: the rounds are undone in the order of the keys turned round, so that
   every block of bytes comes back, for all substitution boxes and keys. *)
THEOREM DesInvertsHolds == CallSpec => []DesInverts
<1>1. CallInv => DesInverts
  <2>1. DesInputs \subseteq Seq(Octet)
    BY FunctionsAssumption DEF Octet
  <2> QED
    BY <2>1, CallsAre, DecryptIsInverse DEF DesInverts
<1> QED
  BY <1>1, CallInvHolds, PTL

(* base64: the pad is in the last group alone, and every string comes back in
   the lengths that its callers allocate. *)
THEOREM Base64InvertsHolds == CallSpec => []Base64Inverts
<1>1. CallInv => Base64Inverts
  <2>1. Inputs \subseteq Seq(Octet)
    BY FunctionsAssumption DEF Octet
  <2> QED
    BY <2>1, CallsAre, Base64IsInverse DEF Base64Inverts
<1> QED
  BY <1>1, CallInvHolds, PTL

(* The cipher of encrypt.cpp: the tildes count the bytes that were added, and
   the bits of the key that are mixed in say whether it is the key. *)
THEOREM CipherInvertsHolds == CallSpec => []CipherInverts
<1>1. CallInv => CipherInverts
  <2>1. Inputs \subseteq Seq(Octet)
    BY FunctionsAssumption DEF Octet
  <2> QED
    BY <2>1, CallsAre, CipherIsInverse DEF CipherInverts
<1> QED
  BY <1>1, CallInvHolds, PTL

(* Packets: every length that an int counts is cut from the stream as it was
   framed, by each of the builders. *)
THEOREM PacketsInvertHolds == CallSpec => []PacketsInvert
<1>1. CallInv => PacketsInvert
  <2>1. \A cb \in PacketLengths : cb \in Nat /\ cb <= 2147483647
    BY FunctionsAssumption
  <2> QED
    BY <2>1, CallsAre, PacketsAreFramed DEF PacketsInvert
<1> QED
  BY <1>1, CallInvHolds, PTL

(* Whatever the library encodes with these functions it decodes. *)
THEOREM DecodingInvertsHolds == CallSpec => []DecodingInverts
BY DesInvertsHolds, Base64InvertsHolds, CipherInvertsHolds, PacketsInvertHolds, PTL DEF DecodingInverts
=============================================================================
