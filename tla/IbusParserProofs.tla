-------------------------- MODULE IbusParserProofs --------------------------
(***************************************************************************)
(* Theorems about both IBUS parsers, for all payloads and any noise.       *)
(***************************************************************************)
EXTENDS IbusParser, SequenceTheorems, WellFoundedInduction, TLAPS
-----------------------------------------------------------------------------
\* Induction on a set of numbers.
LEMMA Reaches ==
    ASSUME NEW S, 0 \in S, \A n \in Nat : n \in S => n + 1 \in S
    PROVE  \A n \in Nat : n \in S
<1> DEFINE T == {n \in Nat : n \notin S}
<1> SUFFICES ASSUME T # {} PROVE FALSE
    OBVIOUS
<1>1. PICK x \in T : \A y \in T : ~(<<y, x>> \in OpToRel(<, Nat))
    BY NatLessThanWellFounded, WFMin, Zenon
<1>2. x \in Nat /\ x # 0
    OBVIOUS
<1>3. x - 1 \in Nat /\ x - 1 < x /\ (x - 1) + 1 = x
    BY <1>2
<1>4. x - 1 \notin T
    BY <1>1, <1>2, <1>3, Zenon DEF OpToRel
<1> QED BY <1>3, <1>4
-----------------------------------------------------------------------------
(* The checksum.                                                           *)
Bytes == 0..255
LEMMA ByteIs == \A b \in Bytes : b \in Nat /\ b <= 255
BY DEF Bytes

\* The loop of the checksum: a turn takes one byte off.
Off(f, g, n) == IF n = 0 THEN 2^16 - 1 ELSE (g[n - 1] + 2^16 - f[n]) % 2^16
Sums(f, g) == \A n \in 0..30 : g[n] = Off(f, g, n)

LEMMA SumsExist ==
    ASSUME NEW f
    PROVE  \E g : g = [n \in 0..30 |-> Off(f, g, n)]
<1> DEFINE S == {k \in Nat : \E g : \A n \in 0..k : g[n] = Off(f, g, n)}
<1>1. 0 \in S
    <2> DEFINE g == [n \in {0} |-> 2^16 - 1]
    <2>1. \A n \in 0..0 : n = 0
        OBVIOUS
    <2>2. \A n \in 0..0 : g[n] = Off(f, g, n)
        BY <2>1 DEF Off
    <2> HIDE DEF g
    <2> QED BY <2>2
<1>2. ASSUME NEW k \in Nat, k \in S
      PROVE  k + 1 \in S
    <2>1. PICK g : \A n \in 0..k : g[n] = Off(f, g, n)
        BY <1>2
    <2> DEFINE h == [n \in 0..k + 1 |-> Off(f, g, n)]
    <2>2. ASSUME NEW n \in 0..k + 1
          PROVE  h[n] = Off(f, h, n)
        <3>1. h[n] = Off(f, g, n)
            OBVIOUS
        <3>2. CASE n = 0
            BY <3>1, <3>2 DEF Off
        <3>3. CASE n # 0
            <4>1. n - 1 \in 0..k /\ n - 1 \in 0..k + 1
                BY <3>3
            <4>2. h[n - 1] = Off(f, g, n - 1) /\ g[n - 1] = Off(f, g, n - 1)
                BY <2>1, <4>1
            <4>3. h[n - 1] = g[n - 1]
                BY <4>2
            <4> HIDE DEF h
            <4> QED BY <3>1, <3>3, <4>3 DEF Off
        <3> QED BY <3>2, <3>3
    <2> HIDE DEF h
    <2> QED BY <2>2
<1>3. 30 \in S
    <2> HIDE DEF S
    <2> QED BY <1>1, <1>2, Reaches
<1>4. PICK g : \A n \in 0..30 : g[n] = Off(f, g, n)
    BY <1>3
<1> DEFINE h == [n \in 0..30 |-> g[n]]
<1>5. \A n \in 0..30 : g[n] = Off(f, h, n)
    <2> TAKE n \in 0..30
    <2>1. n # 0 => n - 1 \in 0..30
        OBVIOUS
    <2>2. n # 0 => h[n - 1] = g[n - 1]
        BY <2>1
    <2> HIDE DEF h
    <2> QED BY <1>4, <2>2 DEF Off
<1>6. h = [n \in 0..30 |-> Off(f, h, n)]
    BY <1>5
<1> HIDE DEF h
<1> QED BY <1>6

LEMMA ChecksumIs ==
    ASSUME NEW f
    PROVE  \E g : Sums(f, g) /\ Checksum(f) = g[30]
<1> DEFINE rest == CHOOSE g : g = [n \in 0..30 |-> Off(f, g, n)]
<1>1. rest = [n \in 0..30 |-> Off(f, rest, n)]
    BY SumsExist
<1>2. Checksum(f) = rest[30]
    BY DEF Checksum, Off
<1> HIDE DEF rest
<1>3. \A n \in 0..30 : rest[n] = Off(f, rest, n)
    BY <1>1
<1> QED BY <1>2, <1>3 DEF Sums

\* Taking a byte off does not wrap.
LEMMA Wraps ==
    ASSUME NEW a \in Nat, NEW b \in Nat, b <= a, a <= 65535
    PROVE  (a + 65536 - b) % 65536 = a - b
<1>1. PICK c \in Int : c = a - b
    OBVIOUS
<1>2. 0 <= c /\ c <= 65535 /\ a + 65536 - b = c + 65536
    BY <1>1
<1>3. (c + 65536) % 65536 = c
    BY <1>2
<1> QED BY <1>1, <1>2, <1>3

\* Thirty bytes do not exhaust it.
LEMMA SumsAre ==
    ASSUME NEW f, \A i \in 1..30 : f[i] \in Bytes, NEW g, Sums(f, g)
    PROVE  \A n \in 0..30 : /\ g[n] \in Nat /\ 65535 - 255 * n <= g[n] /\ g[n] <= 65535
                            /\ n # 0 => g[n] = g[n - 1] - f[n]
<1> DEFINE Good(n) == /\ g[n] \in Nat /\ 65535 - 255 * n <= g[n] /\ g[n] <= 65535
                      /\ n # 0 => g[n] = g[n - 1] - f[n]
           S == {n \in Nat : n <= 30 => Good(n)}
<1>p. 2^16 = 65536
    OBVIOUS
<1>1. 0 \in S
    <2>1. g[0] = 65535
        BY <1>p DEF Sums, Off
    <2> QED BY <2>1
<1>2. ASSUME NEW k \in Nat, k \in S
      PROVE  k + 1 \in S
    <2> SUFFICES ASSUME k + 1 <= 30 PROVE Good(k + 1)
        OBVIOUS
    <2>1. k + 1 \in 0..30 /\ k + 1 # 0 /\ (k + 1) - 1 = k /\ k + 1 \in 1..30
        OBVIOUS
    <2>2. g[k + 1] = (g[k] + 65536 - f[k + 1]) % 65536
        BY <1>p, <2>1 DEF Sums, Off
    <2>3. f[k + 1] \in Nat /\ f[k + 1] <= 255
        <3>1. f[k + 1] \in Bytes
            BY <2>1
        <3> QED BY <3>1, ByteIs
    <2>4. g[k] \in Nat /\ 65535 - 255 * k <= g[k] /\ g[k] <= 65535
        BY <1>2
    <2>5. f[k + 1] <= g[k]
        BY <2>3, <2>4
    <2>6. g[k + 1] = g[k] - f[k + 1]
        BY <2>2, <2>3, <2>4, <2>5, Wraps
    <2> QED BY <2>1, <2>3, <2>4, <2>6
<1>3. \A n \in Nat : n \in S
    <2> HIDE DEF S
    <2> QED BY <1>1, <1>2, Reaches
<1> QED BY <1>3

\* The high byte of a checksum is 0xe2 or more, so no byte of a frame that it is
\* mistaken for.
LEMMA ChecksumHigh ==
    ASSUME NEW f, \A i \in 1..30 : f[i] \in Bytes
    PROVE  Checksum(f) \in Nat /\ 57885 <= Checksum(f) /\ Checksum(f) <= 65535
<1>1. PICK g : Sums(f, g) /\ Checksum(f) = g[30]
    BY ChecksumIs
<1>2. /\ g[30] \in Nat /\ 65535 - 255 * 30 <= g[30] /\ g[30] <= 65535
    BY <1>1, SumsAre
<1>3. 65535 - 255 * 30 = 57885
    OBVIOUS
<1> QED BY <1>1, <1>2, <1>3

\* The checksum of both parsers depends on the thirty bytes before it only, and is
\* another one when one of them is changed.
THEOREM ChecksumTells ==
    ASSUME NEW f, \A i \in 1..30 : f[i] \in Bytes, NEW h, \A i \in 1..30 : h[i] \in Bytes
    PROVE  /\ (\A i \in 1..30 : f[i] = h[i]) => Checksum(f) = Checksum(h)
           /\ \A j \in 1..30 : (\A i \in 1..30 : f[i] = h[i] <=> i # j) => Checksum(f) # Checksum(h)
<1>1. PICK a : Sums(f, a) /\ Checksum(f) = a[30]
    BY ChecksumIs
<1>2. PICK b : Sums(h, b) /\ Checksum(h) = b[30]
    BY ChecksumIs
<1>3. \A n \in 0..30 : /\ a[n] \in Nat /\ b[n] \in Nat
                       /\ n # 0 => a[n] = a[n - 1] - f[n] /\ b[n] = b[n - 1] - h[n]
    BY <1>1, <1>2, SumsAre
<1>4. a[0] = b[0]
    BY <1>1, <1>2 DEF Sums, Off
<1>5. ASSUME NEW j \in 1..31, \A i \in 1..30 : f[i] = h[i] <=> i # j
      PROVE  a[30] = b[30] <=> j = 31
    <2> DEFINE S == {n \in Nat : n <= 30 => (a[n] - b[n] = IF n < j THEN 0 ELSE h[j] - f[j])}
    <2>1. 0 \in S
        BY <1>3, <1>4
    <2>2. ASSUME NEW k \in Nat, k \in S
          PROVE  k + 1 \in S
        <3> SUFFICES ASSUME k + 1 <= 30 PROVE a[k + 1] - b[k + 1] = IF k + 1 < j THEN 0 ELSE h[j] - f[j]
            OBVIOUS
        <3>1. k + 1 \in 0..30 /\ k \in 0..30 /\ k + 1 # 0 /\ (k + 1) - 1 = k /\ k + 1 \in 1..30
            OBVIOUS
        <3>2. /\ a[k + 1] = a[k] - f[k + 1] /\ b[k + 1] = b[k] - h[k + 1]
              /\ a[k] \in Nat /\ b[k] \in Nat
            BY <1>3, <3>1
        <3>3. a[k] - b[k] = IF k < j THEN 0 ELSE h[j] - f[j]
            BY <2>2
        <3>7. f[k + 1] \in Bytes /\ h[k + 1] \in Bytes
            BY <3>1
        <3>8. f[k + 1] = h[k + 1] <=> k + 1 # j
            BY <1>5, <3>1
        <3>4. f[k + 1] \in Nat /\ h[k + 1] \in Nat /\ (f[k + 1] = h[k + 1] <=> k + 1 # j)
            BY <3>7, <3>8, ByteIs
        <3>5. CASE k + 1 # j
            <4>1. a[k + 1] - b[k + 1] = a[k] - b[k]
                BY <3>2, <3>4, <3>5
            <4>2. k + 1 < j <=> k < j
                BY <3>5
            <4> QED BY <3>3, <4>1, <4>2
        <3>6. CASE k + 1 = j
            BY <3>2, <3>3, <3>4, <3>6
        <3> QED BY <3>5, <3>6
    <2>3. 30 \in S
        <3> HIDE DEF S
        <3> QED BY <2>1, <2>2, Reaches
    <2>4. a[30] - b[30] = IF 30 < j THEN 0 ELSE h[j] - f[j]
        BY <2>3
    <2>5. ASSUME j # 31
          PROVE  f[j] \in Nat /\ h[j] \in Nat /\ f[j] # h[j]
        <3>1. j \in 1..30
            BY <2>5
        <3>2. f[j] \in Bytes /\ h[j] \in Bytes
            BY <3>1
        <3>3. f[j] # h[j]
            BY <1>5, <3>1
        <3> QED BY <3>2, <3>3, ByteIs
    <2>6. a[30] \in Nat /\ b[30] \in Nat
        BY <1>3
    <2>7. CASE j = 31
        BY <2>4, <2>6, <2>7
    <2>8. CASE j # 31
        <3>1. ~(30 < j)
            BY <2>8
        <3> QED BY <2>4, <2>5, <2>6, <2>8, <3>1
    <2> QED BY <2>7, <2>8
<1>6. (\A i \in 1..30 : f[i] = h[i]) => a[30] = b[30]
    <2>1. 31 \in 1..31 /\ \A i \in 1..30 : i # 31
        OBVIOUS
    <2> QED BY <1>5, <2>1
<1>7. \A j \in 1..30 : (\A i \in 1..30 : f[i] = h[i] <=> i # j) => a[30] # b[30]
    <2>1. \A j \in 1..30 : j \in 1..31 /\ j # 31
        OBVIOUS
    <2> QED BY <1>5, <2>1
<1> QED BY <1>1, <1>2, <1>6, <1>7
-----------------------------------------------------------------------------
(* The frames.                                                             *)
LEMMA WordIs ==
    ASSUME NEW c \in Nat, c <= 65535
    PROVE  /\ c % 256 \in Bytes /\ c \div 256 \in Bytes /\ c = (c % 256) + 256 * (c \div 256)
           /\ 57885 <= c => 226 <= c \div 256
           /\ c < 2^13 => c \div 256 < 32
<1>1. 2^13 = 8192
    OBVIOUS
<1>2. c % 256 \in Nat /\ c % 256 <= 255 /\ c \div 256 \in Nat /\ c \div 256 <= 255
    OBVIOUS
<1>3. c = (c % 256) + 256 * (c \div 256)
    OBVIOUS
<1>4. (57885 <= c => 226 <= c \div 256) /\ (c < 8192 => c \div 256 < 32)
    BY <1>2, <1>3
<1> QED BY <1>1, <1>2, <1>3, <1>4 DEF Bytes

LEMMA ChannelIs ==
    ASSUME NEW p \in Channels, NEW i \in 1..14
    PROVE  p[i] \in Nat /\ p[i] <= 65535
<1> DEFINE W == 0..(2^16 - 1)
<1>1. \A c \in W : c \in Nat /\ c <= 65535
    <2>1. 2^16 - 1 = 65535
        OBVIOUS
    <2> QED BY <2>1
<1>2. Channels = [1..14 -> W]
    BY DEF Channels, IBUS_CHANNELS
<1> HIDE DEF W
<1>3. p[i] \in W
    BY <1>2
<1> QED BY <1>1, <1>3

\* encodeIbusFrame, byte by byte.
LEMMA FrameIs ==
    ASSUME NEW p \in Channels
    PROVE  /\ Frame(p) \in Seq(Bytes) /\ Len(Frame(p)) = 32
           /\ Frame(p)[1] = 32 /\ Frame(p)[2] = 64
           /\ \A i \in 1..14 : Frame(p)[1 + 2 * i] = p[i] % 256 /\ Frame(p)[2 + 2 * i] = p[i] \div 256
           /\ ChecksumOk(Frame(p))
           /\ Frame(p)[32] \in Nat /\ 226 <= Frame(p)[32]
<1> DEFINE Word(i) == IF i % 2 = 1 THEN p[(i + 1) \div 2] % 256 ELSE p[i \div 2] \div 256
           a == <<IBUS_FRAME_SIZE, IBUS_CMD>>
           b == [i \in 1..(2 * IBUS_CHANNELS) |-> Word(i)]
           body == a \o b
           sum == Checksum(body)
           e == <<sum % 256, sum \div 256>>
<1>1. Frame(p) = body \o e
    BY DEF Frame
<1>2. a \in Seq(Bytes) /\ Len(a) = 2 /\ a[1] = 32 /\ a[2] = 64
    <2>1. 32 \in Bytes /\ 64 \in Bytes
        BY DEF Bytes
    <2> QED BY <2>1 DEF IBUS_FRAME_SIZE, IBUS_CMD
<1>3. ASSUME NEW i \in 1..28
      PROVE  Word(i) \in Bytes
    <2>1. CASE i % 2 = 1
        <3>1. (i + 1) \div 2 \in 1..14
            BY <2>1
        <3>2. p[(i + 1) \div 2] % 256 \in Bytes
            BY <3>1, ChannelIs, WordIs
        <3> QED BY <2>1, <3>2
    <2>2. CASE i % 2 # 1
        <3>1. i \div 2 \in 1..14
            BY <2>2
        <3>2. p[i \div 2] \div 256 \in Bytes
            BY <3>1, ChannelIs, WordIs
        <3> QED BY <2>2, <3>2
    <2> QED BY <2>1, <2>2
<1>4. b \in Seq(Bytes) /\ Len(b) = 28 /\ \A i \in 1..28 : b[i] = Word(i)
    <2> HIDE DEF Word
    <2>1. b = [i \in 1..28 |-> Word(i)]
        BY DEF IBUS_CHANNELS
    <2>2. b \in [1..28 -> Bytes]
        BY <1>3, <2>1
    <2> HIDE DEF b
    <2> QED BY <2>1, <2>2
<1>5. \A i \in 1..14 : Word(2 * i - 1) = p[i] % 256 /\ Word(2 * i) = p[i] \div 256
    <2> TAKE i \in 1..14
    <2>1. (2 * i - 1) % 2 = 1 /\ ((2 * i - 1) + 1) \div 2 = i /\ (2 * i) % 2 # 1 /\ (2 * i) \div 2 = i
        OBVIOUS
    <2> QED BY <2>1
<1> HIDE DEF a, b, Word
<1>6. /\ body \in Seq(Bytes) /\ Len(body) = 30 /\ body[1] = 32 /\ body[2] = 64
      /\ \A i \in 1..28 : body[2 + i] = Word(i)
    <2>1. 2 \in Nat /\ 28 \in Nat /\ 2 + 28 = 30 /\ 1 \in 1..2 /\ 2 \in 1..2
        OBVIOUS
    <2>2. /\ a \o b \in Seq(Bytes) /\ Len(a \o b) = 2 + 28
          /\ \A i \in 1..2 : (a \o b)[i] = a[i]
          /\ \A i \in 1..28 : (a \o b)[2 + i] = b[i]
        <3>0. a \in Seq(Bytes) /\ Len(a) = 2 /\ b \in Seq(Bytes) /\ Len(b) = 28
            BY <1>2, <1>4
        <3>1. /\ a \o b \in Seq(Bytes) /\ Len(a \o b) = Len(a) + Len(b)
              /\ \A i \in 1..Len(a) + Len(b) :
                    (a \o b)[i] = IF i <= Len(a) THEN a[i] ELSE b[i - Len(a)]
            BY <3>0, ConcatProperties
        <3>2. ASSUME NEW i \in 1..2
              PROVE  (a \o b)[i] = a[i]
            <4>1. i \in 1..2 + 28 /\ i <= 2
                OBVIOUS
            <4>2. (a \o b)[i] = IF i <= 2 THEN a[i] ELSE b[i - 2]
                BY <3>0, <3>1, <4>1
            <4> QED BY <4>1, <4>2
        <3>3. ASSUME NEW i \in 1..28
              PROVE  (a \o b)[2 + i] = b[i]
            <4>1. /\ 2 + i \in 1..2 + 28 /\ ~(2 + i <= 2)
                  /\ (2 + i) - 2 = i
                OBVIOUS
            <4>2. (a \o b)[2 + i] = IF 2 + i <= 2 THEN a[2 + i] ELSE b[(2 + i) - 2]
                BY <3>0, <3>1, <4>1
            <4> QED BY <4>1, <4>2
        <3> QED BY <3>0, <3>1, <3>2, <3>3
    <2> QED BY <1>2, <1>4, <2>1, <2>2
<1> HIDE DEF body
<1>7. \A i \in 1..30 : body[i] \in Bytes
    BY <1>6, ElementOfSeq
<1>8. sum \in Nat /\ 57885 <= sum /\ sum <= 65535
    BY <1>7, ChecksumHigh
<1> HIDE DEF sum
<1>9. e \in Seq(Bytes) /\ Len(e) = 2 /\ e[1] = sum % 256 /\ e[2] = sum \div 256
    <2>1. sum % 256 \in Bytes /\ sum \div 256 \in Bytes
        BY <1>8, WordIs
    <2> QED BY <2>1
<1> HIDE DEF e
<1> DEFINE F == body \o e
<1>10. /\ F \in Seq(Bytes) /\ Len(F) = 32
       /\ \A i \in 1..30 : F[i] = body[i]
       /\ \A i \in 1..2 : F[30 + i] = e[i]
    <2>1. 30 \in Nat /\ 2 \in Nat /\ 30 + 2 = 32
        OBVIOUS
    <2>2. /\ body \o e \in Seq(Bytes) /\ Len(body \o e) = 30 + 2
          /\ \A i \in 1..30 : (body \o e)[i] = body[i]
          /\ \A i \in 1..2 : (body \o e)[30 + i] = e[i]
        <3>0. body \in Seq(Bytes) /\ Len(body) = 30 /\ e \in Seq(Bytes) /\ Len(e) = 2
            BY <1>6, <1>9
        <3>1. /\ body \o e \in Seq(Bytes) /\ Len(body \o e) = Len(body) + Len(e)
              /\ \A i \in 1..Len(body) + Len(e) :
                    (body \o e)[i] = IF i <= Len(body) THEN body[i] ELSE e[i - Len(body)]
            BY <3>0, ConcatProperties
        <3>2. \A i \in 1..30 : (body \o e)[i] = body[i]
            BY <3>0, <3>1
        <3>3. ASSUME NEW i \in 1..2
              PROVE  (body \o e)[30 + i] = e[i]
            <4>1. /\ 30 + i \in 1..30 + 2 /\ ~(30 + i <= 30)
                  /\ (30 + i) - 30 = i
                OBVIOUS
            <4>2. (body \o e)[30 + i] = IF 30 + i <= 30 THEN body[30 + i] ELSE e[(30 + i) - 30]
                BY <3>0, <3>1, <4>1
            <4> QED BY <4>1, <4>2
        <3> QED BY <3>0, <3>1, <3>2, <3>3
    <2> QED BY <2>1, <2>2
<1>15. Frame(p) = F
    BY <1>1
<1> HIDE DEF F
<1>11. F[31] = sum % 256 /\ F[32] = sum \div 256 /\ F[1] = 32 /\ F[2] = 64
    <2>1. 1 \in 1..2 /\ 2 \in 1..2 /\ 1 \in 1..30 /\ 2 \in 1..30 /\ 30 + 1 = 31 /\ 30 + 2 = 32
        OBVIOUS
    <2>2. F[30 + 1] = e[1] /\ F[30 + 2] = e[2] /\ F[1] = body[1] /\ F[2] = body[2]
        BY <1>10, <2>1
    <2> QED BY <1>6, <1>9, <2>1, <2>2
<1>12. ASSUME NEW i \in 1..14
       PROVE  F[1 + 2 * i] = p[i] % 256 /\ F[2 + 2 * i] = p[i] \div 256
    <2>1. /\ 2 * i - 1 \in 1..28 /\ 2 * i \in 1..28 /\ 2 + (2 * i - 1) = 1 + 2 * i
          /\ 1 + 2 * i \in 1..30 /\ 2 + 2 * i \in 1..30
        OBVIOUS
    <2>2. body[2 + (2 * i - 1)] = Word(2 * i - 1) /\ body[2 + 2 * i] = Word(2 * i)
        BY <1>6, <2>1
    <2>3. F[1 + 2 * i] = body[1 + 2 * i] /\ F[2 + 2 * i] = body[2 + 2 * i]
        BY <1>10, <2>1
    <2> QED BY <1>5, <2>1, <2>2, <2>3
<1>13. Checksum(F) = sum
    <2>1. \A i \in 1..30 : F[i] = body[i] /\ F[i] \in Bytes
        BY <1>7, <1>10
    <2> QED BY <1>7, <2>1, ChecksumTells DEF sum
<1>14. ChecksumOk(F) /\ F[32] \in Nat /\ 226 <= F[32]
    <2>1. /\ sum = (sum % 256) + 256 * (sum \div 256) /\ 226 <= sum \div 256 /\ sum \div 256 \in Bytes
        BY <1>8, WordIs
    <2>2. sum \div 256 \in Nat
        BY <2>1, ByteIs
    <2> QED BY <1>11, <1>13, <2>1, <2>2 DEF ChecksumOk
<1> QED BY <1>10, <1>11, <1>12, <1>14, <1>15

LEMMA FrameWords ==
    ASSUME NEW p \in Channels, NEW i \in 1..14
    PROVE  Frame(p)[1 + 2 * i] = p[i] % 256 /\ Frame(p)[2 + 2 * i] = p[i] \div 256
BY FrameIs

\* What the parsers read out of a frame is what was put in.
LEMMA DecodesTo ==
    ASSUME NEW p \in Channels, NEW f, \A i \in 1..32 : f[i] = Frame(p)[i]
    PROVE  Decode(f) = p
<1>1. ASSUME NEW i \in 1..14
      PROVE  f[1 + 2 * i] + 256 * f[2 + 2 * i] = p[i]
    <2>1. 1 + 2 * i \in 1..32 /\ 2 + 2 * i \in 1..32
        OBVIOUS
    <2>4. Frame(p)[1 + 2 * i] = p[i] % 256 /\ Frame(p)[2 + 2 * i] = p[i] \div 256
        BY FrameWords
    <2>5. f[1 + 2 * i] = Frame(p)[1 + 2 * i] /\ f[2 + 2 * i] = Frame(p)[2 + 2 * i]
        BY <2>1
    <2>2. f[1 + 2 * i] = p[i] % 256 /\ f[2 + 2 * i] = p[i] \div 256
        BY <2>4, <2>5
    <2>3. p[i] = (p[i] % 256) + 256 * (p[i] \div 256)
        BY ChannelIs, WordIs
    <2> QED BY <2>2, <2>3
<1>2. p = [i \in 1..14 |-> p[i]]
    BY DEF Channels, IBUS_CHANNELS
<1> QED BY <1>1, <1>2 DEF Decode, IBUS_CHANNELS
-----------------------------------------------------------------------------
(* One byte into a parser, which collects q.                               *)

\* What both parsers do with a byte: ibus_parse_byte never, pushByte always drops
\* a second byte that is not 0x40.
Collects(q, b, r) ==
    \/ r = Append(q, b) /\ ~(q = <<>> /\ b # 32)
    \/ r = <<>> /\ ((q = <<>> /\ b # 32) \/ (Len(q) = 1 /\ b # 64))
After(r) == IF Len(r) = 32 THEN <<>> ELSE r
Accepts(r) == Len(r) = 32 /\ r[1] = 32 /\ r[2] = 64 /\ ChecksumOk(r)

Collected == {q \in Seq(Bytes) : Len(q) <= 31}

LEMMA CollectsIs ==
    ASSUME NEW q \in Collected, NEW b \in Bytes, NEW r, Collects(q, b, r)
    PROVE  /\ r \in Seq(Bytes) /\ After(r) \in Collected
           /\ r = <<>> \/ (r = Append(q, b) /\ Len(r) = Len(q) + 1 /\ r[Len(q) + 1] = b
                           /\ \A i \in 1..Len(q) : r[i] = q[i])
<1>1. q \in Seq(Bytes) /\ Len(q) <= 31 /\ Len(q) \in Nat
    BY DEF Collected
<1>2. CASE r = <<>>
    <2>1. r \in Seq(Bytes) /\ Len(r) = 0
        BY <1>2
    <2> QED BY <1>2, <2>1 DEF After, Collected
<1>3. CASE r = Append(q, b)
    <2>1. /\ r \in Seq(Bytes) /\ Len(r) = Len(q) + 1 /\ r[Len(q) + 1] = b
          /\ \A i \in 1..Len(q) : r[i] = q[i]
        BY <1>1, <1>3, AppendProperties
    <2>2. <<>> \in Seq(Bytes) /\ Len(<<>>) = 0
        OBVIOUS
    <2>3. After(r) \in Collected
        BY <1>1, <2>1, <2>2 DEF After, Collected
    <2> QED BY <1>3, <2>1, <2>3
<1> QED BY <1>2, <1>3 DEF Collects

\* It has the first k bytes of the frame of p.
InStep(q, p, k) == Len(q) = k /\ \A i \in 1..k : q[i] = Frame(p)[i]

\* It stays in step, and has the whole frame at its end.
LEMMA StaysInStep ==
    ASSUME NEW p \in Channels, NEW k \in 0..31, NEW q \in Collected, InStep(q, p, k),
           NEW r, Collects(q, Frame(p)[k + 1], r)
    PROVE  r # <<>> /\ InStep(r, p, k + 1) /\ (k < 31 => After(r) = r) /\ (k = 31 => After(r) = <<>>)
<1>1. Frame(p)[k + 1] \in Bytes
    <2>1. k + 1 \in 1..32
        OBVIOUS
    <2> QED BY <2>1, FrameIs, ElementOfSeq
<1>2. r # <<>>
    <2>1. q \in Seq(Bytes) /\ Len(q) = k
        BY DEF Collected, InStep
    <2>2. q = <<>> => k = 0 /\ Frame(p)[k + 1] = 32
        BY <2>1, FrameIs
    <2>3. Len(q) = 1 => Frame(p)[k + 1] = 64
        BY <2>1, FrameIs
    <2>4. Append(q, Frame(p)[k + 1]) # <<>>
        BY <1>1, <2>1
    <2> QED BY <2>2, <2>3, <2>4 DEF Collects
<1>3. /\ Len(r) = Len(q) + 1 /\ r[Len(q) + 1] = Frame(p)[k + 1]
      /\ \A i \in 1..Len(q) : r[i] = q[i]
    BY <1>1, <1>2, CollectsIs
<1>4. InStep(r, p, k + 1)
    <2>1. Len(r) = k + 1 /\ r[k + 1] = Frame(p)[k + 1]
        BY <1>3 DEF InStep
    <2>2. ASSUME NEW i \in 1..k + 1
          PROVE  r[i] = Frame(p)[i]
        <3>1. CASE i = k + 1
            BY <2>1, <3>1
        <3>2. CASE i # k + 1
            <4>1. i \in 1..k
                BY <3>2
            <4> QED BY <1>3, <4>1 DEF InStep
        <3> QED BY <3>1, <3>2
    <2> QED BY <2>1, <2>2 DEF InStep
<1>5. Len(r) = k + 1
    BY <1>4 DEF InStep
<1> QED BY <1>2, <1>4, <1>5 DEF After

\* Both parsers accept a whole frame that arrives unchanged, and decode it to the
\* channels that were encoded.
THEOREM WholeFrame ==
    ASSUME NEW p \in Channels, NEW r \in Seq(Bytes), InStep(r, p, 32)
    PROVE  Accepts(r) /\ CAccepts(r) /\ CppAccepts(r) /\ Decode(r) = p
<1>1. \A i \in 1..32 : r[i] = Frame(p)[i]
    BY DEF InStep
<1>2. r[1] = 32 /\ r[2] = 64
    <2>1. r[1] = Frame(p)[1] /\ r[2] = Frame(p)[2]
        BY <1>1
    <2> QED BY <2>1, FrameIs
<1>3. ChecksumOk(r)
    <2>1. \A i \in 1..30 : r[i] \in Bytes /\ Frame(p)[i] \in Bytes /\ r[i] = Frame(p)[i]
        <3> TAKE i \in 1..30
        <3>1. i \in 1..32
            OBVIOUS
        <3> QED BY <1>1, <3>1, FrameIs, ElementOfSeq
    <2>2. Checksum(r) = Checksum(Frame(p))
        BY <2>1, ChecksumTells
    <2>3. r[31] = Frame(p)[31] /\ r[32] = Frame(p)[32]
        BY <1>1
    <2>4. ChecksumOk(Frame(p))
        BY FrameIs
    <2> QED BY <2>2, <2>3, <2>4 DEF ChecksumOk
<1>4. Decode(r) = p
    BY <1>1, DecodesTo
<1> QED BY <1>2, <1>3, <1>4 DEF Accepts, CAccepts, CppAccepts, IBUS_FRAME_SIZE, IBUS_CMD, InStep
-----------------------------------------------------------------------------
(* Sticks.  A channel is a pulse of 1000 to 2000 us (kChannelMinUs,        *)
(* kChannelMaxUs), so its high byte is below 0x20.                         *)
SticksOf(p) == \A i \in 1..14 : p[i] < 2^13
Sticks == \A p \in Payloads : SticksOf(p)

\* So 0x20, 0x40 is the start of a frame and nothing else in it.
LEMMA NoHeader ==
    ASSUME NEW p \in Channels, SticksOf(p), NEW k \in 2..31, Frame(p)[k] = 32
    PROVE  Frame(p)[k + 1] # 64
<1>1. ASSUME NEW i \in 1..14
      PROVE  Frame(p)[2 + 2 * i] < 32
    <2>1. Frame(p)[2 + 2 * i] = p[i] \div 256
        BY FrameWords
    <2>2. p[i] < 2^13 /\ p[i] \in Nat /\ p[i] <= 65535
        BY ChannelIs DEF SticksOf
    <2> QED BY <2>1, <2>2, WordIs
<1>2. CASE k % 2 = 0
    <2>1. CASE k = 2
        <3>1. Frame(p)[2] = 64
            BY FrameIs
        <3> QED BY <2>1, <3>1
    <2>2. CASE k # 2
        <3>1. PICK i \in 1..14 : k = 2 + 2 * i
            <4>1. (k - 2) \div 2 \in 1..14 /\ k = 2 + 2 * ((k - 2) \div 2)
                BY <1>2, <2>2
            <4> QED BY <4>1
        <3>2. Frame(p)[k] < 32
            BY <1>1, <3>1
        <3> QED BY <3>2
    <2> QED BY <2>1, <2>2
<1>3. CASE k % 2 # 0
    <2>1. CASE k = 31
        <3>1. Frame(p)[32] \in Nat /\ 226 <= Frame(p)[32]
            BY FrameIs
        <3>2. k + 1 = 32
            BY <2>1
        <3> QED BY <3>1, <3>2
    <2>2. CASE k # 31
        <3>1. PICK i \in 1..14 : k + 1 = 2 + 2 * i
            <4>1. (k - 1) \div 2 \in 1..14 /\ k + 1 = 2 + 2 * ((k - 1) \div 2)
                BY <1>3, <2>2
            <4> QED BY <4>1
        <3>2. Frame(p)[k + 1] < 32
            BY <1>1, <3>1
        <3> QED BY <3>2
    <2> QED BY <2>1, <2>2
<1> QED BY <1>2, <1>3
-----------------------------------------------------------------------------
(* One byte of a frame lost or changed: where a parser can be after the    *)
(* first k bytes of the frame of p.                                        *)
Along(q, p, k) == IF k = 32 THEN q = <<>> ELSE InStep(q, p, k)
\* It has all k of them, one of them changed.
Differs(q, p, k, j) == \A i \in 1..k : q[i] = Frame(p)[i] <=> i # j
Altered(q, p, k) == k \in 1..31 /\ Len(q) = k /\ \E j \in 1..k : Differs(q, p, k, j)
\* It lacks one, of this frame or of the one before.
Short(q, k) == Len(q) >= 1 /\ Len(q) = (IF k = 0 THEN 31 ELSE k - 1)
\* It has missed the start, and has taken another 0x20 for it at most.
Astray(q, p, k) == /\ q = <<>> => k >= 1
                   /\ Len(q) = 1 => k >= 2 /\ Frame(p)[k] = 32
                   /\ Len(q) >= 2 => q[2] # 64
Place(q, p, k) == Along(q, p, k) \/ Altered(q, p, k) \/ Short(q, k) \/ Astray(q, p, k)

\* Neither parser accepts a frame with one byte changed, be it of the header, the
\* channels or the checksum, ...
THEOREM AlteredFails ==
    ASSUME NEW p \in Channels, NEW r, \A i \in 1..32 : r[i] \in Bytes,
           NEW j \in 1..32, Differs(r, p, 32, j)
    PROVE  ~CAccepts(r) /\ ~CppAccepts(r) /\ ~Accepts(r)
<1> SUFFICES ASSUME ChecksumOk(r) PROVE FALSE
    BY DEF CAccepts, CppAccepts, Accepts
<1>1. \A i \in 1..32 : r[i] \in Bytes /\ Frame(p)[i] \in Bytes
    BY FrameIs, ElementOfSeq
<1>2. \A i \in 1..30 : i \in 1..32
    OBVIOUS
<1>3. \A i \in 1..30 : r[i] \in Bytes /\ Frame(p)[i] \in Bytes
    BY <1>1, <1>2
<1>4. Checksum(r) = r[31] + 256 * r[32] /\ Checksum(Frame(p)) = Frame(p)[31] + 256 * Frame(p)[32]
    BY FrameIs DEF ChecksumOk
<1>5. 31 \in 1..32 /\ 32 \in 1..32
    OBVIOUS
<1>6. CASE j \in 1..30
    <2>1. \A i \in 1..30 : r[i] = Frame(p)[i] <=> i # j
        BY <1>2 DEF Differs
    <2>2. Checksum(r) # Checksum(Frame(p))
        BY <1>3, <1>6, <2>1, ChecksumTells, Zenon
    <2>3. 31 # j /\ 32 # j
        BY <1>6
    <2>4. r[31] = Frame(p)[31] /\ r[32] = Frame(p)[32]
        BY <1>5, <2>3 DEF Differs
    <2> QED BY <1>4, <2>2, <2>4
<1>7. CASE j \notin 1..30
    <2>1. \A i \in 1..30 : i # j
        BY <1>7
    <2>2. \A i \in 1..30 : r[i] = Frame(p)[i]
        BY <1>2, <2>1 DEF Differs
    <2>3. Checksum(r) = Checksum(Frame(p))
        BY <1>3, <2>2, ChecksumTells
    <2>4. r[31] \in Nat /\ r[32] \in Nat /\ Frame(p)[31] \in Nat /\ Frame(p)[32] \in Nat
        BY <1>1, <1>5, ByteIs
    <2>5. r[31] + 256 * r[32] = Frame(p)[31] + 256 * Frame(p)[32]
        BY <1>4, <2>3
    <2>6. CASE j = 31
        <3>1. r[31] # Frame(p)[31] /\ r[32] = Frame(p)[32]
            BY <1>5, <2>6 DEF Differs
        <3> QED BY <2>4, <2>5, <3>1
    <2>7. CASE j = 32
        <3>1. r[31] = Frame(p)[31] /\ r[32] # Frame(p)[32]
            BY <1>5, <2>7 DEF Differs
        <3> QED BY <2>4, <2>5, <3>1
    <2> QED BY <1>7, <2>6, <2>7
<1> QED BY <1>6, <1>7

\* ... or with the first byte of the next frame for its last.
LEMMA ShortFails ==
    ASSUME NEW r, \A i \in 1..32 : r[i] \in Bytes, r[32] = 32
    PROVE  ~Accepts(r)
<1>1. \A i \in 1..32 : r[i] \in Bytes
    OBVIOUS
<1>2. \A i \in 1..30 : i \in 1..32
    OBVIOUS
<1>3. \A i \in 1..30 : r[i] \in Bytes
    BY <1>1, <1>2
<1>4. Checksum(r) \in Nat /\ 57885 <= Checksum(r) /\ Checksum(r) <= 65535
    BY <1>3, ChecksumHigh
<1>5. 31 \in 1..32
    OBVIOUS
<1>6. r[31] \in Bytes
    BY <1>1, <1>5
<1>7. r[31] \in Nat /\ r[31] <= 255
    BY <1>6, ByteIs
<1>8. r[31] + 256 * r[32] < 57885
    BY <1>7
<1> QED BY <1>4, <1>8 DEF Accepts, ChecksumOk

\* An unchanged byte leaves it in one of these places, and what it then accepts
\* is the frame.
LEMMA PlaceKept ==
    ASSUME NEW p \in Channels, SticksOf(p), NEW k \in 0..31, NEW q \in Collected, Place(q, p, k),
           NEW r, Collects(q, Frame(p)[k + 1], r)
    PROVE  Place(After(r), p, k + 1) /\ (Accepts(r) => k = 31 /\ Decode(r) = p)
<1> DEFINE b == Frame(p)[k + 1]
<1>0. k + 1 \in 1..32 /\ (k + 1 = 32 <=> k = 31) /\ k + 1 >= 1 /\ k \in Nat
    OBVIOUS
<1>1. b \in Bytes
    BY <1>0, FrameIs, ElementOfSeq
<1>2. (k = 0 => b = 32) /\ (k = 1 => b = 64)
    BY FrameIs
<1> HIDE DEF b
<1>3. q \in Seq(Bytes) /\ Len(q) \in Nat /\ Len(q) <= 31 /\ (Len(q) = 0 <=> q = <<>>)
    BY DEF Collected
<1>c. Collects(q, b, r)
    BY DEF b
<1>4. /\ r \in Seq(Bytes)
      /\ \/ r = <<>>
         \/ r = Append(q, b) /\ Len(r) = Len(q) + 1 /\ r[Len(q) + 1] = b /\ \A i \in 1..Len(q) : r[i] = q[i]
    BY <1>1, <1>c, CollectsIs
<1>5. \A i \in 1..Len(r) : r[i] \in Bytes
    BY <1>4, ElementOfSeq
<1>6. Len(<<>>) = 0 /\ 0 # 32 /\ After(<<>>) = <<>> /\ ~Accepts(<<>>)
    BY DEF After, Accepts
<1>7. CASE Along(q, p, k)
    <2>1. InStep(q, p, k)
        BY <1>7 DEF Along
    <2>2. r # <<>> /\ InStep(r, p, k + 1) /\ (k < 31 => After(r) = r) /\ (k = 31 => After(r) = <<>>)
        BY <2>1, StaysInStep
    <2>3. Along(After(r), p, k + 1)
        BY <1>0, <2>2 DEF Along
    <2>4. ASSUME Accepts(r)
          PROVE  k = 31 /\ Decode(r) = p
        <3>1. k = 31
            BY <1>0, <2>2, <2>4 DEF Accepts, InStep
        <3>2. InStep(r, p, 32)
            BY <2>2, <3>1
        <3> QED BY <1>4, <3>1, <3>2, WholeFrame
    <2> QED BY <2>3, <2>4 DEF Place
<1>8. CASE Altered(q, p, k)
    <2>1. PICK j \in 1..k : Differs(q, p, k, j)
        BY <1>8 DEF Altered
    <2>2. k \in 1..31 /\ Len(q) = k
        BY <1>8 DEF Altered
    <2>3. r # <<>>
        BY <1>2, <1>3, <1>c, <1>4, <2>2 DEF Collects
    <2>4. Len(r) = k + 1 /\ r[k + 1] = b /\ \A i \in 1..k : r[i] = q[i]
        BY <1>4, <2>2, <2>3
    <2>5. Differs(r, p, k + 1, j)
        <3>1. ASSUME NEW i \in 1..k + 1
              PROVE  r[i] = Frame(p)[i] <=> i # j
            <4>1. CASE i = k + 1
                <5>1. i # j
                    BY <2>2, <4>1
                <5>2. r[i] = Frame(p)[i]
                    BY <2>4, <4>1 DEF b
                <5> QED BY <5>1, <5>2
            <4>2. CASE i # k + 1
                <5>1. i \in 1..k
                    BY <2>2, <4>2
                <5>2. r[i] = q[i] /\ (q[i] = Frame(p)[i] <=> i # j)
                    BY <2>1, <2>4, <5>1 DEF Differs
                <5> QED BY <5>2
            <4> QED BY <4>1, <4>2
        <3> QED BY <3>1 DEF Differs
    <2>6. j \in 1..k + 1
        BY <2>2
    <2>7. CASE k < 31
        <3>1. After(r) = r /\ ~Accepts(r) /\ k + 1 \in 1..31
            BY <2>2, <2>4, <2>7 DEF After, Accepts
        <3>2. Altered(After(r), p, k + 1)
            BY <2>4, <2>5, <2>6, <3>1 DEF Altered
        <3> QED BY <3>1, <3>2 DEF Place
    <2>8. CASE k = 31
        <3>1. After(r) = <<>> /\ Len(r) = 32
            BY <2>4, <2>8 DEF After
        <3>2. j \in 1..32 /\ Differs(r, p, 32, j)
            BY <2>5, <2>6, <2>8
        <3>3. ~Accepts(r)
            BY <1>5, <3>1, <3>2, AlteredFails
        <3>4. Along(After(r), p, k + 1)
            BY <1>0, <2>8, <3>1 DEF Along
        <3> QED BY <3>3, <3>4 DEF Place
    <2> QED BY <2>2, <2>7, <2>8
<1>9. CASE Short(q, k)
    <2>1. CASE k = 0
        <3>1. Len(q) = 31 /\ q # <<>>
            BY <1>3, <1>9, <2>1 DEF Short
        <3>2. r # <<>>
            BY <1>3, <1>4, <1>c, <3>1 DEF Collects
        <3>3. Len(r) = 32 /\ r[32] = 32
            <4>1. Len(q) + 1 = 32
                BY <3>1
            <4> QED BY <1>2, <1>4, <2>1, <3>2, <4>1
        <3>4. After(r) = <<>> /\ ~Accepts(r)
            BY <1>5, <3>3, ShortFails DEF After
        <3>5. Astray(<<>>, p, k + 1)
            BY <1>0, <1>6 DEF Astray
        <3> QED BY <3>4, <3>5 DEF Place
    <2>2. CASE k # 0
        <3>1. Len(q) = k - 1 /\ Len(q) >= 1
            BY <2>2, <1>9 DEF Short
        <3>2. CASE r = <<>>
            <4>1. Astray(<<>>, p, k + 1)
                BY <1>0, <1>6 DEF Astray
            <4> QED BY <1>6, <3>2, <4>1 DEF Place
        <3>3. CASE r # <<>>
            <4>1. Len(r) = k /\ k >= 1
                BY <1>0, <1>4, <3>1, <3>3
            <4>2. After(r) = r /\ ~Accepts(r)
                BY <1>0, <4>1 DEF After, Accepts
            <4>3. Short(r, k + 1)
                BY <1>0, <4>1 DEF Short
            <4> QED BY <4>2, <4>3 DEF Place
        <3> QED BY <3>2, <3>3
    <2> QED BY <2>1, <2>2
<1>10. CASE Astray(q, p, k)
    <2>1. CASE r = <<>>
        <3>1. Astray(<<>>, p, k + 1)
            BY <1>0, <1>6 DEF Astray
        <3> QED BY <1>6, <2>1, <3>1 DEF Place
    <2>2. CASE r # <<>>
        <3>0. /\ Len(r) = Len(q) + 1 /\ r[Len(q) + 1] = b /\ \A i \in 1..Len(q) : r[i] = q[i]
              /\ ~(q = <<>> /\ b # 32)
            BY <1>4, <1>c, <2>2 DEF Collects
        <3>1. CASE Len(q) = 0
            <4>1. k >= 1 /\ b = 32 /\ Len(r) = 1
                BY <1>3, <1>10, <3>0, <3>1 DEF Astray
            <4>2. After(r) = r /\ ~Accepts(r)
                BY <4>1 DEF After, Accepts
            <4>3. Frame(p)[k + 1] = 32 /\ k + 1 >= 2
                BY <1>0, <4>1 DEF b
            <4>4. Astray(r, p, k + 1)
                BY <2>2, <4>1, <4>3 DEF Astray
            <4> QED BY <4>2, <4>4 DEF Place
        <3>2. CASE Len(q) = 1
            <4>1. k \in 2..31 /\ Frame(p)[k] = 32
                BY <1>10, <3>2 DEF Astray
            <4>2. b # 64
                BY <4>1, NoHeader DEF b
            <4>3. Len(r) = 2 /\ r[2] # 64
                BY <3>0, <3>2, <4>2
            <4>4. After(r) = r /\ ~Accepts(r)
                BY <4>3 DEF After, Accepts
            <4>5. Astray(r, p, k + 1)
                BY <2>2, <4>3 DEF Astray
            <4> QED BY <4>4, <4>5 DEF Place
        <3>3. CASE Len(q) >= 2
            <4>1. q[2] # 64
                BY <1>10, <3>3 DEF Astray
            <4>2. 2 \in 1..Len(q)
                BY <1>3, <3>3
            <4>3. r[2] # 64 /\ Len(r) >= 2 /\ Len(r) # 1
                BY <1>3, <3>0, <3>3, <4>1, <4>2
            <4>4. ~Accepts(r)
                BY <4>3 DEF Accepts
            <4>5. Astray(r, p, k + 1)
                BY <2>2, <4>3 DEF Astray
            <4>6. Astray(<<>>, p, k + 1)
                BY <1>0, <1>6 DEF Astray
            <4> QED BY <4>4, <4>5, <4>6 DEF Place, After
        <3>4. \A n \in Nat : n = 0 \/ n = 1 \/ n >= 2
            OBVIOUS
        <3> QED BY <1>3, <3>1, <3>2, <3>3, <3>4, Zenon
    <2> QED BY <2>1, <2>2
<1> QED BY <1>7, <1>8, <1>9, <1>10 DEF Place

\* So does a changed byte of a parser in step, ...
LEMMA PlaceChanged ==
    ASSUME NEW p \in Channels, NEW k \in 0..31, NEW q \in Collected, Along(q, p, k),
           NEW b \in Bytes, b # Frame(p)[k + 1], NEW r, Collects(q, b, r)
    PROVE  Place(After(r), p, k + 1) /\ ~Accepts(r)
<1>0. k + 1 \in 1..32 /\ (k + 1 = 32 <=> k = 31) /\ k + 1 >= 1 /\ k \in Nat
    OBVIOUS
<1>1. q \in Seq(Bytes) /\ Len(q) = k /\ \A i \in 1..k : q[i] = Frame(p)[i]
    BY DEF Along, InStep, Collected
<1>2. /\ r \in Seq(Bytes)
      /\ \/ r = <<>>
         \/ Len(r) = Len(q) + 1 /\ r[Len(q) + 1] = b /\ \A i \in 1..Len(q) : r[i] = q[i]
    BY CollectsIs
<1>3. Len(<<>>) = 0 /\ After(<<>>) = <<>> /\ ~Accepts(<<>>)
    BY DEF After, Accepts
<1>4. CASE r = <<>>
    <2>1. Astray(<<>>, p, k + 1)
        BY <1>0, <1>3 DEF Astray
    <2> QED BY <1>3, <1>4, <2>1 DEF Place
<1>5. CASE r # <<>>
    <2>1. Len(r) = k + 1 /\ r[k + 1] = b /\ \A i \in 1..k : r[i] = q[i]
        BY <1>1, <1>2, <1>5
    <2>2. Differs(r, p, k + 1, k + 1)
        <3>1. ASSUME NEW i \in 1..k + 1
              PROVE  r[i] = Frame(p)[i] <=> i # k + 1
            <4>1. CASE i = k + 1
                BY <2>1, <4>1
            <4>2. CASE i # k + 1
                <5>1. i \in 1..k
                    BY <1>0, <4>2
                <5> QED BY <1>1, <2>1, <4>2, <5>1
            <4> QED BY <4>1, <4>2
        <3> QED BY <3>1 DEF Differs
    <2>3. CASE k < 31
        <3>1. After(r) = r /\ ~Accepts(r) /\ k + 1 \in 1..31 /\ k + 1 \in 1..k + 1
            BY <1>0, <2>1, <2>3 DEF After, Accepts
        <3>2. Altered(After(r), p, k + 1)
            BY <2>1, <2>2, <3>1 DEF Altered
        <3> QED BY <3>1, <3>2 DEF Place
    <2>4. CASE k = 31
        <3>1. After(r) = <<>> /\ Len(r) = 32
            BY <2>1, <2>4 DEF After
        <3>2. 32 \in 1..32 /\ Differs(r, p, 32, 32)
            BY <2>2, <2>4
        <3>3. \A i \in 1..32 : r[i] \in Bytes
            BY <1>2, <3>1, ElementOfSeq
        <3>4. ~Accepts(r)
            BY <3>2, <3>3, AlteredFails
        <3>5. Along(After(r), p, k + 1)
            BY <1>0, <2>4, <3>1 DEF Along
        <3> QED BY <3>4, <3>5 DEF Place
    <2> QED BY <2>3, <2>4
<1> QED BY <1>4, <1>5

\* ... and a lost one, ...
LEMMA PlaceLost ==
    ASSUME NEW p \in Channels, NEW k \in 0..31, NEW q \in Collected, Along(q, p, k)
    PROVE  Place(q, p, k + 1)
<1>1. q \in Seq(Bytes) /\ Len(q) = k
    BY DEF Along, InStep, Collected
<1>2. CASE k = 0
    <2>1. q = <<>> /\ k + 1 >= 1 /\ Len(<<>>) = 0
        BY <1>1, <1>2
    <2> QED BY <2>1 DEF Place, Astray
<1>3. CASE k # 0
    <2>1. Short(q, k + 1)
        BY <1>1, <1>3 DEF Short
    <2> QED BY <2>1 DEF Place
<1> QED BY <1>2, <1>3

\* ... and the end of the frame is the start of the next.
LEMMA PlaceNext ==
    ASSUME NEW p \in Channels, NEW p2, NEW q \in Collected, Place(q, p, 32)
    PROVE  Place(q, p2, 0)
<1>1. q \in Seq(Bytes) /\ Len(q) \in Nat /\ (q = <<>> <=> Len(q) = 0)
    BY DEF Collected
<1>2. CASE q = <<>>
    BY <1>1, <1>2 DEF Place, Along, InStep
<1>3. CASE q # <<>> /\ Short(q, 32)
    <2>1. Short(q, 0)
        BY <1>3 DEF Short
    <2> QED BY <2>1 DEF Place
<1>4. CASE q # <<>> /\ Astray(q, p, 32)
    <2>1. Frame(p)[32] # 32
        <3>1. Frame(p)[32] \in Nat /\ 226 <= Frame(p)[32]
            BY FrameIs
        <3> QED BY <3>1
    <2>2. Astray(q, p2, 0)
        BY <1>1, <1>4, <2>1 DEF Astray
    <2> QED BY <2>2 DEF Place
<1>5. ~Altered(q, p, 32)
    BY DEF Altered
<1> QED BY <1>2, <1>3, <1>4, <1>5 DEF Place, Along

\* A parser in step stays in step with the bytes that are sent.
LEMMA AlongKept ==
    ASSUME NEW p \in Channels, NEW k \in 0..31, NEW q \in Collected, Along(q, p, k),
           NEW r, Collects(q, Frame(p)[k + 1], r)
    PROVE  Along(After(r), p, k + 1) /\ (k = 31 => Accepts(r))
<1>1. InStep(q, p, k)
    BY DEF Along
<1>2. r # <<>> /\ InStep(r, p, k + 1) /\ (k < 31 => After(r) = r) /\ (k = 31 => After(r) = <<>>)
    BY <1>1, StaysInStep
<1>3. r \in Seq(Bytes)
    <2>1. k + 1 \in 1..32
        OBVIOUS
    <2>2. Frame(p)[k + 1] \in Bytes
        BY <2>1, FrameIs, ElementOfSeq
    <2> QED BY <2>2, CollectsIs
<1>4. Along(After(r), p, k + 1)
    <2>1. k < 31 \/ k = 31
        OBVIOUS
    <2>2. k < 31 => k + 1 # 32
        OBVIOUS
    <2>3. k = 31 => k + 1 = 32
        OBVIOUS
    <2> QED BY <1>2, <2>1, <2>2, <2>3 DEF Along
<1>5. k = 31 => Accepts(r)
    <2>1. k = 31 => InStep(r, p, 32)
        BY <1>2
    <2> QED BY <1>3, <2>1, WholeFrame
<1> QED BY <1>4, <1>5
-----------------------------------------------------------------------------
(* The wire and the parsers.                                               *)

\* The receiver is At bytes into the frame.
At == 32 - Len(sending)
Header(q) == (Len(q) >= 1 => q[1] = 32) /\ (Len(q) >= 2 => q[2] = 64)

\* What is left to send is the rest of the frame of payload, and pushByte has
\* collected nothing but what starts as a frame does.
WireOk ==
    /\ payload \in Payloads /\ sending \in Seq(Bytes) /\ Len(sending) <= 32
    /\ \A i \in 1..Len(sending) : sending[i] = Frame(payload)[At + i]
    /\ intact \in BOOLEAN /\ c_good \in BOOLEAN /\ cpp_good \in BOOLEAN
    /\ frame \in Collected /\ index_frame \in Collected /\ Header(index_frame)
    /\ lost \in Nat /\ changed \in Nat /\ c_missed \in Nat /\ cpp_missed \in Nat

LEMMA PayloadIs == \A p \in Payloads : p \in Channels /\ Frames[p] = Frame(p)
BY IbusParserAssumption DEF Frames

LEMMA NoiseIs == \A b \in Noise : b \in Bytes
BY IbusParserAssumption DEF Bytes

\* The next byte comes off the wire.
LEMMA Reads ==
    ASSUME WireOk, sending # <<>>, sending' = Tail(sending)
    PROVE  /\ At \in 0..31 /\ At' = At + 1
           /\ Head(sending) = Frame(payload)[At + 1] /\ Head(sending) \in Bytes
           /\ sending' \in Seq(Bytes) /\ Len(sending') <= 32
           /\ \A i \in 1..Len(sending') : sending'[i] = Frame(payload)[At' + i]
<1>1. sending \in Seq(Bytes) /\ Len(sending) \in Nat /\ 1 <= Len(sending) /\ Len(sending) <= 32
    <2>1. sending \in Seq(Bytes) /\ Len(sending) <= 32
        BY DEF WireOk
    <2>2. Len(sending) \in Nat /\ Len(sending) # 0
        BY <2>1, EmptySeq
    <2> QED BY <2>1, <2>2
<1>2. /\ sending' \in Seq(Bytes) /\ Len(sending') = Len(sending) - 1
      /\ \A i \in 1..Len(sending') : sending'[i] = sending[i + 1]
      /\ Head(sending) = sending[1]
    BY <1>1, HeadTailProperties
<1>3. At \in 0..31 /\ At' = At + 1
    <2>1. At = 32 - Len(sending) /\ At' = 32 - Len(sending')
        BY DEF At
    <2>2. Len(sending') = Len(sending) - 1
        BY <1>2
    <2>3. \A n \in Nat : 1 <= n /\ n <= 32 => 32 - n \in 0..31 /\ 32 - (n - 1) = (32 - n) + 1
        OBVIOUS
    <2> QED BY <1>1, <2>1, <2>2, <2>3, Zenon
<1>4. Head(sending) = Frame(payload)[At + 1] /\ Head(sending) \in Bytes
    <2>1. 1 \in 1..Len(sending)
        BY <1>1
    <2> QED BY <1>1, <1>2, <2>1, ElementOfSeq DEF WireOk
<1>5. ASSUME NEW i \in 1..Len(sending')
      PROVE  sending'[i] = Frame(payload)[At' + i]
    <2>1. i + 1 \in 1..Len(sending)
        BY <1>1, <1>2
    <2>2. At + (i + 1) = At' + i
        BY <1>3
    <2> QED BY <1>2, <2>1, <2>2 DEF WireOk
<1>6. Len(sending') <= 32
    <2>1. Len(sending') = Len(sending) - 1
        BY <1>2
    <2> QED BY <1>1, <2>1
<1> QED BY <1>2, <1>3, <1>4, <1>5, <1>6

\* A byte reaches the parsers.
LEMMA ArriveIs ==
    ASSUME WireOk, NEW b \in Bytes, Arrive(b)
    PROVE  /\ Collects(frame, b, CCollect(frame, b)) /\ frame' = After(CCollect(frame, b))
           /\ c_good' \in BOOLEAN
           /\ c_good' => Accepts(CCollect(frame, b)) /\ ch' = Decode(CCollect(frame, b))
           /\ Accepts(CCollect(frame, b)) => c_good'
<1> DEFINE r == CCollect(frame, b)
<1>1. Collects(frame, b, r)
    BY DEF CCollect, Collects, IBUS_FRAME_SIZE
<1> HIDE DEF r
<1>2. frame' = After(r) /\ c_good' = (Len(r) = 32 /\ CAccepts(r)) /\ (c_good' => ch' = Decode(r))
    BY DEF Arrive, After, IBUS_FRAME_SIZE, r
<1>3. c_good' = Accepts(r)
    BY <1>2, Zenon DEF Accepts, CAccepts, IBUS_FRAME_SIZE, IBUS_CMD
<1>4. Accepts(r) \in BOOLEAN
    BY DEF Accepts, ChecksumOk
<1> QED BY <1>1, <1>2, <1>3, <1>4, Zenon DEF r

LEMMA ArriveCppIs ==
    ASSUME WireOk, NEW b \in Bytes, Arrive(b)
    PROVE  /\ Collects(index_frame, b, CppCollect(index_frame, b)) 
           /\ index_frame' = After(CppCollect(index_frame, b))
           /\ Header(index_frame') /\ cpp_good' \in BOOLEAN
           /\ cpp_good' => /\ Accepts(CppCollect(index_frame, b))
                           /\ channels' = Decode(CppCollect(index_frame, b))
           /\ Accepts(CppCollect(index_frame, b)) => cpp_good'
<1> DEFINE q == index_frame
           r == CppCollect(index_frame, b)
<1>0. q \in Collected /\ Header(q)
    BY DEF WireOk
<1>1. Collects(q, b, r) /\ (r = <<>> \/ (q = <<>> /\ b = 32) \/ (q # <<>> /\ ~(Len(q) = 1 /\ b # 64)))
    BY DEF CppCollect, Collects, IBUS_FRAME_SIZE, IBUS_CMD
<1>2. /\ index_frame' = After(r) /\ cpp_good' = (Len(r) = 32 /\ CppAccepts(r))
      /\ cpp_good' => channels' = Decode(r)
    BY DEF Arrive, After, IBUS_FRAME_SIZE
<1> HIDE DEF q, r
<1>3. /\ r \in Seq(Bytes)
      /\ \/ r = <<>>
         \/ Len(r) = Len(q) + 1 /\ r[Len(q) + 1] = b /\ \A i \in 1..Len(q) : r[i] = q[i]
    BY <1>0, <1>1, CollectsIs
<1>4. Len(q) \in Nat /\ (q = <<>> <=> Len(q) = 0)
    BY <1>0 DEF Collected
<1>5. Header(<<>>)
    BY DEF Header
<1>6. Header(r)
    <2>1. CASE r = <<>>
        BY <1>5, <2>1
    <2>2. CASE r # <<>> /\ Len(q) = 0
        BY <1>1, <1>3, <1>4, <2>2 DEF Header
    <2>3. CASE r # <<>> /\ Len(q) = 1
        <3>1. Len(r) = 2 /\ r[2] = b /\ r[1] = q[1] /\ b = 64 /\ q[1] = 32
            BY <1>0, <1>1, <1>3, <1>4, <2>3 DEF Header
        <3> QED BY <3>1 DEF Header
    <2>4. CASE r # <<>> /\ Len(q) >= 2
        <3>1. 1 \in 1..Len(q) /\ 2 \in 1..Len(q)
            BY <1>4, <2>4
        <3>2. r[1] = q[1] /\ r[2] = q[2]
            BY <1>3, <2>4, <3>1
        <3> QED BY <1>0, <2>4, <3>2 DEF Header
    <2>5. \A n \in Nat : n = 0 \/ n = 1 \/ n >= 2
        OBVIOUS
    <2> QED BY <1>4, <2>1, <2>2, <2>3, <2>4, <2>5, Zenon
<1>7. Len(r) = 32 => r[1] = 32 /\ r[2] = 64
    BY <1>6 DEF Header
<1>8. cpp_good' = Accepts(r)
    <2>1. Accepts(r) <=> Len(r) = 32 /\ CppAccepts(r)
        BY <1>7 DEF Accepts, CppAccepts
    <2> QED BY <1>2, <2>1, Zenon DEF Accepts, CppAccepts
<1>9. Accepts(r) \in BOOLEAN
    BY DEF Accepts, ChecksumOk
<1>10. Header(index_frame')
    BY <1>2, <1>5, <1>6 DEF After
<1> QED BY <1>1, <1>2, <1>8, <1>9, <1>10, Zenon DEF q, r

LEMMA WireInit == Init => WireOk /\ At = 0 /\ frame = <<>> /\ index_frame = <<>>
<1> SUFFICES ASSUME Init PROVE WireOk /\ At = 0 /\ frame = <<>> /\ index_frame = <<>>
    OBVIOUS
<1>1. payload \in Payloads /\ sending = Frame(payload)
    BY PayloadIs DEF Init
<1>2. sending \in Seq(Bytes) /\ Len(sending) = 32
    BY <1>1, PayloadIs, FrameIs
<1>3. At = 0
    BY <1>2 DEF At
<1>4. \A i \in 1..Len(sending) : sending[i] = Frame(payload)[At + i]
    BY <1>1, <1>2, <1>3
<1>5. <<>> \in Collected /\ Header(<<>>)
    BY DEF Collected, Header
<1>6. /\ intact \in BOOLEAN /\ c_good \in BOOLEAN /\ cpp_good \in BOOLEAN
      /\ lost \in Nat /\ changed \in Nat /\ c_missed \in Nat /\ cpp_missed \in Nat
      /\ frame = <<>> /\ index_frame = <<>>
    BY DEF Init
<1>7. Len(sending) <= 32
    BY <1>2
<1> QED BY <1>1, <1>2, <1>3, <1>4, <1>5, <1>6, <1>7, Zenon DEF WireOk

LEMMA WireNext ==
    ASSUME WireOk, [Next]_vars
    PROVE  WireOk'
<1>1. ASSUME NEW b \in Bytes, Arrive(b)
      PROVE  /\ frame' \in Collected /\ index_frame' \in Collected /\ Header(index_frame')
             /\ c_good' \in BOOLEAN /\ cpp_good' \in BOOLEAN
    <2>1. frame \in Collected /\ index_frame \in Collected
        BY DEF WireOk
    <2>2. After(CCollect(frame, b)) \in Collected
        BY <1>1, <2>1, ArriveIs, CollectsIs
    <2>3. After(CppCollect(index_frame, b)) \in Collected
        BY <1>1, <2>1, ArriveCppIs, CollectsIs
    <2> QED BY <1>1, <2>2, <2>3, ArriveIs, ArriveCppIs
<1>2. ASSUME sending # <<>>, sending' = Tail(sending), payload' = payload
      PROVE  /\ payload' \in Payloads /\ sending' \in Seq(Bytes) /\ Len(sending') <= 32
             /\ \A i \in 1..Len(sending') : sending'[i] = Frame(payload')[At' + i]
    <2>1. payload \in Payloads
        BY DEF WireOk
    <2> QED BY <1>2, <2>1, Reads, Zenon
<1>3. CASE Deliver
    <2>1. /\ sending # <<>> /\ sending' = Tail(sending) /\ Arrive(Head(sending))
          /\ UNCHANGED <<payload, intact, lost, changed, c_missed, cpp_missed>>
        BY <1>3 DEF Deliver
    <2>2. Head(sending) \in Bytes
        BY <2>1, Reads
    <2> QED BY <1>1, <1>2, <2>1, <2>2 DEF WireOk
<1>4. CASE Lose
    <2>1. /\ sending # <<>> /\ sending' = Tail(sending) /\ intact' = FALSE /\ lost' = lost + 1
          /\ c_good' = FALSE /\ cpp_good' = FALSE
          /\ UNCHANGED <<payload, frame, index_frame, changed, c_missed, cpp_missed>>
        BY <1>4 DEF Lose
    <2>2. lost' \in Nat
        BY <2>1 DEF WireOk
    <2> QED BY <1>2, <2>1, <2>2 DEF WireOk
<1>5. ASSUME NEW b \in Noise, Change(b)
      PROVE  WireOk'
    <2>1. /\ sending # <<>> /\ sending' = Tail(sending) /\ Arrive(b) /\ intact' = FALSE
          /\ changed' = changed + 1
          /\ UNCHANGED <<payload, lost, c_missed, cpp_missed>>
        BY <1>5 DEF Change
    <2>2. changed' \in Nat
        BY <2>1 DEF WireOk
    <2>3. b \in Bytes
        BY NoiseIs
    <2> QED BY <1>1, <1>2, <2>1, <2>2, <2>3 DEF WireOk
<1>6. ASSUME NEW p \in Payloads, NextFrame(p)
      PROVE  WireOk'
    <2>1. /\ payload' = p /\ sending' = Frame(p) /\ intact' = TRUE /\ c_good' = FALSE /\ cpp_good' = FALSE
          /\ c_missed' \in {c_missed + 1, 0} /\ cpp_missed' \in {cpp_missed + 1, 0}
          /\ UNCHANGED <<frame, index_frame, lost, changed>>
        BY <1>6, PayloadIs DEF NextFrame
    <2>2. sending' \in Seq(Bytes) /\ Len(sending') = 32
        BY <2>1, PayloadIs, FrameIs
    <2>3. At' = 0
        BY <2>2 DEF At
    <2>4. \A i \in 1..Len(sending') : sending'[i] = Frame(payload')[At' + i]
        BY <2>1, <2>2, <2>3
    <2>5. c_missed' \in Nat /\ cpp_missed' \in Nat
        BY <2>1 DEF WireOk
    <2>6. intact' \in BOOLEAN /\ c_good' \in BOOLEAN /\ cpp_good' \in BOOLEAN
        BY <2>1
    <2>9. Len(sending') <= 32
        BY <2>2
    <2>7. /\ frame' \in Collected /\ index_frame' \in Collected /\ Header(index_frame')
          /\ lost' \in Nat /\ changed' \in Nat
        BY <2>1 DEF WireOk
    <2>8. payload' \in Payloads
        BY <2>1
    <2> QED BY <2>2, <2>4, <2>5, <2>6, <2>7, <2>8, <2>9, Zenon DEF WireOk
<1>7. CASE UNCHANGED vars
    BY <1>7 DEF WireOk, At, vars
<1> QED BY <1>3, <1>4, <1>5, <1>6, <1>7 DEF Next

\* From one frame to the next.
LEMMA NextFrameIs ==
    ASSUME WireOk, NEW p \in Payloads, NextFrame(p)
    PROVE  At = 32 /\ At' = 0 /\ payload' = p /\ frame' = frame /\ index_frame' = index_frame
<1>1. sending = <<>> /\ sending' = Frame(p) /\ payload' = p /\ frame' = frame /\ index_frame' = index_frame
    BY PayloadIs DEF NextFrame
<1>2. Len(sending) = 0 /\ Len(sending') = 32
    BY <1>1, PayloadIs, FrameIs
<1> QED BY <1>1, <1>2 DEF At
-----------------------------------------------------------------------------
(* What is accepted is what was sent.                                      *)

\* With one byte lost or changed, both parsers are in one of the places above, and
\* in step as long as nothing has happened.
SentInv ==
    lost + changed <= 1 =>
        /\ Place(frame, payload, At) /\ Place(index_frame, payload, At)
        /\ lost + changed = 0 => Along(frame, payload, At) /\ Along(index_frame, payload, At)
        /\ c_good => At = 32 /\ ch = payload
        /\ cpp_good => At = 32 /\ channels = payload

LEMMA SentInit == Init => SentInv
<1> SUFFICES ASSUME Init PROVE SentInv
    OBVIOUS
<1>1. At = 0 /\ frame = <<>> /\ index_frame = <<>>
    BY WireInit
<1>2. Along(<<>>, payload, 0)
    BY DEF Along, InStep
<1> QED BY <1>1, <1>2 DEF SentInv, Place, Init

LEMMA SentNext ==
    ASSUME Sticks, WireOk, SentInv, [Next]_vars
    PROVE  SentInv'
<1>1. /\ payload \in Channels /\ SticksOf(payload) /\ frame \in Collected /\ index_frame \in Collected
      /\ lost \in Nat /\ changed \in Nat
    BY PayloadIs DEF WireOk, Sticks
<1>2. CASE Deliver
    <2>1. /\ sending # <<>> /\ sending' = Tail(sending) /\ Arrive(Head(sending))
          /\ payload' = payload /\ lost' = lost /\ changed' = changed
        BY <1>2 DEF Deliver
    <2>2. /\ At \in 0..31 /\ At' = At + 1
          /\ Head(sending) = Frame(payload)[At + 1] /\ Head(sending) \in Bytes
        BY <2>1, Reads
    <2> SUFFICES ASSUME lost + changed <= 1
                 PROVE  SentInv'
        BY <2>1 DEF SentInv
    <2> DEFINE c == CCollect(frame, Head(sending))
           d == CppCollect(index_frame, Head(sending))
    <2>4. /\ Collects(frame, Frame(payload)[At + 1], c) /\ frame' = After(c)
          /\ c_good' => Accepts(c) /\ ch' = Decode(c)
        BY <2>1, <2>2, ArriveIs
    <2>5. /\ Collects(index_frame, Frame(payload)[At + 1], d) /\ index_frame' = After(d)
          /\ cpp_good' => Accepts(d) /\ channels' = Decode(d)
        BY <2>1, <2>2, ArriveCppIs
    <2> HIDE DEF c, d
    <2>6. Place(frame', payload, At + 1) /\ (Accepts(c) => At = 31 /\ Decode(c) = payload)
        BY <1>1, <2>2, <2>4, PlaceKept DEF SentInv
    <2>7. Place(index_frame', payload, At + 1) /\ (Accepts(d) => At = 31 /\ Decode(d) = payload)
        BY <1>1, <2>2, <2>5, PlaceKept DEF SentInv
    <2>8. ASSUME lost + changed = 0
          PROVE  Along(frame', payload, At + 1) /\ Along(index_frame', payload, At + 1)
        BY <1>1, <2>2, <2>4, <2>5, <2>8, AlongKept DEF SentInv
    <2>9. At = 31 => At' = 32
        BY <2>2
    <2> QED BY <2>1, <2>2, <2>4, <2>5, <2>6, <2>7, <2>8, <2>9 DEF SentInv
<1>3. CASE Lose
    <2>1. /\ sending # <<>> /\ sending' = Tail(sending)
          /\ payload' = payload /\ lost' = lost + 1 /\ changed' = changed
          /\ frame' = frame /\ index_frame' = index_frame /\ c_good' = FALSE /\ cpp_good' = FALSE
        BY <1>3 DEF Lose
    <2>2. At \in 0..31 /\ At' = At + 1
        BY <2>1, Reads
    <2> SUFFICES ASSUME lost' + changed' <= 1
                 PROVE  SentInv'
        BY DEF SentInv
    <2>3. lost + changed = 0 /\ lost + changed <= 1 /\ lost' + changed' # 0
        BY <1>1, <2>1
    <2>4. Along(frame, payload, At) /\ Along(index_frame, payload, At)
        BY <2>3 DEF SentInv
    <2>5. Place(frame, payload, At + 1) /\ Place(index_frame, payload, At + 1)
        BY <1>1, <2>2, <2>4, PlaceLost
    <2> QED BY <2>1, <2>2, <2>3, <2>5 DEF SentInv
<1>4. ASSUME NEW b \in Noise, Change(b)
      PROVE  SentInv'
    <2>1. /\ sending # <<>> /\ sending' = Tail(sending) /\ Arrive(b) /\ b # Head(sending) /\ b \in Bytes
          /\ payload' = payload /\ lost' = lost /\ changed' = changed + 1
        BY <1>4, NoiseIs DEF Change
    <2>2. /\ At \in 0..31 /\ At' = At + 1 /\ b # Frame(payload)[At + 1]
        BY <2>1, Reads
    <2> SUFFICES ASSUME lost' + changed' <= 1
                 PROVE  SentInv'
        BY DEF SentInv
    <2>3. lost + changed = 0 /\ lost + changed <= 1 /\ lost' + changed' # 0
        BY <1>1, <2>1
    <2>4. Along(frame, payload, At) /\ Along(index_frame, payload, At)
        BY <2>3 DEF SentInv
    <2>5. Place(frame', payload, At + 1) /\ ~c_good'
        BY <1>1, <2>1, <2>2, <2>4, ArriveIs, PlaceChanged
    <2>6. Place(index_frame', payload, At + 1) /\ ~cpp_good'
        BY <1>1, <2>1, <2>2, <2>4, ArriveCppIs, PlaceChanged
    <2> QED BY <2>1, <2>2, <2>3, <2>5, <2>6 DEF SentInv
<1>5. ASSUME NEW p \in Payloads, NextFrame(p)
      PROVE  SentInv'
    <2>1. At = 32 /\ At' = 0 /\ payload' = p /\ frame' = frame /\ index_frame' = index_frame
        BY <1>5, NextFrameIs
    <2>2. c_good' = FALSE /\ cpp_good' = FALSE /\ lost' = lost /\ changed' = changed
        BY <1>5 DEF NextFrame
    <2> SUFFICES ASSUME lost + changed <= 1
                 PROVE  SentInv'
        BY <2>2 DEF SentInv
    <2>3. Place(frame, p, 0) /\ Place(index_frame, p, 0)
        BY <1>1, <2>1, PlaceNext DEF SentInv
    <2>4. ASSUME lost + changed = 0
          PROVE  Along(frame, p, 0) /\ Along(index_frame, p, 0)
        <3>1. frame = <<>> /\ index_frame = <<>>
            BY <2>1, <2>4 DEF SentInv, Along
        <3> QED BY <3>1 DEF Along, InStep
    <2> QED BY <2>1, <2>2, <2>3, <2>4 DEF SentInv
<1>6. CASE UNCHANGED vars
    BY <1>6 DEF SentInv, At, vars
<1> QED BY <1>2, <1>3, <1>4, <1>5, <1>6 DEF Next

\* A frame that a parser accepts is the one the receiver has just sent, whole: for
\* any sticks, and whichever one byte was lost or changed, to any other byte.  (Two
\* faults can make up for each other in the checksum.)
THEOREM NoForgedFrameHolds ==
    ASSUME Sticks
    PROVE  Spec => [](lost + changed <= 1 => NoForgedFrame)
<1>1. Init => WireOk /\ SentInv
    BY WireInit, SentInit
<1>2. WireOk /\ SentInv /\ [Next]_vars => (WireOk /\ SentInv)'
    BY WireNext, SentNext
<1>3. WireOk /\ SentInv => (lost + changed <= 1 => NoForgedFrame)
    <2> SUFFICES ASSUME WireOk, SentInv, lost + changed <= 1
                 PROVE  NoForgedFrame
        OBVIOUS
    <2>1. ASSUME At = 32
          PROVE  sending = <<>>
        <3>1. sending \in Seq(Bytes) /\ Len(sending) \in Nat
            BY DEF WireOk
        <3>2. Len(sending) = 0
            BY <2>1, <3>1 DEF At
        <3> QED BY <3>1, <3>2, EmptySeq
    <2> QED BY <2>1 DEF SentInv, NoForgedFrame
<1> QED BY <1>1, <1>2, <1>3, PTL DEF Spec
-----------------------------------------------------------------------------
(* The next frame is found again.                                          *)

\* In step with the frame on the wire, and with its end decoded.
OnFrame(q, good) == Along(q, payload, At) /\ (At = 32 => good)

\* Out of step in an intact frame.  A parser that has started too early is full in
\* the frame; then it waits for the next start.  In a frame of Plain that is the
\* next frame; pushByte may try a 0x20 of the frame, but drops it again.
LateC(q, k) == (q # <<>> /\ Len(q) > k) \/ (k >= 1 /\ q = <<>>)
LateCpp(q, p, k) == \/ (k = 0 \/ Len(q) >= 2) /\ Len(q) > k
                    \/ k >= 1 /\ Len(q) <= 1 /\ (Len(q) = 1 => k >= 2 /\ Frame(p)[k] = 32)

\* A parser in step goes on, and decodes the frame at its end.
LEMMA OnFrameKept ==
    ASSUME WireOk, Deliver
    PROVE  /\ OnFrame(frame, c_good) => OnFrame(frame, c_good)'
           /\ OnFrame(index_frame, cpp_good) => OnFrame(index_frame, cpp_good)'
<1>1. /\ sending # <<>> /\ sending' = Tail(sending) /\ Arrive(Head(sending)) /\ payload' = payload
    BY DEF Deliver
<1>2. /\ At \in 0..31 /\ At' = At + 1
      /\ Head(sending) = Frame(payload)[At + 1] /\ Head(sending) \in Bytes
    BY <1>1, Reads
<1>3. payload \in Channels /\ frame \in Collected /\ index_frame \in Collected
    BY PayloadIs DEF WireOk
<1>4. At' = 32 => At = 31
    BY <1>2
<1> DEFINE c == CCollect(frame, Head(sending))
           d == CppCollect(index_frame, Head(sending))
<1>5. Collects(frame, Frame(payload)[At + 1], c) /\ frame' = After(c) /\ (Accepts(c) => c_good')
    BY <1>1, <1>2, ArriveIs
<1>6. /\ Collects(index_frame, Frame(payload)[At + 1], d) /\ index_frame' = After(d)
      /\ Accepts(d) => cpp_good'
    BY <1>1, <1>2, ArriveCppIs
<1> HIDE DEF c, d
<1>7. Along(frame, payload, At) => Along(frame', payload, At + 1) /\ (At = 31 => Accepts(c))
    BY <1>2, <1>3, <1>5, AlongKept
<1>8. Along(index_frame, payload, At) => Along(index_frame', payload, At + 1) /\ (At = 31 => Accepts(d))
    BY <1>2, <1>3, <1>6, AlongKept
<1>9. OnFrame(frame, c_good) => OnFrame(frame, c_good)'
    BY <1>1, <1>2, <1>4, <1>5, <1>7 DEF OnFrame
<1>10. OnFrame(index_frame, cpp_good) => OnFrame(index_frame, cpp_good)'
    BY <1>1, <1>2, <1>4, <1>6, <1>8 DEF OnFrame
<1> QED BY <1>9, <1>10

\* A frame of Plain has no start but its own.
LEMMA PlainIs ==
    ASSUME NEW p \in Plain, NEW i \in 2..32
    PROVE  Frame(p)[i] # 32
BY PayloadIs DEF Plain, IBUS_FRAME_SIZE

LEMMA LateCKept ==
    ASSUME NEW p \in Plain, NEW k \in 0..31, NEW q \in Collected, LateC(q, k),
           NEW r, Collects(q, Frame(p)[k + 1], r)
    PROVE  LateC(After(r), k + 1)
<1> DEFINE b == Frame(p)[k + 1]
<1>1. p \in Channels /\ k + 1 \in 1..32 /\ k + 1 >= 1
    BY PayloadIs DEF Plain
<1>2. b \in Bytes
    BY <1>1, FrameIs, ElementOfSeq
<1>3. (k >= 1 => b # 32) /\ Collects(q, b, r)
    <2>1. k >= 1 => k + 1 \in 2..32
        OBVIOUS
    <2> QED BY <2>1, PlainIs
<1> HIDE DEF b
<1>4. Len(q) \in Nat
    BY DEF Collected
<1>5. r = <<>> \/ (r = Append(q, b) /\ Len(r) = Len(q) + 1)
    BY <1>2, <1>3, CollectsIs
<1>6. LateC(<<>>, k + 1) /\ After(<<>>) = <<>>
    BY <1>1 DEF LateC, After
<1>7. CASE r = <<>>
    BY <1>6, <1>7
<1>8. CASE r # <<>>
    <2>1. q # <<>> /\ Len(q) > k
        BY <1>3, <1>8 DEF LateC, Collects
    <2>2. Len(r) > k + 1
        BY <1>4, <1>5, <1>8, <2>1
    <2> QED BY <1>6, <1>8, <2>2 DEF LateC, After
<1> QED BY <1>7, <1>8

LEMMA LateCppKept ==
    ASSUME NEW p \in Channels, SticksOf(p), NEW k \in 0..31, NEW q \in Collected, LateCpp(q, p, k)
    PROVE  LateCpp(After(CppCollect(q, Frame(p)[k + 1])), p, k + 1)
<1> DEFINE b == Frame(p)[k + 1]
           r == CppCollect(q, b)
<1> SUFFICES LateCpp(After(r), p, k + 1)
    OBVIOUS
<1>1. k + 1 \in 1..32 /\ k + 1 >= 1 /\ k \in Nat
    OBVIOUS
<1>2. b \in Bytes
    BY <1>1, FrameIs, ElementOfSeq
<1>3. (k = 0 => b = 32)
    BY FrameIs
<1>4. Collects(q, b, r) /\ (Len(q) = 1 /\ b # 64 => r = <<>>)
    BY DEF Collects, CppCollect, IBUS_FRAME_SIZE, IBUS_CMD
<1> HIDE DEF r
<1>5. r = <<>> \/ Len(r) = Len(q) + 1
    BY <1>2, <1>4, CollectsIs
<1>6. Len(q) \in Nat /\ Len(<<>>) = 0 /\ (q = <<>> <=> Len(q) = 0)
    BY DEF Collected
<1>7. LateCpp(<<>>, p, k + 1) /\ After(<<>>) = <<>>
    BY <1>1, <1>6 DEF LateCpp, After
<1>8. CASE r = <<>>
    BY <1>7, <1>8
<1>9. CASE r # <<>>
    <2>1. CASE Len(q) = 0
        <3>1. k >= 1
            BY <1>1, <2>1 DEF LateCpp
        <3>2. b = 32 /\ Len(r) = 1
            BY <1>4, <1>5, <1>6, <1>9, <2>1 DEF Collects
        <3>3. k + 1 >= 2
            BY <1>1, <3>1
        <3>4. After(r) = r
            BY <3>2 DEF After
        <3>5. LateCpp(r, p, k + 1)
            <4>1. Frame(p)[k + 1] = 32 /\ Len(r) <= 1
                BY <3>2
            <4> QED BY <1>1, <3>3, <4>1, Zenon DEF LateCpp
        <3> QED BY <3>4, <3>5
    <2>2. CASE Len(q) = 1
        <3>1. b = 64
            BY <1>4, <1>9, <2>2
        <3>2. k # 0
            BY <1>3, <3>1
        <3>3. k >= 2 /\ Frame(p)[k] = 32
            BY <1>1, <2>2, <3>2 DEF LateCpp
        <3>4. k \in 2..31
            BY <3>3
        <3> QED BY <3>1, <3>3, <3>4, NoHeader
    <2>3. CASE Len(q) >= 2
        <3>1. Len(q) > k
            BY <1>6, <2>3 DEF LateCpp
        <3>2. Len(r) > k + 1 /\ Len(r) >= 2
            BY <1>1, <1>5, <1>6, <1>9, <2>3, <3>1
        <3>3. LateCpp(r, p, k + 1)
            BY <3>2 DEF LateCpp
        <3> QED BY <1>7, <3>3 DEF After
    <2>4. \A n \in Nat : n = 0 \/ n = 1 \/ n >= 2
        OBVIOUS
    <2> QED BY <1>6, <2>1, <2>2, <2>3, <2>4, Zenon
<1> QED BY <1>8, <1>9

\* At the end of the frame both are empty.
LEMMA LateEnds ==
    ASSUME NEW p \in Channels, NEW q \in Collected
    PROVE  (LateC(q, 32) => q = <<>>) /\ (LateCpp(q, p, 32) => q = <<>>)
<1>1. Len(q) \in Nat /\ Len(q) <= 31 /\ (q = <<>> <=> Len(q) = 0)
    BY DEF Collected
<1>2. Frame(p)[32] # 32
    <2>1. Frame(p)[32] \in Nat /\ 226 <= Frame(p)[32]
        BY FrameIs
    <2> QED BY <2>1
<1>3. ~(Len(q) > 32)
    BY <1>1
<1>4. LateC(q, 32) => q = <<>>
    BY <1>3 DEF LateC
<1>5. LateCpp(q, p, 32) => q = <<>>
    <2>1. LateCpp(q, p, 32) => Len(q) <= 1 /\ Len(q) # 1
        BY <1>2, <1>3 DEF LateCpp
    <2>2. \A n \in Nat : n <= 1 /\ n # 1 => n = 0
        OBVIOUS
    <2> QED BY <1>1, <2>1, <2>2, Zenon
<1> QED BY <1>4, <1>5

\* Of two intact frames of Plain in a row ibus_parse_byte decodes the second.
CInv ==
    /\ c_missed \in {0, 1}
    /\ intact /\ payload \in Plain => OnFrame(frame, c_good) \/ LateC(frame, At)
    /\ intact /\ c_missed = 1 => OnFrame(frame, c_good)

\* Of two intact frames in a row pushByte decodes the second.
CppInv ==
    /\ cpp_missed \in {0, 1}
    /\ intact => OnFrame(index_frame, cpp_good) \/ LateCpp(index_frame, payload, At)
    /\ intact /\ cpp_missed = 1 => OnFrame(index_frame, cpp_good)

LEMMA ResyncInit == Init => CInv /\ CppInv
<1> SUFFICES ASSUME Init PROVE CInv /\ CppInv
    OBVIOUS
<1>1. At = 0 /\ frame = <<>> /\ index_frame = <<>>
    BY WireInit
<1>2. OnFrame(frame, c_good) /\ OnFrame(index_frame, cpp_good)
    BY <1>1 DEF OnFrame, Along, InStep
<1> QED BY <1>2 DEF Init, CInv, CppInv

\* At the end of a frame a parser is empty, and the next one starts in step.
LEMMA AtEnd ==
    ASSUME WireOk, NEW p \in Payloads, NextFrame(p)
    PROVE  /\ OnFrame(frame, c_good) => c_good /\ frame = <<>>
           /\ OnFrame(index_frame, cpp_good) => cpp_good /\ index_frame = <<>>
           /\ frame = <<>> => OnFrame(frame, c_good)'
           /\ index_frame = <<>> => OnFrame(index_frame, cpp_good)'
           /\ LateC(frame, At) => frame = <<>>
           /\ LateCpp(index_frame, payload, At) => index_frame = <<>>
           /\ frame # <<>> => LateC(frame, At)'
           /\ index_frame # <<>> => LateCpp(index_frame, payload, At)'
<1>1. At = 32 /\ At' = 0 /\ payload' = p /\ frame' = frame /\ index_frame' = index_frame
    BY NextFrameIs
<1>2. frame \in Collected /\ index_frame \in Collected /\ payload \in Channels
    BY PayloadIs DEF WireOk
<1>3. /\ LateC(frame, At) => frame = <<>>
      /\ LateCpp(index_frame, payload, At) => index_frame = <<>>
    BY <1>1, <1>2, LateEnds
<1>4. /\ OnFrame(frame, c_good) => c_good /\ frame = <<>>
      /\ OnFrame(index_frame, cpp_good) => cpp_good /\ index_frame = <<>>
    BY <1>1 DEF OnFrame, Along
<1>5. /\ frame = <<>> => OnFrame(frame, c_good)'
      /\ index_frame = <<>> => OnFrame(index_frame, cpp_good)'
    BY <1>1 DEF OnFrame, Along, InStep
<1>6. (frame # <<>> => Len(frame) > 0) /\ (index_frame # <<>> => Len(index_frame) > 0)
    BY <1>2 DEF Collected
<1> QED BY <1>1, <1>3, <1>4, <1>5, <1>6 DEF LateC, LateCpp

LEMMA CNext ==
    ASSUME WireOk, CInv, [Next]_vars
    PROVE  CInv'
<1>1. CASE Deliver
    <2>1. /\ sending # <<>> /\ sending' = Tail(sending) /\ Arrive(Head(sending))
          /\ payload' = payload /\ intact' = intact /\ c_missed' = c_missed
        BY <1>1 DEF Deliver
    <2>2. OnFrame(frame, c_good) => OnFrame(frame, c_good)'
        BY <1>1, OnFrameKept
    <2>3. payload \in Plain /\ LateC(frame, At) => LateC(frame, At)'
        <3>1. /\ At \in 0..31 /\ At' = At + 1
              /\ Head(sending) = Frame(payload)[At + 1] /\ Head(sending) \in Bytes
            BY <2>1, Reads
        <3>2. /\ Collects(frame, Head(sending), CCollect(frame, Head(sending)))
              /\ frame' = After(CCollect(frame, Head(sending)))
            BY <2>1, <3>1, ArriveIs
        <3>3. frame \in Collected
            BY DEF WireOk
        <3> QED BY <3>1, <3>2, <3>3, LateCKept
    <2> QED BY <2>1, <2>2, <2>3 DEF CInv
<1>2. CASE Lose \/ \E b \in Noise : Change(b)
    <2>1. intact' = FALSE /\ c_missed' = c_missed
        BY <1>2 DEF Lose, Change
    <2> QED BY <2>1 DEF CInv
<1>3. ASSUME NEW p \in Payloads, NextFrame(p)
      PROVE  CInv'
    <2>1. c_missed' = IF intact /\ payload \in Plain /\ ~c_good THEN c_missed + 1 ELSE 0
        BY <1>3 DEF NextFrame
    <2>2. CASE intact /\ payload \in Plain /\ ~c_good
        <3>1. ~OnFrame(frame, c_good) /\ LateC(frame, At)
            BY <1>3, <2>2, AtEnd DEF CInv
        <3>2. c_missed = 0
            BY <2>2, <3>1 DEF CInv
        <3>3. OnFrame(frame, c_good)'
            BY <1>3, <3>1, AtEnd
        <3> QED BY <2>1, <2>2, <3>2, <3>3 DEF CInv
    <2>3. CASE ~(intact /\ payload \in Plain /\ ~c_good)
        <3>1. c_missed' = 0
            BY <2>1, <2>3
        <3>2. OnFrame(frame, c_good)' \/ LateC(frame, At)'
            BY <1>3, AtEnd
        <3> QED BY <3>1, <3>2 DEF CInv
    <2> QED BY <2>2, <2>3
<1>4. CASE UNCHANGED vars
    BY <1>4 DEF CInv, OnFrame, At, vars
<1> QED BY <1>1, <1>2, <1>3, <1>4 DEF Next

LEMMA CppNext ==
    ASSUME Sticks, WireOk, CppInv, [Next]_vars
    PROVE  CppInv'
<1>1. CASE Deliver
    <2>1. /\ sending # <<>> /\ sending' = Tail(sending) /\ Arrive(Head(sending))
          /\ payload' = payload /\ intact' = intact /\ cpp_missed' = cpp_missed
        BY <1>1 DEF Deliver
    <2>2. OnFrame(index_frame, cpp_good) => OnFrame(index_frame, cpp_good)'
        BY <1>1, OnFrameKept
    <2>3. LateCpp(index_frame, payload, At) => LateCpp(index_frame, payload, At)'
        <3>1. /\ At \in 0..31 /\ At' = At + 1
              /\ Head(sending) = Frame(payload)[At + 1] /\ Head(sending) \in Bytes
            BY <2>1, Reads
        <3>2. index_frame' = After(CppCollect(index_frame, Frame(payload)[At + 1]))
            BY <2>1, <3>1, ArriveCppIs
        <3>3. index_frame \in Collected /\ payload \in Channels /\ SticksOf(payload)
            BY PayloadIs DEF WireOk, Sticks
        <3> QED BY <2>1, <3>1, <3>2, <3>3, LateCppKept
    <2> QED BY <2>1, <2>2, <2>3 DEF CppInv
<1>2. CASE Lose \/ \E b \in Noise : Change(b)
    <2>1. intact' = FALSE /\ cpp_missed' = cpp_missed
        BY <1>2 DEF Lose, Change
    <2> QED BY <2>1 DEF CppInv
<1>3. ASSUME NEW p \in Payloads, NextFrame(p)
      PROVE  CppInv'
    <2>1. cpp_missed' = IF intact /\ ~cpp_good THEN cpp_missed + 1 ELSE 0
        BY <1>3 DEF NextFrame
    <2>2. CASE intact /\ ~cpp_good
        <3>1. ~OnFrame(index_frame, cpp_good) /\ LateCpp(index_frame, payload, At)
            BY <1>3, <2>2, AtEnd DEF CppInv
        <3>2. cpp_missed = 0
            BY <2>2, <3>1 DEF CppInv
        <3>3. OnFrame(index_frame, cpp_good)'
            BY <1>3, <3>1, AtEnd
        <3> QED BY <2>1, <2>2, <3>2, <3>3 DEF CppInv
    <2>3. CASE ~(intact /\ ~cpp_good)
        <3>1. cpp_missed' = 0
            BY <2>1, <2>3
        <3>2. OnFrame(index_frame, cpp_good)' \/ LateCpp(index_frame, payload, At)'
            BY <1>3, AtEnd
        <3> QED BY <3>1, <3>2 DEF CppInv
    <2> QED BY <2>2, <2>3
<1>4. CASE UNCHANGED vars
    BY <1>4 DEF CppInv, OnFrame, At, vars
<1> QED BY <1>1, <1>2, <1>3, <1>4 DEF Next

\* After any faults ibus_parse_byte misses at most one intact frame in a row, of
\* those that have 0x20 at their start only.
THEOREM CResyncsHolds == Spec => []CResyncs
<1>1. Init => WireOk /\ CInv
    BY WireInit, ResyncInit
<1>2. WireOk /\ CInv /\ [Next]_vars => (WireOk /\ CInv)'
    BY WireNext, CNext
<1>3. CInv => CResyncs
    BY DEF CInv, CResyncs
<1> QED BY <1>1, <1>2, <1>3, PTL DEF Spec

\* After any faults pushByte misses at most one intact frame in a row, whatever the
\* sticks.
THEOREM CppResyncsHolds ==
    ASSUME Sticks
    PROVE  Spec => []CppResyncs
<1>1. Init => WireOk /\ CppInv
    BY WireInit, ResyncInit
<1>2. WireOk /\ CppInv /\ [Next]_vars => (WireOk /\ CppInv)'
    BY WireNext, CppNext
<1>3. CppInv => CppResyncs
    BY DEF CppInv, CppResyncs
<1> QED BY <1>1, <1>2, <1>3, PTL DEF Spec
=============================================================================
