-------------------------- MODULE SensorProbeProofs --------------------------
(***************************************************************************)
(* Theorems about the sensor probe of comm_main.c and the arithmetic that  *)
(* turns its readings into attitude and corrections, for every pair of     *)
(* readings of 16 bits, every stick, every gain a config may set and every *)
(* calibration target.                                                     *)
(***************************************************************************)
EXTENDS SensorProbe, TLAPS

(* Integer arithmetic.                                                     *)
\* What the quotient of a natural number is.
LEMMA DivIs ==
    ASSUME NEW a \in Nat, NEW b \in Nat \ {0}
    PROVE  a \div b \in Nat /\ b * (a \div b) <= a /\ a < b * (a \div b) + b
OBVIOUS

\* The quotient of C has the sign of its dividend.
LEMMA QuotSign ==
    ASSUME NEW a \in Int, NEW b \in Nat \ {0}
    PROVE  /\ Quot(a, b) \in Int
           /\ a >= 0 => Quot(a, b) >= 0
           /\ a <= 0 => Quot(a, b) <= 0
           /\ a = 0 => Quot(a, b) = 0
BY DEF Quot

\* A mean lies between bounds of what it was taken from.
LEMMA QuotBetween ==
    ASSUME NEW sum \in Int, NEW count \in Nat \ {0}, NEW lo \in Int, NEW hi \in Int,
           count * lo <= sum, sum <= count * hi
    PROVE  lo <= Quot(sum, count) /\ Quot(sum, count) <= hi
BY DEF Quot
-----------------------------------------------------------------------------
(* The square root.                                                        *)
\* The loop of amp_isqrt64 for the argument v, as a function of its state.
States == [bit : SQRT_BITS, rest : Nat, res : Nat]
Ends(v, f, s) == IF s.bit = 0 THEN s.res ELSE f[SqrtTurn(v, s)]
IsLoop(v, f) == f = [s \in States |-> Ends(v, f, s)]

LEMMA BitsAre ==
    SQRT_BITS = {0, 1, 4, 16, 64, 256, 1024, 4096, 16384, 65536, 262144, 1048576, 4194304,
                 16777216, 67108864, 268435456, 1073741824}
<1>1. 0..15 = {0, 1, 2, 3, 4, 5, 6, 7, 8, 9, 10, 11, 12, 13, 14, 15}
    OBVIOUS
<1>2. /\ 4^0 = 1 /\ 4^1 = 4 /\ 4^2 = 16 /\ 4^3 = 64 /\ 4^4 = 256 /\ 4^5 = 1024 /\ 4^6 = 4096
      /\ 4^7 = 16384 /\ 4^8 = 65536 /\ 4^9 = 262144 /\ 4^10 = 1048576 /\ 4^11 = 4194304
      /\ 4^12 = 16777216 /\ 4^13 = 67108864 /\ 4^14 = 268435456 /\ 4^15 = 1073741824
    OBVIOUS
<1>3. {4^k : k \in 0..15} =
          {4^0, 4^1, 4^2, 4^3, 4^4, 4^5, 4^6, 4^7, 4^8, 4^9, 4^10, 4^11, 4^12, 4^13, 4^14, 4^15}
    <2>1. ASSUME NEW k \in 0..15
          PROVE  4^k \in {4^0, 4^1, 4^2, 4^3, 4^4, 4^5, 4^6, 4^7,
                          4^8, 4^9, 4^10, 4^11, 4^12, 4^13, 4^14, 4^15}
        <3>1. \/ k = 0 \/ k = 1 \/ k = 2 \/ k = 3 \/ k = 4 \/ k = 5 \/ k = 6 \/ k = 7
              \/ k = 8 \/ k = 9 \/ k = 10 \/ k = 11 \/ k = 12 \/ k = 13 \/ k = 14 \/ k = 15
            OBVIOUS
        <3> QED BY <3>1, Zenon
    <2>2. \A k \in 0..15 : 4^k \in {4^j : j \in 0..15}
        OBVIOUS
    <2>3. {4^0, 4^1, 4^2, 4^3, 4^4, 4^5, 4^6, 4^7, 4^8, 4^9, 4^10, 4^11, 4^12, 4^13, 4^14, 4^15}
            \subseteq {4^j : j \in 0..15}
        BY <1>1, <2>2, Zenon
    <2> QED BY <2>1, <2>3, Zenon
<1> QED BY <1>2, <1>3 DEF SQRT_BITS

\* A turn takes a state of the loop to one with a quarter of its bit.
LEMMA TurnKeepsState ==
    ASSUME NEW v \in Nat, NEW s \in States
    PROVE  SqrtTurn(v, s) \in States /\ SqrtTurn(v, s).bit = s.bit \div 4
<1>1. s.bit \in SQRT_BITS /\ s.rest \in Nat /\ s.res \in Nat
    BY DEF States
<1>2. s.bit \in Nat /\ s.bit \div 4 \in SQRT_BITS
    BY <1>1, BitsAre
<1>3. /\ SqrtTurn(v, s) = [bit |-> SqrtTurn(v, s).bit, rest |-> SqrtTurn(v, s).rest,
                          res |-> SqrtTurn(v, s).res]
      /\ SqrtTurn(v, s).bit = s.bit \div 4
    BY DEF SqrtTurn
<1>4. SqrtTurn(v, s).rest \in Nat
    BY <1>1, <1>2 DEF SqrtTurn
<1>5. SqrtTurn(v, s).res \in Nat
    BY <1>1, <1>2 DEF SqrtTurn
<1> QED BY <1>2, <1>3, <1>4, <1>5 DEF States

\* A function that is the loop for states with bits up to b can be made it for one
\* bit more.
LEMMA LoopGrows ==
    ASSUME NEW v \in Nat, NEW b \in Nat, NEW c \in Nat, c \div 4 <= b,
           \E f : \A s \in States : s.bit <= b => f[s] = Ends(v, f, s)
    PROVE  \E f : \A s \in States : s.bit <= c => f[s] = Ends(v, f, s)
<1>1. PICK f : \A s \in States : s.bit <= b => f[s] = Ends(v, f, s)
    OBVIOUS
<1> DEFINE g == [s \in States |-> Ends(v, f, s)]
<1>2. ASSUME NEW s \in States, s.bit <= c PROVE g[s] = Ends(v, g, s)
    <2>1. g[s] = Ends(v, f, s)
        OBVIOUS
    <2> DEFINE t == SqrtTurn(v, s)
    <2>2. t \in States /\ t.bit = s.bit \div 4
        BY TurnKeepsState
    <2>3. s.bit \in Nat
        BY BitsAre DEF States
    <2>4. t.bit <= b
        <3> HIDE DEF t
        <3> QED BY <1>2, <2>2, <2>3
    <2>5. f[t] = Ends(v, f, t) /\ g[t] = Ends(v, f, t)
        BY <1>1, <2>2, <2>4
    <2> QED BY <2>1, <2>5 DEF Ends
<1> HIDE DEF g
<1> QED BY <1>2

\* The loop that amp_isqrt64 takes exists.
LEMMA LoopExists ==
    ASSUME NEW v \in Nat
    PROVE  \E f : IsLoop(v, f)
<1> DEFINE Upto(b) == \E f : \A s \in States : s.bit <= b => f[s] = Ends(v, f, s)
<1>0. Upto(0)
    <2> DEFINE g == [s \in States |-> s.res]
    <2>1. \A s \in States : s.bit <= 0 => s.bit = 0
        BY BitsAre DEF States
    <2>2. \A s \in States : s.bit <= 0 => g[s] = Ends(v, g, s)
        BY <2>1 DEF Ends
    <2> HIDE DEF g
    <2> QED BY <2>2
<1>s. \A b, c \in Nat : c \div 4 <= b /\ Upto(b) => Upto(c)
    BY LoopGrows
<1>1. Upto(1073741824)
    <2> HIDE DEF Upto
    <2>1. Upto(1) BY <1>0, <1>s
    <2>2. Upto(4) BY <2>1, <1>s
    <2>3. Upto(16) BY <2>2, <1>s
    <2>4. Upto(64) BY <2>3, <1>s
    <2>5. Upto(256) BY <2>4, <1>s
    <2>6. Upto(1024) BY <2>5, <1>s
    <2>7. Upto(4096) BY <2>6, <1>s
    <2>8. Upto(16384) BY <2>7, <1>s
    <2>9. Upto(65536) BY <2>8, <1>s
    <2>10. Upto(262144) BY <2>9, <1>s
    <2>11. Upto(1048576) BY <2>10, <1>s
    <2>12. Upto(4194304) BY <2>11, <1>s
    <2>13. Upto(16777216) BY <2>12, <1>s
    <2>14. Upto(67108864) BY <2>13, <1>s
    <2>15. Upto(268435456) BY <2>14, <1>s
    <2> QED BY <2>15, <1>s
<1>2. PICK f : \A s \in States : s.bit <= 1073741824 => f[s] = Ends(v, f, s)
    BY <1>1
<1>3. \A s \in States : f[s] = Ends(v, f, s)
    BY <1>2, BitsAre DEF States
<1> DEFINE g == [s \in States |-> f[s]]
<1>4. \A s \in States : g[s] = Ends(v, g, s)
    BY <1>3, TurnKeepsState DEF Ends
<1>5. g = [s \in States |-> Ends(v, g, s)]
    BY <1>4
<1> QED BY <1>5 DEF IsLoop

\* What amp_isqrt64 returns is what this loop makes of its first state.
LEMMA IsqrtLoop ==
    ASSUME NEW v \in Nat
    PROVE  \E f : /\ IsLoop(v, f)
                 /\ amp_isqrt64(v) = f[[bit |-> 4^15, rest |-> v, res |-> 0]]
<1> DEFINE loop == CHOOSE f : IsLoop(v, f)
<1>1. IsLoop(v, loop)
    BY LoopExists
<1>2. amp_isqrt64(v) = loop[[bit |-> 4^15, rest |-> v, res |-> 0]]
    BY DEF amp_isqrt64, IsLoop, States, Ends
<1> QED BY <1>1, <1>2

\* Before the turn for the bit (h \div 2)^2: a root P of a multiple of h, what is
\* left of v, and their product in res.
RootSoFar(v, s, h) ==
    \E P \in Nat : /\ s.res = h * P /\ s.rest = v - P * P
                   /\ P * P <= v /\ v < (P + h) * (P + h)
                   /\ (P = 0 \/ P >= h)

\* A turn finds the next bit of the root.
LEMMA TurnFindsBit ==
    ASSUME NEW v \in Nat, NEW s, NEW a \in Nat \ {0}, s.bit = a * a, RootSoFar(v, s, 2 * a)
    PROVE  RootSoFar(v, SqrtTurn(v, s), a)
<1>1. PICK P \in Nat : /\ s.res = (2 * a) * P /\ s.rest = v - P * P
                      /\ P * P <= v /\ v < (P + 2 * a) * (P + 2 * a)
                      /\ (P = 0 \/ P >= 2 * a)
    BY DEF RootSoFar
<1> DEFINE aa == a * a
           aP == a * P
           PP == P * P
<1>2. aa \in Nat /\ aP \in Nat /\ PP \in Nat /\ (2 * a) * P = 2 * aP
    BY <1>1
<1>3. /\ (P + a) * (P + a) = PP + 2 * aP + aa
      /\ a * (P + a) = aP + aa
      /\ ((P + a) + a) * ((P + a) + a) = (P + 2 * a) * (P + 2 * a)
      /\ a * 0 = 0
    BY <1>1
<1>4. /\ aa > v => SqrtTurn(v, s).res = 2 * aP /\ SqrtTurn(v, s).rest = v - PP
      /\ aa <= v /\ PP + 2 * aP + aa <= v =>
            SqrtTurn(v, s).res = aP + aa /\ SqrtTurn(v, s).rest = v - (PP + 2 * aP + aa)
      /\ aa <= v /\ PP + 2 * aP + aa > v => SqrtTurn(v, s).res = aP /\ SqrtTurn(v, s).rest = v - PP
    <2>1. s.bit = aa
        OBVIOUS
    <2>2. s.res = 2 * aP
        <3>1. (2 * a) * P = 2 * aP
            BY <1>1
        <3> HIDE DEF aP
        <3> QED BY <1>1, <3>1
    <2>3. s.rest = v - PP
        BY <1>1
    <2> HIDE DEF aa, aP, PP
    <2>4. (2 * aP) \div 2 = aP
        BY <1>2
    <2> QED BY <1>2, <2>1, <2>2, <2>3, <2>4 DEF SqrtTurn
<1>5. CASE aa <= v /\ PP + 2 * aP + aa <= v
    <2>1. P + a \in Nat /\ P + a >= a
        BY <1>1
    <2>2. v < ((P + a) + a) * ((P + a) + a)
        <3>1. (P + a) + a = P + 2 * a
            BY <1>1
        <3> QED BY <1>1, <3>1
    <2>3. SqrtTurn(v, s).res = a * (P + a) /\ SqrtTurn(v, s).rest = v - (P + a) * (P + a)
          /\ (P + a) * (P + a) <= v
        BY <1>3, <1>4, <1>5
    <2> QED BY <2>1, <2>2, <2>3 DEF RootSoFar
<1>6. CASE aa <= v /\ PP + 2 * aP + aa > v
    <2>1. v < (P + a) * (P + a)
        BY <1>3, <1>6
    <2>2. SqrtTurn(v, s).res = a * P /\ SqrtTurn(v, s).rest = v - P * P
        BY <1>4, <1>6
    <2>3. P = 0 \/ P >= a
        BY <1>1
    <2>4. P * P <= v
        BY <1>1
    <2> HIDE DEF aa, aP, PP
    <2> QED BY <1>1, <2>1, <2>2, <2>3, <2>4 DEF RootSoFar
<1>7. CASE aa > v
    <2>1. P = 0
        <3>1. ASSUME P >= 2 * a PROVE PP >= aa
            BY <1>1, <3>1
        <3>2. PP <= v
            BY <1>1
        <3>3. PP < aa
            <4> HIDE DEF aa, PP
            <4> QED BY <1>2, <1>7, <3>2
        <3> QED BY <1>1, <1>2, <3>1, <3>3
    <2>2. aP = 0 /\ PP = 0
        BY <2>1
    <2>3. SqrtTurn(v, s).res = a * P /\ SqrtTurn(v, s).rest = v - P * P
        BY <1>4, <1>7, <2>2
    <2>4. v < (P + a) * (P + a)
        BY <1>2, <1>3, <1>7, <2>2
    <2> QED BY <1>1, <2>1, <2>3, <2>4 DEF RootSoFar
<1> QED BY <1>2, <1>5, <1>6, <1>7

\* What a loop returns is a natural number.
LEMMA LoopIsNat ==
    ASSUME NEW v \in Nat, NEW f, IsLoop(v, f)
    PROVE  \A s \in States : f[s] \in Nat
<1> DEFINE Upto(b) == \A s \in States : s.bit <= b => f[s] \in Nat
<1>0. Upto(0)
    <2>1. \A s \in States : s.bit <= 0 => s.bit = 0 /\ s.res \in Nat
        BY BitsAre DEF States
    <2> QED BY <2>1 DEF IsLoop, Ends
<1>s. ASSUME NEW b \in Nat, NEW c \in Nat, c \div 4 <= b, Upto(b) PROVE Upto(c)
    <2>1. ASSUME NEW s \in States, s.bit <= c PROVE f[s] \in Nat
        <3> DEFINE t == SqrtTurn(v, s)
        <3>1. t \in States /\ t.bit = s.bit \div 4
            BY TurnKeepsState
        <3>2. s.bit \in Nat /\ s.res \in Nat
            BY BitsAre DEF States
        <3>3. t.bit <= b
            <4> HIDE DEF t
            <4> QED BY <1>s, <2>1, <3>1, <3>2
        <3>4. f[t] \in Nat
            BY <1>s, <3>1, <3>3
        <3>5. f[s] = Ends(v, f, s)
            BY DEF IsLoop
        <3> QED BY <3>2, <3>4, <3>5 DEF Ends
    <2> QED BY <2>1
<1>t. \A b, c \in Nat : c \div 4 <= b /\ Upto(b) => Upto(c)
    BY <1>s
<1>1. Upto(1073741824)
    <2> HIDE DEF Upto
    <2>1. Upto(1) BY <1>0, <1>t
    <2>2. Upto(4) BY <2>1, <1>t
    <2>3. Upto(16) BY <2>2, <1>t
    <2>4. Upto(64) BY <2>3, <1>t
    <2>5. Upto(256) BY <2>4, <1>t
    <2>6. Upto(1024) BY <2>5, <1>t
    <2>7. Upto(4096) BY <2>6, <1>t
    <2>8. Upto(16384) BY <2>7, <1>t
    <2>9. Upto(65536) BY <2>8, <1>t
    <2>10. Upto(262144) BY <2>9, <1>t
    <2>11. Upto(1048576) BY <2>10, <1>t
    <2>12. Upto(4194304) BY <2>11, <1>t
    <2>13. Upto(16777216) BY <2>12, <1>t
    <2>14. Upto(67108864) BY <2>13, <1>t
    <2>15. Upto(268435456) BY <2>14, <1>t
    <2> QED BY <2>15, <1>t
<1> QED BY <1>1, BitsAre DEF States

LEMMA StartState ==
    ASSUME NEW v \in Nat
    PROVE  /\ [bit |-> 4^15, rest |-> v, res |-> 0] \in States
           /\ 4^15 = 1073741824
<1>1. 4^15 = 1073741824
    OBVIOUS
<1>2. 1073741824 \in SQRT_BITS
    BY BitsAre
<1> QED BY <1>1, <1>2 DEF States

LEMMA IsqrtIsNat ==
    ASSUME NEW v \in Nat
    PROVE  amp_isqrt64(v) \in Nat
<1> DEFINE start == [bit |-> 4^15, rest |-> v, res |-> 0]
<1>1. PICK f : IsLoop(v, f) /\ amp_isqrt64(v) = f[start]
    BY IsqrtLoop
<1>2. start \in States
    BY StartState
<1> HIDE DEF start
<1> QED BY <1>1, <1>2, LoopIsNat

\* r is the root of v, rounded down.
IsRoot(v, r) == r \in Nat /\ r * r <= v /\ v < (r + 1) * (r + 1)

\* The loop finds the root from a state with the bit b that has it down to h.
Finds(v, f, b, h) == \A s \in States : s.bit = b /\ RootSoFar(v, s, h) => IsRoot(v, f[s])

LEMMA FindsAtEnd ==
    ASSUME NEW v \in Nat, NEW f, IsLoop(v, f)
    PROVE  Finds(v, f, 0, 1)
<1>1. ASSUME NEW s \in States, s.bit = 0, RootSoFar(v, s, 1) PROVE IsRoot(v, f[s])
    <2>1. f[s] = s.res
        BY <1>1 DEF IsLoop, Ends
    <2>2. PICK P \in Nat : /\ s.res = 1 * P
                          /\ P * P <= v /\ v < (P + 1) * (P + 1)
        BY <1>1 DEF RootSoFar
    <2>3. s.res = P
        BY <2>2
    <2> QED BY <2>1, <2>2, <2>3 DEF IsRoot
<1> QED BY <1>1 DEF Finds

LEMMA FindsBefore ==
    ASSUME NEW v \in Nat, NEW f, IsLoop(v, f), NEW a \in Nat \ {0},
           Finds(v, f, (a * a) \div 4, a)
    PROVE  Finds(v, f, a * a, 2 * a)
<1>1. ASSUME NEW s \in States, s.bit = a * a, RootSoFar(v, s, 2 * a) PROVE IsRoot(v, f[s])
    <2> DEFINE t == SqrtTurn(v, s)
    <2>1. RootSoFar(v, t, a)
        BY <1>1, TurnFindsBit
    <2>2. t \in States /\ t.bit = (a * a) \div 4
        BY <1>1, TurnKeepsState
    <2>3. IsRoot(v, f[t])
        BY <2>1, <2>2 DEF Finds
    <2>4. a * a # 0
        OBVIOUS
    <2>5. f[s] = f[t]
        BY <1>1, <2>4 DEF IsLoop, Ends
    <2> QED BY <2>3, <2>5
<1> QED BY <1>1 DEF Finds

(* amp_isqrt64 returns the exact root, rounded down, of every number of 32 *)
(* bits; the squares of two readings of 16 bits add up to less.            *)
THEOREM IsqrtRoundsDown ==
    \A v \in Nat : v < 65536 * 65536 => IsRoot(v, amp_isqrt64(v))
<1> SUFFICES ASSUME NEW v \in Nat, v < 65536 * 65536 PROVE IsRoot(v, amp_isqrt64(v))
    OBVIOUS
<1> DEFINE start == [bit |-> 4^15, rest |-> v, res |-> 0]
<1>1. PICK f : IsLoop(v, f) /\ amp_isqrt64(v) = f[start]
    BY IsqrtLoop
<1>2. \A a \in Nat \ {0} : Finds(v, f, (a * a) \div 4, a) => Finds(v, f, a * a, 2 * a)
    BY <1>1, FindsBefore
<1>3. Finds(v, f, 1073741824, 65536)
    <2>0. Finds(v, f, 0, 1)
        BY <1>1, FindsAtEnd
    <2>1. Finds(v, f, 1, 2)
        <3>1. 1 * 1 = 1 /\ 1 \div 4 = 0 /\ 2 * 1 = 2
            OBVIOUS
        <3> QED BY <1>2, <2>0, <3>1
    <2>2. Finds(v, f, 4, 4)
        <3>1. 2 * 2 = 4 /\ 4 \div 4 = 1 /\ 2 * 2 = 4
            OBVIOUS
        <3> QED BY <1>2, <2>1, <3>1
    <2>3. Finds(v, f, 16, 8)
        <3>1. 4 * 4 = 16 /\ 16 \div 4 = 4 /\ 2 * 4 = 8
            OBVIOUS
        <3> QED BY <1>2, <2>2, <3>1
    <2>4. Finds(v, f, 64, 16)
        <3>1. 8 * 8 = 64 /\ 64 \div 4 = 16 /\ 2 * 8 = 16
            OBVIOUS
        <3> QED BY <1>2, <2>3, <3>1
    <2>5. Finds(v, f, 256, 32)
        <3>1. 16 * 16 = 256 /\ 256 \div 4 = 64 /\ 2 * 16 = 32
            OBVIOUS
        <3> QED BY <1>2, <2>4, <3>1
    <2>6. Finds(v, f, 1024, 64)
        <3>1. 32 * 32 = 1024 /\ 1024 \div 4 = 256 /\ 2 * 32 = 64
            OBVIOUS
        <3> QED BY <1>2, <2>5, <3>1
    <2>7. Finds(v, f, 4096, 128)
        <3>1. 64 * 64 = 4096 /\ 4096 \div 4 = 1024 /\ 2 * 64 = 128
            OBVIOUS
        <3> QED BY <1>2, <2>6, <3>1
    <2>8. Finds(v, f, 16384, 256)
        <3>1. 128 * 128 = 16384 /\ 16384 \div 4 = 4096 /\ 2 * 128 = 256
            OBVIOUS
        <3> QED BY <1>2, <2>7, <3>1
    <2>9. Finds(v, f, 65536, 512)
        <3>1. 256 * 256 = 65536 /\ 65536 \div 4 = 16384 /\ 2 * 256 = 512
            OBVIOUS
        <3> QED BY <1>2, <2>8, <3>1
    <2>10. Finds(v, f, 262144, 1024)
        <3>1. 512 * 512 = 262144 /\ 262144 \div 4 = 65536 /\ 2 * 512 = 1024
            OBVIOUS
        <3> QED BY <1>2, <2>9, <3>1
    <2>11. Finds(v, f, 1048576, 2048)
        <3>1. 1024 * 1024 = 1048576 /\ 1048576 \div 4 = 262144 /\ 2 * 1024 = 2048
            OBVIOUS
        <3> QED BY <1>2, <2>10, <3>1
    <2>12. Finds(v, f, 4194304, 4096)
        <3>1. 2048 * 2048 = 4194304 /\ 4194304 \div 4 = 1048576 /\ 2 * 2048 = 4096
            OBVIOUS
        <3> QED BY <1>2, <2>11, <3>1
    <2>13. Finds(v, f, 16777216, 8192)
        <3>1. 4096 * 4096 = 16777216 /\ 16777216 \div 4 = 4194304 /\ 2 * 4096 = 8192
            OBVIOUS
        <3> QED BY <1>2, <2>12, <3>1
    <2>14. Finds(v, f, 67108864, 16384)
        <3>1. 8192 * 8192 = 67108864 /\ 67108864 \div 4 = 16777216 /\ 2 * 8192 = 16384
            OBVIOUS
        <3> QED BY <1>2, <2>13, <3>1
    <2>15. Finds(v, f, 268435456, 32768)
        <3>1. 16384 * 16384 = 268435456 /\ 268435456 \div 4 = 67108864 /\ 2 * 16384 = 32768
            OBVIOUS
        <3> QED BY <1>2, <2>14, <3>1
    <2>16. Finds(v, f, 1073741824, 65536)
        <3>1. 32768 * 32768 = 1073741824 /\ 1073741824 \div 4 = 268435456 /\ 2 * 32768 = 65536
            OBVIOUS
        <3> QED BY <1>2, <2>15, <3>1
    <2> QED BY <2>16
<1>4. RootSoFar(v, start, 65536)
    <2>1. 0 \in Nat /\ 65536 * 0 = 0 /\ v - 0 * 0 = v /\ 0 * 0 <= v
          /\ (0 + 65536) * (0 + 65536) = 65536 * 65536
        OBVIOUS
    <2>2. start.res = 0 /\ start.rest = v
        OBVIOUS
    <2> HIDE DEF start
    <2> QED BY <2>1, <2>2 DEF RootSoFar
<1>5. start \in States /\ start.bit = 1073741824
    BY StartState
<1> HIDE DEF start
<1> QED BY <1>1, <1>3, <1>4, <1>5 DEF Finds
-----------------------------------------------------------------------------
(* The inductive invariant.                                                *)
Steps == {"idle", "hmc_id", "hmc_setup", "hmc_read", "mpu_who", "mpu_setup", "mpu_read"}
Readings16 == [acc : [x : Int16, y : Int16, z : Int16], rate : Int16]

FlagTypes ==
    /\ id_ok \in BOOLEAN /\ g_hmc_ok \in BOOLEAN /\ g_hmc_data_ok \in BOOLEAN
    /\ g_hmc_cfg_done \in BOOLEAN /\ g_mpu_ok \in BOOLEAN /\ g_mpu_data_ok \in BOOLEAN
    /\ g_mpu_cfg_done \in BOOLEAN /\ g_mpu_cal_done \in BOOLEAN
    /\ g_sensor_ready \in BOOLEAN /\ g_att_ok \in BOOLEAN /\ g_level_trim_done \in BOOLEAN
    /\ moved \in BOOLEAN /\ ready_before \in BOOLEAN

ValueTypes ==
    /\ g_mpu \in Readings16
    /\ g_level.roll \in Int /\ g_level.pitch \in Int
    /\ DOMAIN g_body = {"roll", "pitch", "rate"}
    /\ g_mpu_addr_found \in 0..2
    /\ faults \in 0..MaxFaults
    /\ read \subseteq {"compass", "gyro"}

\* Where a probe stands: the registers that the setup of a sensor has behind it.
CompassFlow ==
    /\ compass_regs \subseteq HMC_SETUP
    /\ pc = "hmc_id" => n \in 1..3
    /\ pc = "hmc_setup" => n \in 1..3 /\ 1..(n - 1) \subseteq compass_regs
    /\ pc = "hmc_read" \/ g_hmc_cfg_done \/ g_hmc_data_ok => compass_regs = HMC_SETUP
    /\ g_hmc_data_ok => "compass" \in read

GyroFlow ==
    /\ gyro_regs \subseteq MPU_SETUP
    /\ pc = "mpu_who" => n \in 1..2
    /\ pc = "mpu_setup" => n \in 1..5 /\ 1..(n - 1) \subseteq gyro_regs
    /\ pc = "mpu_read" \/ g_mpu_cfg_done => gyro_regs = MPU_SETUP
    /\ pc \in {"mpu_setup", "mpu_read"} => g_mpu_ok

\* The samples so far have a mean between two rates at rest, and so has the bias.
Calibrating ==
    /\ g_mpu_cal_count \in 0..CalTarget
    /\ g_mpu_cal_done <=> g_mpu_cal_count = CalTarget
    /\ moved => g_mpu_cal_done
    /\ gyro_sum \in Int /\ gyro_bias \in Int
    /\ g_mpu_cal_count = 0 => gyro_sum = 0
    /\ g_mpu_cal_count > 0 =>
          \E lo, hi \in RestRates : /\ g_mpu_cal_count * lo <= gyro_sum
                                    /\ gyro_sum <= g_mpu_cal_count * hi
    /\ g_mpu_cal_done => \E lo, hi \in RestRates : lo <= gyro_bias /\ gyro_bias <= hi

\* What a probe that ends with data has left behind.
Ready ==
    g_sensor_ready =>
        /\ pc = "idle"
        /\ read = {"compass", "gyro"}
        /\ compass_regs = HMC_SETUP /\ gyro_regs = MPU_SETUP
        /\ g_att_ok /\ g_mpu_cal_done
        /\ g_body = [roll |-> BodyRoll(g_mpu.acc, g_level),
                     pitch |-> BodyPitch(g_mpu.acc, g_level),
                     rate |-> g_mpu.rate - gyro_bias]

ProbeInv ==
    /\ pc \in Steps /\ n \in 1..5
    /\ FlagTypes /\ ValueTypes /\ CompassFlow /\ GyroFlow /\ Calibrating /\ Ready

\* The angles are integers.
LEMMA AtanIsInt ==
    ASSUME NEW y \in Int, NEW x \in Int
    PROVE  amp_atan2_cd_approx(y, x) \in Int
<1> DEFINE ay == amp_abs32_to_u32(y)
           ax == amp_abs32_to_u32(x)
<1>1. ay \in Nat /\ ax \in Nat /\ (<<x, y>> # <<0, 0>> => ax > 0 \/ ay > 0)
    BY DEF amp_abs32_to_u32
<1>2. <<x, y>> # <<0, 0>> => AtanBase(ay, ax) \in Int
    <2> HIDE DEF ay, ax
    <2> QED BY <1>1 DEF AtanBase
<1>3. /\ x = 0 /\ y = 0 => amp_atan2_cd_approx(y, x) = 0
      /\ x >= 0 /\ y >= 0 /\ <<x, y>> # <<0, 0>> => amp_atan2_cd_approx(y, x) = AtanBase(ay, ax)
      /\ x >= 0 /\ y < 0 => amp_atan2_cd_approx(y, x) = -AtanBase(ay, ax)
      /\ x < 0 /\ y >= 0 => amp_atan2_cd_approx(y, x) = 18000 - AtanBase(ay, ax)
      /\ x < 0 /\ y < 0 => amp_atan2_cd_approx(y, x) = AtanBase(ay, ax) - 18000
    BY DEF amp_atan2_cd_approx
<1> HIDE DEF ay, ax
<1> QED BY <1>2, <1>3

LEMMA Int16IsInt == Int16 \subseteq Int
<1>1. INT16_MIN \in Int /\ INT16_MAX \in Int
    BY DEF INT16_MIN, INT16_MAX
<1> QED BY <1>1 DEF Int16

LEMMA Int16Below ==
    ASSUME NEW i \in Int16
    PROVE  i \in Int /\ i <= 32767
<1>1. INT16_MIN \in Int /\ INT16_MAX = 32767
    BY DEF INT16_MIN, INT16_MAX
<1>2. i \in Int /\ i <= INT16_MAX
    BY <1>1 DEF Int16
<1> QED BY <1>1, <1>2

LEMMA Int16Has == \A i \in 0..8 : i \in Int16
<1>1. INT16_MIN \in Int /\ INT16_MIN <= 0
    BY DEF INT16_MIN
<1>2. INT16_MAX \in Int /\ INT16_MAX >= 8
    BY DEF INT16_MAX
<1> QED BY <1>1, <1>2 DEF Int16

Accs == [x : Int16, y : Int16, z : Int16]

LEMMA SquaresAreNat ==
    ASSUME NEW y \in Int, NEW z \in Int
    PROVE  y * y + z * z \in Nat
<1>1. y * y \in Nat /\ z * z \in Nat
    OBVIOUS
<1> QED BY <1>1

LEMMA AnglesAreInt ==
    ASSUME NEW acc \in Accs
    PROVE  Roll(acc) \in Int /\ Pitch(acc) \in Int
<1>0. acc.x \in Int /\ acc.y \in Int /\ acc.z \in Int
    BY Int16IsInt DEF Accs
<1>1. acc.x \in Int /\ -acc.x \in Int /\ acc.y \in Int /\ acc.z \in Int
    BY <1>0
<1>2. acc.y * acc.y + acc.z * acc.z \in Nat
    BY <1>1, SquaresAreNat
<1>3. amp_isqrt64(acc.y * acc.y + acc.z * acc.z) \in Int
    BY <1>2, IsqrtIsNat
<1> QED BY <1>1, <1>3, AtanIsInt DEF Roll, Pitch

LEMMA ReadingTypes ==
    ASSUME NEW reading \in Readings
    PROVE  reading \in Readings16 /\ (~moved => reading.rate \in RestRates)
<1>1. Level \in Accs
    BY Int16Has DEF Level, Accs
<1>2. Tilts \subseteq Accs
    BY SensorProbeAssumption DEF Accs
<1>3. CASE moved
    BY <1>2, <1>3, SensorProbeAssumption DEF Readings, Readings16, Accs
<1>4. CASE ~moved
    BY <1>1, <1>4, SensorProbeAssumption DEF Readings, Readings16, Accs
<1> QED BY <1>3, <1>4

LEMMA ProbeInit == Init => ProbeInv
<1> SUFFICES ASSUME Init PROVE ProbeInv
    OBVIOUS
<1>0. FlagTypes
    BY Zenon DEF Init, FlagTypes
<1>1. pc \in Steps /\ n \in 1..5
    BY DEF Init, Steps
<1>2. ValueTypes
    <2>1. 0 \in Int16
        BY Int16Has
    <2>2. g_mpu \in Readings16
        BY <2>1 DEF Init, Readings16, NoReading
    <2>3. g_level.roll \in Int /\ g_level.pitch \in Int
        BY DEF Init
    <2>4. DOMAIN g_body = {"roll", "pitch", "rate"}
        BY DEF Init
    <2>5. g_mpu_addr_found \in 0..2 /\ faults \in 0..MaxFaults /\ read \subseteq {"compass", "gyro"}
        BY SensorProbeAssumption DEF Init
    <2> QED BY <2>2, <2>3, <2>4, <2>5 DEF ValueTypes
<1>3. CompassFlow /\ GyroFlow
    BY DEF Init, CompassFlow, GyroFlow
<1>4. Calibrating
    BY SensorProbeAssumption DEF Init, Calibrating
<1>5. Ready
    BY DEF Init, Ready
<1> QED BY <1>0, <1>1, <1>2, <1>3, <1>4, <1>5 DEF ProbeInv

\* What the steps of the probe share.
Acts == \/ StartProbe
        \/ (\E byte \in {"right", "wrong", "none"} : ReadId(byte))
        \/ (\E ok \in BOOLEAN : SetupHmc(ok) \/ ReadHmc(ok) \/ WhoAmI(ok) \/ SetupMpu(ok))
        \/ (\E reading \in Readings : ReadMpu(reading))
        \/ MissMpu
        \/ PickUp
        \/ UNCHANGED vars

LEMMA NextActs == [Next]_vars => Acts
BY Zenon DEF Next, Probe, Acts

LEMMA StepStep == ProbeInv /\ [Next]_vars => pc' \in Steps /\ n' \in 1..5
<1> SUFFICES ASSUME ProbeInv, Acts PROVE pc' \in Steps /\ n' \in 1..5
    BY NextActs
<1>0. pc \in Steps /\ n \in 1..5 /\ CompassFlow /\ GyroFlow
    BY DEF ProbeInv
<1>1. CASE StartProbe
    BY <1>1 DEF StartProbe, Steps
<1>2. ASSUME NEW byte \in {"right", "wrong", "none"}, ReadId(byte)
      PROVE  pc' \in Steps /\ n' \in 1..5
    BY <1>0, <1>2 DEF ReadId, Steps
<1>3. ASSUME NEW ok \in BOOLEAN, SetupHmc(ok) PROVE pc' \in Steps /\ n' \in 1..5
    BY <1>0, <1>3 DEF SetupHmc, Steps
<1>4. ASSUME NEW ok \in BOOLEAN, ReadHmc(ok) PROVE pc' \in Steps /\ n' \in 1..5
    BY <1>4 DEF ReadHmc, Steps
<1>5. ASSUME NEW ok \in BOOLEAN, WhoAmI(ok) PROVE pc' \in Steps /\ n' \in 1..5
    BY <1>5 DEF WhoAmI, AfterWho, Steps
<1>6. ASSUME NEW ok \in BOOLEAN, SetupMpu(ok) PROVE pc' \in Steps /\ n' \in 1..5
    BY <1>0, <1>6 DEF SetupMpu, Steps
<1>7. ASSUME NEW reading \in Readings, ReadMpu(reading) PROVE pc' \in Steps /\ n' \in 1..5
    BY <1>7 DEF ReadMpu, Steps
<1>8. CASE MissMpu
    BY <1>8 DEF MissMpu, Steps
<1>9. CASE PickUp
    BY <1>0, <1>9 DEF PickUp
<1>10. CASE UNCHANGED vars
    BY <1>0, <1>10 DEF vars
<1> QED BY <1>1, <1>2, <1>3, <1>4, <1>5, <1>6, <1>7, <1>8, <1>9, <1>10 DEF Acts

LEMMA FlagStep == ProbeInv /\ [Next]_vars => FlagTypes'
<1> SUFFICES ASSUME ProbeInv, Acts PROVE FlagTypes'
    BY NextActs
<1>0. FlagTypes
    BY DEF ProbeInv
<1>1. CASE StartProbe
    BY <1>0, <1>1 DEF FlagTypes, StartProbe, Clear, calVars
<1>2. ASSUME NEW byte \in {"right", "wrong", "none"}, ReadId(byte) PROVE FlagTypes'
    <2>1. id_ok' \in BOOLEAN /\ g_hmc_ok' \in BOOLEAN
        BY <1>2, Zenon DEF ReadId
    <2> QED BY <1>0, <1>2, <2>1 DEF FlagTypes, ReadId, mpuVars, calVars, bodyVars
<1>3. ASSUME NEW ok \in BOOLEAN, SetupHmc(ok) PROVE FlagTypes'
    <2>1. g_hmc_cfg_done' \in BOOLEAN
        BY <1>3, Zenon DEF SetupHmc
    <2> QED BY <1>0, <1>3, <2>1 DEF FlagTypes, SetupHmc, mpuVars, calVars, bodyVars
<1>4. ASSUME NEW ok \in BOOLEAN, ReadHmc(ok) PROVE FlagTypes'
    BY <1>0, <1>4 DEF FlagTypes, ReadHmc, mpuVars, calVars, bodyVars
<1>5. ASSUME NEW ok \in BOOLEAN, WhoAmI(ok) PROVE FlagTypes'
    BY <1>0, <1>5 DEF FlagTypes, WhoAmI, hmcVars, calVars, bodyVars
<1>6. ASSUME NEW ok \in BOOLEAN, SetupMpu(ok) PROVE FlagTypes'
    <2>1. g_mpu_cfg_done' \in BOOLEAN
        BY <1>6, Zenon DEF SetupMpu
    <2> QED BY <1>0, <1>6, <2>1 DEF FlagTypes, SetupMpu, hmcVars, calVars, bodyVars
<1>7. ASSUME NEW reading \in Readings, ReadMpu(reading) PROVE FlagTypes'
    <2>1. g_sensor_ready' \in BOOLEAN
        BY <1>7, Zenon DEF ReadMpu, CorrectedReady
    <2>2. g_mpu_cal_done' \in BOOLEAN
        <3>1. CASE g_mpu_cal_done
            BY <1>0, <1>7, <3>1, Zenon DEF ReadMpu, CalUpdate, calVars, FlagTypes
        <3>2. CASE ~g_mpu_cal_done
            <4>1. g_mpu_cal_done' = CalDone(g_mpu_cal_count + 1)
                BY <1>7, <3>2, Zenon DEF ReadMpu, CalUpdate
            <4>2. CalDone(g_mpu_cal_count + 1) \in BOOLEAN
                BY DEF CalDone
            <4> QED BY <4>1, <4>2, Zenon
        <3> QED BY <3>1, <3>2
    <2>3. g_att_ok' \in BOOLEAN /\ g_level_trim_done' \in BOOLEAN
        BY <1>0, <1>7 DEF ReadMpu, UpdateBody, FlagTypes
    <2> QED BY <1>0, <1>7, <2>1, <2>2, <2>3 DEF FlagTypes, ReadMpu, hmcVars
<1>8. CASE MissMpu
    BY <1>0, <1>8 DEF FlagTypes, MissMpu, hmcVars, mpuVars, calVars, bodyVars
<1>9. CASE PickUp
    BY <1>0, <1>9 DEF FlagTypes, PickUp, hmcVars, mpuVars, calVars, bodyVars
<1>10. CASE UNCHANGED vars
    BY <1>0, <1>10 DEF FlagTypes, vars, hmcVars, mpuVars, calVars, bodyVars
<1> QED BY <1>1, <1>2, <1>3, <1>4, <1>5, <1>6, <1>7, <1>8, <1>9, <1>10 DEF Acts

\* A transaction that fails is counted up to the bound.
LEMMA FaultsBounded ==
    ASSUME NEW ok \in BOOLEAN, Outcome(ok), faults \in 0..MaxFaults
    PROVE  faults' \in 0..MaxFaults
BY SensorProbeAssumption DEF Outcome

LEMMA ValueStep == ProbeInv /\ [Next]_vars => ValueTypes'
<1> SUFFICES ASSUME ProbeInv, Acts PROVE ValueTypes'
    BY NextActs
<1>0. ValueTypes /\ n \in 1..5 /\ GyroFlow
    BY DEF ProbeInv
<1>f. faults \in 0..MaxFaults
    BY <1>0 DEF ValueTypes
<1>1. CASE StartProbe
    BY <1>0, <1>1 DEF ValueTypes, StartProbe
<1>2. ASSUME NEW byte \in {"right", "wrong", "none"}, ReadId(byte) PROVE ValueTypes'
    <2>1. faults' \in 0..MaxFaults
        BY <1>2, <1>f, FaultsBounded DEF ReadId
    <2> QED BY <1>0, <1>2, <2>1 DEF ValueTypes, ReadId, mpuVars, bodyVars
<1>3. ASSUME NEW ok \in BOOLEAN, SetupHmc(ok) PROVE ValueTypes'
    <2>1. faults' \in 0..MaxFaults
        BY <1>3, <1>f, FaultsBounded DEF SetupHmc
    <2> QED BY <1>0, <1>3, <2>1 DEF ValueTypes, SetupHmc, mpuVars, bodyVars
<1>4. ASSUME NEW ok \in BOOLEAN, ReadHmc(ok) PROVE ValueTypes'
    <2>1. faults' \in 0..MaxFaults
        BY <1>4, <1>f, FaultsBounded DEF ReadHmc
    <2> QED BY <1>0, <1>4, <2>1 DEF ValueTypes, ReadHmc, mpuVars, bodyVars
<1>5. ASSUME NEW ok \in BOOLEAN, WhoAmI(ok) PROVE ValueTypes'
    <2>1. faults' \in 0..MaxFaults
        BY <1>5, <1>f, FaultsBounded DEF WhoAmI
    <2>2. g_mpu_addr_found' \in 0..2
        BY <1>0, <1>5 DEF WhoAmI, GyroFlow, ValueTypes
    <2> QED BY <1>0, <1>5, <2>1, <2>2 DEF ValueTypes, WhoAmI, bodyVars
<1>6. ASSUME NEW ok \in BOOLEAN, SetupMpu(ok) PROVE ValueTypes'
    <2>1. faults' \in 0..MaxFaults
        BY <1>6, <1>f, FaultsBounded DEF SetupMpu
    <2> QED BY <1>0, <1>6, <2>1 DEF ValueTypes, SetupMpu, bodyVars
<1>7. ASSUME NEW reading \in Readings, ReadMpu(reading) PROVE ValueTypes'
    <2>1. g_mpu' \in Readings16
        BY <1>7, ReadingTypes DEF ReadMpu
    <2>2. Roll(g_mpu'.acc) \in Int /\ Pitch(g_mpu'.acc) \in Int
        BY <2>1, AnglesAreInt DEF Readings16, Accs
    <2>3. /\ g_level'.roll \in Int /\ g_level'.pitch \in Int
          /\ DOMAIN g_body' = {"roll", "pitch", "rate"}
        BY <1>0, <1>7, <2>2 DEF ReadMpu, UpdateBody, LevelAt, ValueTypes
    <2>4. g_mpu_addr_found' = g_mpu_addr_found /\ faults' = faults
        BY <1>7 DEF ReadMpu
    <2>5. read' \subseteq {"compass", "gyro"}
        BY <1>0, <1>7 DEF ReadMpu, ValueTypes
    <2> QED BY <1>0, <2>1, <2>3, <2>4, <2>5 DEF ValueTypes
<1>8. CASE MissMpu
    <2>1. faults' \in 0..MaxFaults
        BY <1>8, <1>f, FaultsBounded DEF MissMpu
    <2> QED BY <1>0, <1>8, <2>1 DEF ValueTypes, MissMpu, mpuVars, bodyVars
<1>9. CASE PickUp
    BY <1>0, <1>9 DEF ValueTypes, PickUp, mpuVars, bodyVars
<1>10. CASE UNCHANGED vars
    BY <1>0, <1>10 DEF ValueTypes, vars, mpuVars, bodyVars
<1> QED BY <1>1, <1>2, <1>3, <1>4, <1>5, <1>6, <1>7, <1>8, <1>9, <1>10 DEF Acts

LEMMA CompassStep == ProbeInv /\ [Next]_vars => CompassFlow'
<1> SUFFICES ASSUME ProbeInv, Acts PROVE CompassFlow'
    BY NextActs
<1>0. CompassFlow /\ FlagTypes /\ n \in 1..5
    BY DEF ProbeInv
<1>1. CASE StartProbe
    BY <1>0, <1>1 DEF CompassFlow, StartProbe, Clear
<1>2. ASSUME NEW byte \in {"right", "wrong", "none"}, ReadId(byte) PROVE CompassFlow'
    <2>1. /\ pc' # "hmc_read" \/ g_hmc_cfg_done
          /\ pc' = "hmc_id" => n' \in 1..3
          /\ pc' = "hmc_setup" => n' = 1
          /\ UNCHANGED <<g_hmc_data_ok, g_hmc_cfg_done, compass_regs, read>>
        BY <1>0, <1>2 DEF ReadId, CompassFlow
    <2> QED BY <1>0, <2>1 DEF CompassFlow
<1>3. ASSUME NEW ok \in BOOLEAN, SetupHmc(ok) PROVE CompassFlow'
    <2>1. n \in 1..3 /\ 1..(n - 1) \subseteq compass_regs /\ compass_regs \subseteq HMC_SETUP
        BY <1>0, <1>3 DEF SetupHmc, CompassFlow
    <2>2. /\ compass_regs \subseteq compass_regs' /\ compass_regs' \subseteq HMC_SETUP
          /\ ok => compass_regs' = compass_regs \cup {n}
        BY <1>3, <2>1 DEF SetupHmc, HMC_SETUP
    <2>3. ok => 1..n \subseteq compass_regs'
        BY <2>1, <2>2
    <2>4. ok /\ n = 3 => compass_regs' = HMC_SETUP
        BY <2>2, <2>3 DEF HMC_SETUP
    <2>5. /\ pc' = "hmc_setup" => n' \in 1..3 /\ 1..(n' - 1) \subseteq compass_regs'
          /\ pc' = "hmc_read" => ok /\ n = 3
          /\ pc' # "hmc_id"
        BY <1>3, <2>1, <2>3 DEF SetupHmc
    <2>6. g_hmc_cfg_done' => g_hmc_cfg_done \/ (ok /\ n = 3)
        BY <1>3, Zenon DEF SetupHmc, SetupDone
    <2>7. g_hmc_data_ok' = g_hmc_data_ok /\ read' = read
        BY <1>3 DEF SetupHmc
    <2>8. g_hmc_cfg_done \/ g_hmc_data_ok => compass_regs' = HMC_SETUP
        BY <1>0, <2>2 DEF CompassFlow
    <2>9. pc' = "hmc_read" \/ g_hmc_cfg_done' \/ g_hmc_data_ok' => compass_regs' = HMC_SETUP
        BY <2>4, <2>5, <2>6, <2>7, <2>8, Zenon
    <2> QED BY <1>0, <2>2, <2>5, <2>7, <2>9 DEF CompassFlow
<1>4. ASSUME NEW ok \in BOOLEAN, ReadHmc(ok) PROVE CompassFlow'
    BY <1>0, <1>4 DEF CompassFlow, ReadHmc
<1>5. ASSUME NEW ok \in BOOLEAN, WhoAmI(ok) PROVE CompassFlow'
    <2>1. pc' \notin {"hmc_id", "hmc_setup", "hmc_read"}
        BY <1>5 DEF WhoAmI, AfterWho
    <2> QED BY <1>0, <1>5, <2>1 DEF CompassFlow, WhoAmI, hmcVars
<1>6. ASSUME NEW ok \in BOOLEAN, SetupMpu(ok) PROVE CompassFlow'
    BY <1>0, <1>6 DEF CompassFlow, SetupMpu, hmcVars
<1>7. ASSUME NEW reading \in Readings, ReadMpu(reading) PROVE CompassFlow'
    BY <1>0, <1>7 DEF CompassFlow, ReadMpu, hmcVars
<1>8. CASE MissMpu
    BY <1>0, <1>8 DEF CompassFlow, MissMpu, hmcVars
<1>9. CASE PickUp
    BY <1>0, <1>9 DEF CompassFlow, PickUp, hmcVars
<1>10. CASE UNCHANGED vars
    BY <1>0, <1>10 DEF CompassFlow, vars, hmcVars
<1> QED BY <1>1, <1>2, <1>3, <1>4, <1>5, <1>6, <1>7, <1>8, <1>9, <1>10 DEF Acts

LEMMA GyroStep == ProbeInv /\ [Next]_vars => GyroFlow'
<1> SUFFICES ASSUME ProbeInv, Acts PROVE GyroFlow'
    BY NextActs
<1>0. GyroFlow /\ FlagTypes /\ n \in 1..5
    BY DEF ProbeInv
<1>1. CASE StartProbe
    BY <1>0, <1>1 DEF GyroFlow, StartProbe, Clear
<1>2. ASSUME NEW byte \in {"right", "wrong", "none"}, ReadId(byte) PROVE GyroFlow'
    <2>1. /\ pc' \notin {"mpu_setup", "mpu_read"}
          /\ pc' = "mpu_who" => n' = 1
          /\ UNCHANGED <<g_mpu_cfg_done, gyro_regs>>
        BY <1>0, <1>2 DEF ReadId, mpuVars
    <2> QED BY <1>0, <2>1 DEF GyroFlow
<1>3. ASSUME NEW ok \in BOOLEAN, SetupHmc(ok) PROVE GyroFlow'
    <2>1. /\ pc' \notin {"mpu_setup", "mpu_read"}
          /\ pc' = "mpu_who" => n' = 1
          /\ UNCHANGED <<g_mpu_cfg_done, gyro_regs>>
        BY <1>0, <1>3 DEF SetupHmc, mpuVars
    <2> QED BY <1>0, <2>1 DEF GyroFlow
<1>4. ASSUME NEW ok \in BOOLEAN, ReadHmc(ok) PROVE GyroFlow'
    BY <1>0, <1>4 DEF GyroFlow, ReadHmc, mpuVars
<1>5. ASSUME NEW ok \in BOOLEAN, WhoAmI(ok) PROVE GyroFlow'
    <2>1. /\ pc' = "mpu_who" => n' = 2
          /\ pc' # "mpu_who" => n' = 1
          /\ pc' = "mpu_read" => g_mpu_cfg_done
          /\ pc' \in {"mpu_setup", "mpu_read"} => ok
        BY <1>5 DEF WhoAmI, AfterWho
    <2>2. g_mpu_ok' = ok /\ UNCHANGED <<g_mpu_cfg_done, gyro_regs>>
        BY <1>5 DEF WhoAmI
    <2> QED BY <1>0, <2>1, <2>2 DEF GyroFlow
<1>6. ASSUME NEW ok \in BOOLEAN, SetupMpu(ok) PROVE GyroFlow'
    <2>1. n \in 1..5 /\ 1..(n - 1) \subseteq gyro_regs /\ gyro_regs \subseteq MPU_SETUP
        BY <1>0, <1>6 DEF SetupMpu, GyroFlow
    <2>2. /\ gyro_regs \subseteq gyro_regs' /\ gyro_regs' \subseteq MPU_SETUP
          /\ ok => gyro_regs' = gyro_regs \cup {n}
        BY <1>6, <2>1 DEF SetupMpu, MPU_SETUP
    <2>3. ok => 1..n \subseteq gyro_regs'
        BY <2>1, <2>2
    <2>4. ok /\ n = 5 => gyro_regs' = MPU_SETUP
        BY <2>2, <2>3 DEF MPU_SETUP
    <2>5. /\ pc' = "mpu_setup" => n' \in 1..5 /\ 1..(n' - 1) \subseteq gyro_regs'
          /\ pc' = "mpu_read" => ok /\ n = 5
          /\ pc' # "mpu_who"
        BY <1>6, <2>1, <2>3 DEF SetupMpu
    <2>6. g_mpu_cfg_done' => g_mpu_cfg_done \/ (ok /\ n = 5)
        BY <1>6, Zenon DEF SetupMpu, SetupDone
    <2>7. g_mpu_cfg_done => gyro_regs' = MPU_SETUP
        BY <1>0, <2>2 DEF GyroFlow
    <2>8. pc' = "mpu_read" \/ g_mpu_cfg_done' => gyro_regs' = MPU_SETUP
        BY <2>4, <2>5, <2>6, <2>7, Zenon
    <2>9. g_mpu_ok' = g_mpu_ok /\ g_mpu_ok
        BY <1>0, <1>6 DEF SetupMpu, GyroFlow
    <2> QED BY <2>2, <2>5, <2>8, <2>9 DEF GyroFlow
<1>7. ASSUME NEW reading \in Readings, ReadMpu(reading) PROVE GyroFlow'
    BY <1>0, <1>7 DEF GyroFlow, ReadMpu
<1>8. CASE MissMpu
    BY <1>0, <1>8 DEF GyroFlow, MissMpu, mpuVars
<1>9. CASE PickUp
    BY <1>0, <1>9 DEF GyroFlow, PickUp, mpuVars
<1>10. CASE UNCHANGED vars
    BY <1>0, <1>10 DEF GyroFlow, vars, mpuVars
<1> QED BY <1>1, <1>2, <1>3, <1>4, <1>5, <1>6, <1>7, <1>8, <1>9, <1>10 DEF Acts

\* One more sample widens the range of the mean to hold it.
LEMMA SampleWidens ==
    ASSUME NEW count \in Nat, NEW sum \in Int, NEW r \in Int, NEW lo \in Int, NEW hi \in Int,
           count * lo <= sum, sum <= count * hi,
           NEW lo1 \in Int, NEW hi1 \in Int, lo1 <= lo, lo1 <= r, hi <= hi1, r <= hi1
    PROVE  (count + 1) * lo1 <= sum + r /\ sum + r <= (count + 1) * hi1
<1>1. count * lo1 <= count * lo /\ count * hi <= count * hi1
    OBVIOUS
<1>2. (count + 1) * lo1 = count * lo1 + lo1 /\ (count + 1) * hi1 = count * hi1 + hi1
    OBVIOUS
<1> DEFINE cl == count * lo  cl1 == count * lo1  ch == count * hi  ch1 == count * hi1
<1>3. cl \in Int /\ cl1 \in Int /\ ch \in Int /\ ch1 \in Int
    OBVIOUS
<1>4. cl1 <= cl /\ ch <= ch1 /\ cl <= sum /\ sum <= ch
    BY <1>1
<1>5. (count + 1) * lo1 = cl1 + lo1 /\ (count + 1) * hi1 = ch1 + hi1
    BY <1>2
<1> HIDE DEF cl, cl1, ch, ch1
<1> QED BY <1>3, <1>4, <1>5

LEMMA SampleCalibrates ==
    ASSUME ProbeInv, NEW reading \in Readings, ReadMpu(reading)
    PROVE  Calibrating'
<1>0. Calibrating /\ FlagTypes
    BY DEF ProbeInv
<1>u. moved' = moved
    BY DEF ReadMpu
<1>1. CASE g_mpu_cal_done
    BY <1>0, <1>1, <1>u DEF Calibrating, ReadMpu, CalUpdate, calVars
<1>2. CASE ~g_mpu_cal_done
    <2> DEFINE r == reading.rate
               count == g_mpu_cal_count + 1
    <2>1. ~moved
        BY <1>0, <1>2 DEF Calibrating
    <2>2. r \in RestRates /\ RestRates \subseteq Int /\ r \in Int
        <3>1. reading.rate \in RestRates
            BY <2>1, ReadingTypes
        <3>2. RestRates \subseteq Int
            BY SensorProbeAssumption, Int16IsInt
        <3> QED BY <3>1, <3>2
    <2>3. /\ g_mpu_cal_count' = count
          /\ gyro_sum' = gyro_sum + r
          /\ g_mpu_cal_done' <=> count >= CalTarget
          /\ gyro_bias' = IF count >= CalTarget THEN Quot(gyro_sum + r, count) ELSE gyro_bias
        <3>1. g_mpu'.rate = r
            BY DEF ReadMpu
        <3> QED BY <1>2, <3>1, Zenon DEF ReadMpu, CalUpdate, CalDone
    <2>4. g_mpu_cal_count \in Nat /\ g_mpu_cal_count < CalTarget /\ CalTarget \in Nat \ {0}
        BY <1>0, <1>2, SensorProbeAssumption DEF Calibrating
    <2>5. gyro_sum \in Int /\ gyro_bias \in Int
        BY <1>0 DEF Calibrating
    <2>6. \E lo, hi \in RestRates : count * lo <= gyro_sum + r /\ gyro_sum + r <= count * hi
        <3>1. CASE g_mpu_cal_count = 0
            <4>1. gyro_sum = 0
                BY <1>0, <3>1 DEF Calibrating
            <4>2. count * r <= gyro_sum + r /\ gyro_sum + r <= count * r
                BY <2>2, <3>1, <4>1
            <4> QED BY <2>2, <4>2
        <3>2. CASE g_mpu_cal_count > 0
            <4>1. PICK lo \in RestRates, hi \in RestRates :
                      g_mpu_cal_count * lo <= gyro_sum /\ gyro_sum <= g_mpu_cal_count * hi
                BY <1>0, <3>2 DEF Calibrating
            <4> DEFINE lo1 == IF lo <= r THEN lo ELSE r
                       hi1 == IF r <= hi THEN hi ELSE r
            <4>2. lo1 \in RestRates /\ hi1 \in RestRates
                BY <2>2
            <4>3. lo \in Int /\ hi \in Int /\ lo1 \in Int /\ hi1 \in Int
                BY <2>2, <4>2
            <4>4. lo1 <= lo /\ lo1 <= r /\ hi <= hi1 /\ r <= hi1
                BY <2>2, <4>3
            <4> HIDE DEF lo1, hi1, r
            <4>5. count * lo1 <= gyro_sum + r /\ gyro_sum + r <= count * hi1
                BY <2>2, <2>4, <2>5, <4>1, <4>3, <4>4, SampleWidens
            <4> QED BY <4>2, <4>5
        <3> QED BY <2>4, <3>1, <3>2
    <2>7. count \in Nat \ {0} /\ count <= CalTarget
        BY <2>4
    <2>8. count >= CalTarget =>
              /\ gyro_bias' \in Int
              /\ \E lo, hi \in RestRates : lo <= gyro_bias' /\ gyro_bias' <= hi
        <3>1. PICK lo \in RestRates, hi \in RestRates :
                  count * lo <= gyro_sum + r /\ gyro_sum + r <= count * hi
            BY <2>6
        <3>2. lo \in Int /\ hi \in Int /\ gyro_sum + r \in Int
            BY <2>2, <2>5
        <3> HIDE DEF r, count
        <3>3. lo <= Quot(gyro_sum + r, count) /\ Quot(gyro_sum + r, count) <= hi
              /\ Quot(gyro_sum + r, count) \in Int
            BY <2>7, <3>1, <3>2, QuotBetween, QuotSign
        <3> QED BY <2>3, <3>3
    <2>9. gyro_sum' \in Int /\ gyro_bias' \in Int
        BY <2>2, <2>3, <2>5, <2>8
    <2>10. g_mpu_cal_done' <=> g_mpu_cal_count' = CalTarget
        BY <2>3, <2>4
    <2>11. moved' => g_mpu_cal_done'
        BY <2>1, <1>u
    <2>12. g_mpu_cal_count' \in 0..CalTarget /\ g_mpu_cal_count' # 0
        BY <2>3, <2>4
    <2>13. \E lo, hi \in RestRates : /\ g_mpu_cal_count' * lo <= gyro_sum'
                                     /\ gyro_sum' <= g_mpu_cal_count' * hi
        <3> HIDE DEF r, count
        <3> QED BY <2>3, <2>6
    <2>14. g_mpu_cal_done' => \E lo, hi \in RestRates : lo <= gyro_bias' /\ gyro_bias' <= hi
        BY <2>3, <2>8, Zenon
    <2> HIDE DEF r, count
    <2> QED BY <2>9, <2>10, <2>11, <2>12, <2>13, <2>14 DEF Calibrating
<1> QED BY <1>0, <1>1, <1>2

LEMMA CalibratingStep == ProbeInv /\ [Next]_vars => Calibrating'
<1> SUFFICES ASSUME ProbeInv, Acts PROVE Calibrating'
    BY NextActs
<1>0. Calibrating
    BY DEF ProbeInv
<1>1. CASE StartProbe
    BY <1>0, <1>1 DEF Calibrating, StartProbe, calVars
<1>2. ASSUME NEW byte \in {"right", "wrong", "none"}, ReadId(byte) PROVE Calibrating'
    BY <1>0, <1>2 DEF Calibrating, ReadId, calVars
<1>3. ASSUME NEW ok \in BOOLEAN, SetupHmc(ok) PROVE Calibrating'
    BY <1>0, <1>3 DEF Calibrating, SetupHmc, calVars
<1>4. ASSUME NEW ok \in BOOLEAN, ReadHmc(ok) PROVE Calibrating'
    BY <1>0, <1>4 DEF Calibrating, ReadHmc, calVars
<1>5. ASSUME NEW ok \in BOOLEAN, WhoAmI(ok) PROVE Calibrating'
    BY <1>0, <1>5 DEF Calibrating, WhoAmI, calVars
<1>6. ASSUME NEW ok \in BOOLEAN, SetupMpu(ok) PROVE Calibrating'
    BY <1>0, <1>6 DEF Calibrating, SetupMpu, calVars
<1>7. ASSUME NEW reading \in Readings, ReadMpu(reading) PROVE Calibrating'
    BY <1>7, SampleCalibrates
<1>8. CASE MissMpu
    BY <1>0, <1>8 DEF Calibrating, MissMpu, calVars
<1>9. CASE PickUp
    BY <1>0, <1>9 DEF Calibrating, PickUp, calVars
<1>10. CASE UNCHANGED vars
    BY <1>0, <1>10 DEF Calibrating, vars, calVars
<1> QED BY <1>1, <1>2, <1>3, <1>4, <1>5, <1>6, <1>7, <1>8, <1>9, <1>10 DEF Acts

LEMMA ReadyStep == ProbeInv /\ [Next]_vars => Ready'
<1> SUFFICES ASSUME ProbeInv, Acts PROVE Ready'
    BY NextActs
<1>0. Ready /\ FlagTypes
    BY DEF ProbeInv
<1>n. pc # "idle" => ~g_sensor_ready
    BY <1>0 DEF Ready
<1>1. CASE StartProbe
    BY <1>1 DEF Ready, StartProbe, Clear
<1>2. ASSUME NEW byte \in {"right", "wrong", "none"}, ReadId(byte) PROVE Ready'
    BY <1>n, <1>2 DEF Ready, ReadId, bodyVars
<1>3. ASSUME NEW ok \in BOOLEAN, SetupHmc(ok) PROVE Ready'
    BY <1>n, <1>3 DEF Ready, SetupHmc, bodyVars
<1>4. ASSUME NEW ok \in BOOLEAN, ReadHmc(ok) PROVE Ready'
    BY <1>n, <1>4 DEF Ready, ReadHmc, bodyVars
<1>5. ASSUME NEW ok \in BOOLEAN, WhoAmI(ok) PROVE Ready'
    BY <1>n, <1>5 DEF Ready, WhoAmI, bodyVars
<1>6. ASSUME NEW ok \in BOOLEAN, SetupMpu(ok) PROVE Ready'
    BY <1>n, <1>6 DEF Ready, SetupMpu, bodyVars
<1>7. ASSUME NEW reading \in Readings, ReadMpu(reading) PROVE Ready'
    <2> SUFFICES ASSUME g_sensor_ready' PROVE Ready'
        BY DEF Ready
    <2>1. g_hmc_data_ok /\ g_mpu_cal_done'
        BY <1>7, Zenon DEF ReadMpu, CorrectedReady
    <2>2. "compass" \in read /\ compass_regs = HMC_SETUP /\ gyro_regs = MPU_SETUP
          /\ read \subseteq {"compass", "gyro"}
        BY <1>7, <2>1 DEF ProbeInv, CompassFlow, GyroFlow, ValueTypes, ReadMpu
    <2>3. read' = {"compass", "gyro"}
        BY <1>7, <2>2 DEF ReadMpu
    <2>4. compass_regs' = HMC_SETUP /\ gyro_regs' = MPU_SETUP /\ pc' = "idle"
        BY <1>7, <2>2 DEF ReadMpu, hmcVars
    <2>5. /\ g_att_ok'
          /\ g_body' = [roll |-> BodyRoll(g_mpu'.acc, g_level'),
                        pitch |-> BodyPitch(g_mpu'.acc, g_level'),
                        rate |-> g_mpu'.rate - gyro_bias']
        BY <1>7, Zenon DEF ReadMpu, UpdateBody
    <2> QED BY <2>1, <2>3, <2>4, <2>5, Zenon DEF Ready
<1>8. CASE MissMpu
    BY <1>n, <1>8 DEF Ready, MissMpu, bodyVars
<1>9. CASE PickUp
    BY <1>0, <1>9 DEF Ready, PickUp, hmcVars, mpuVars, calVars, bodyVars
<1>10. CASE UNCHANGED vars
    BY <1>0, <1>10 DEF Ready, vars, hmcVars, mpuVars, calVars, bodyVars
<1> QED BY <1>1, <1>2, <1>3, <1>4, <1>5, <1>6, <1>7, <1>8, <1>9, <1>10 DEF Acts

LEMMA ProbeInvHolds == Spec => []ProbeInv
<1>1. ProbeInv /\ [Next]_vars => ProbeInv'
    BY StepStep, FlagStep, ValueStep, CompassStep, GyroStep, CalibratingStep, ReadyStep
       DEF ProbeInv
<1> QED BY ProbeInit, <1>1, PTL DEF Spec
-----------------------------------------------------------------------------
(* What the runs check, for every value of the constants.                  *)
(* Every flag, counter and register set of the probe keeps its range.      *)
THEOREM SensorTypeCorrect == Spec => []TypeOK
<1>1. ProbeInv => TypeOK
    <2> SUFFICES ASSUME ProbeInv PROVE TypeOK
        OBVIOUS
    <2>1. pc \in {"idle", "hmc_id", "hmc_setup", "hmc_read", "mpu_who", "mpu_setup", "mpu_read"}
          /\ n \in 1..5
        BY DEF ProbeInv, Steps
    <2>2. {id_ok, g_hmc_ok, g_hmc_data_ok, g_hmc_cfg_done, g_mpu_ok, g_mpu_data_ok,
           g_mpu_cfg_done, g_mpu_cal_done, g_sensor_ready, g_att_ok, g_level_trim_done,
           moved, ready_before} \subseteq BOOLEAN
        BY Zenon DEF ProbeInv, FlagTypes
    <2>3. /\ g_mpu_addr_found \in 0..2 /\ faults \in 0..MaxFaults
          /\ read \subseteq {"compass", "gyro"} /\ DOMAIN g_body = {"roll", "pitch", "rate"}
        BY DEF ProbeInv, ValueTypes
    <2>4. g_mpu_cal_count \in 0..CalTarget /\ compass_regs \subseteq HMC_SETUP
          /\ gyro_regs \subseteq MPU_SETUP
        BY DEF ProbeInv, Calibrating, CompassFlow, GyroFlow
    <2> QED BY <2>1, <2>2, <2>3, <2>4, Zenon DEF TypeOK
<1> QED BY ProbeInvHolds, <1>1, PTL

\* What ProbeInv says of a probe that has left data, in numbers.
LEMMA ReadyFacts ==
    ASSUME ProbeInv, g_sensor_ready
    PROVE  /\ g_mpu.acc \in Accs /\ g_mpu.rate \in Int /\ gyro_bias \in Int
           /\ g_level.roll \in Int /\ g_level.pitch \in Int
           /\ Roll(g_mpu.acc) \in Int /\ Pitch(g_mpu.acc) \in Int
           /\ g_body.roll = Roll(g_mpu.acc) - g_level.roll
           /\ g_body.pitch = -(Pitch(g_mpu.acc) - g_level.pitch)
           /\ g_body.rate = g_mpu.rate - gyro_bias
<1>1. g_mpu \in Readings16 /\ g_level.roll \in Int /\ g_level.pitch \in Int /\ gyro_bias \in Int
    BY DEF ProbeInv, ValueTypes, Calibrating
<1>2. g_mpu.acc \in Accs /\ g_mpu.rate \in Int16
    BY <1>1 DEF Readings16, Accs
<1>3. Roll(g_mpu.acc) \in Int /\ Pitch(g_mpu.acc) \in Int
    BY <1>2, AnglesAreInt
<1>4. g_body = [roll |-> BodyRoll(g_mpu.acc, g_level),
                pitch |-> BodyPitch(g_mpu.acc, g_level),
                rate |-> g_mpu.rate - gyro_bias]
    BY DEF ProbeInv, Ready
<1>5. BodyPitch(g_mpu.acc, g_level) = -(Pitch(g_mpu.acc) - g_level.pitch)
    BY <1>1, <1>3 DEF BodyPitch, BODY_PITCH_SIGN
<1>6. BodyRoll(g_mpu.acc, g_level) = Roll(g_mpu.acc) - g_level.roll
    BY DEF BodyRoll
<1>7. g_mpu.rate \in Int
    BY <1>2, Int16IsInt
<1> QED BY <1>1, <1>2, <1>3, <1>4, <1>5, <1>6, <1>7

(* Data a probe leaves to fly with are those of this probe, of sensors set *)
(* up in full, and corrected by a bias among the rates at rest, over       *)
(* whatever failing transactions, for every calibration target.            *)
THEOREM ReadyIsCurrentHolds == Spec => []ReadyIsCurrent
<1>1. ProbeInv => ReadyIsCurrent
    <2> SUFFICES ASSUME ProbeInv, pc = "idle", g_sensor_ready
                 PROVE  /\ read = {"compass", "gyro"}
                        /\ compass_regs = HMC_SETUP /\ gyro_regs = MPU_SETUP
                        /\ g_att_ok
                        /\ g_body.rate + gyro_bias = g_mpu.rate
                        /\ \E lo, hi \in RestRates : lo <= gyro_bias /\ gyro_bias <= hi
                        /\ g_level = LevelAt(g_mpu.acc) => g_body.roll = 0 /\ g_body.pitch = 0
        BY Zenon DEF ReadyIsCurrent
    <2>1. read = {"compass", "gyro"} /\ compass_regs = HMC_SETUP /\ gyro_regs = MPU_SETUP
          /\ g_att_ok
        BY DEF ProbeInv, Ready
    <2>2. \E lo, hi \in RestRates : lo <= gyro_bias /\ gyro_bias <= hi
        BY DEF ProbeInv, Ready, Calibrating
    <2>3. g_body.rate + gyro_bias = g_mpu.rate
        BY ReadyFacts
    <2>4. ASSUME g_level = LevelAt(g_mpu.acc) PROVE g_body.roll = 0 /\ g_body.pitch = 0
        <3>1. g_level.roll = Roll(g_mpu.acc) /\ g_level.pitch = Pitch(g_mpu.acc)
            BY <2>4 DEF LevelAt
        <3> QED BY <3>1, ReadyFacts
    <2> QED BY <2>1, <2>2, <2>3, <2>4
<1> QED BY ProbeInvHolds, <1>1, PTL
-----------------------------------------------------------------------------
(* The control loops.                                                      *)
Axes == {"roll", "pitch", "yaw"}

\* A clamp to a range around zero keeps the sign.
LEMMA ClampSign ==
    ASSUME NEW v \in Int, NEW m \in Nat
    PROVE  /\ clamp_i32(v, -m, m) \in Int
           /\ clamp_i32(v, -m, m) \in -m..m
           /\ v >= 0 => clamp_i32(v, -m, m) >= 0
           /\ v <= 0 => clamp_i32(v, -m, m) <= 0
           /\ v > m => clamp_i32(v, -m, m) = m
           /\ v < -m => clamp_i32(v, -m, m) = -m
           /\ v \in -m..m => clamp_i32(v, -m, m) = v
BY DEF clamp_i32

LEMMA GainFacts ==
    ASSUME NEW g \in GainSets
    PROVE  /\ g.deadzone \in Nat /\ g.deadzone >= 5 /\ g.angle \in Nat \ {0}
           /\ \A axis \in Axes : g[axis] \in Nat \ {0}
<1>1. g \in ConfigGains
    BY SensorProbeAssumption
<1>2. /\ g.deadzone \in AMP_CONFIG_DEADZONE_MIN_US..AMP_CONFIG_DEADZONE_MAX_US
      /\ g.angle \in AMP_CONFIG_ANGLE_DIV_MIN..AMP_CONFIG_ANGLE_DIV_MAX
      /\ g.roll \in AMP_CONFIG_RATE_DIV_MIN..AMP_CONFIG_RATE_DIV_MAX
      /\ g.pitch \in AMP_CONFIG_RATE_DIV_MIN..AMP_CONFIG_RATE_DIV_MAX
      /\ g.yaw \in AMP_CONFIG_RATE_DIV_MIN..AMP_CONFIG_RATE_DIV_MAX
    BY <1>1 DEF ConfigGains
<1>3. g.deadzone \in Nat /\ g.deadzone >= 5 /\ g.angle \in Nat \ {0}
    BY <1>2 DEF AMP_CONFIG_DEADZONE_MIN_US, AMP_CONFIG_ANGLE_DIV_MIN
<1>4. g.roll \in Nat \ {0} /\ g.pitch \in Nat \ {0} /\ g.yaw \in Nat \ {0}
    BY <1>2 DEF AMP_CONFIG_RATE_DIV_MIN
<1> QED BY <1>3, <1>4 DEF Axes

\* A stick in the dead zone asks for no rate, and any other for one its way.
LEMMA SetpointSign ==
    ASSUME NEW axis \in Axes, NEW us \in Nat, NEW dz \in Nat, dz >= 5
    PROVE  /\ Demand(axis, us) \in Int /\ RateSetpoint(axis, us, dz) \in Int
           /\ Demand(axis, us) > -dz /\ Demand(axis, us) < dz => RateSetpoint(axis, us, dz) = 0
           /\ Demand(axis, us) >= dz => RateSetpoint(axis, us, dz) > 0
           /\ Demand(axis, us) <= -dz => RateSetpoint(axis, us, dz) < 0
<1> DEFINE in == rc_norm_deadband(us, dz)
           d == us - 1500
<1>1. /\ in \in Int
      /\ d > -dz /\ d < dz => in = 0
      /\ d >= dz => in >= 5
      /\ d <= -dz => in <= -5
    BY DEF rc_norm_deadband, clamp_i32, RC_MID_US
<1>2. d \in Int /\ in \in Int
    BY <1>1
<1>4. CASE axis = "roll"
    <2> DEFINE set == Quot(in * 600, 500)
    <2>1. RateSetpoint(axis, us, dz) = set /\ Demand(axis, us) = d
        BY <1>4 DEF RateSetpoint, Demand, RATE_SET_MAX_RAW, RC_MID_US
    <2> HIDE DEF in, d
    <2>2. set \in Int /\ (in = 0 => set = 0) /\ (in >= 5 => set > 0) /\ (in <= -5 => set < 0)
        BY <1>2 DEF Quot
    <2> HIDE DEF set
    <2> QED BY <1>1, <1>2, <2>1, <2>2
<1>5. CASE axis = "pitch"
    <2> DEFINE back == -in
               set == Quot(back * 600, 500)
    <2>1. RateSetpoint(axis, us, dz) = set
        <3>1. RC_PITCH_SIGN * rc_norm_deadband(us, dz) = back
            BY <1>2 DEF RC_PITCH_SIGN
        <3>2. RATE_SET_MAX_RAW["pitch"] = 600
            BY DEF RATE_SET_MAX_RAW
        <3>3. RateSetpoint("pitch", us, dz) =
                  Quot((RC_PITCH_SIGN * rc_norm_deadband(us, dz)) * RATE_SET_MAX_RAW["pitch"], 500)
            BY DEF RateSetpoint
        <3> HIDE DEF back
        <3> QED BY <1>5, <3>1, <3>2, <3>3
    <2>2. Demand(axis, us) = -d
        BY <1>5 DEF Demand, RC_MID_US
    <2> HIDE DEF in, d
    <2>3. set \in Int /\ (in = 0 => set = 0) /\ (in >= 5 => set < 0) /\ (in <= -5 => set > 0)
        BY <1>2 DEF Quot
    <2> HIDE DEF set, back
    <2> QED BY <1>1, <1>2, <2>1, <2>2, <2>3
<1>6. CASE axis = "yaw"
    <2> DEFINE set == Quot(in * 500, 500)
    <2>1. RateSetpoint(axis, us, dz) = set /\ Demand(axis, us) = d
        BY <1>6 DEF RateSetpoint, Demand, RATE_SET_MAX_RAW, RC_MID_US
    <2> HIDE DEF in, d
    <2>2. set \in Int /\ (in = 0 => set = 0) /\ (in >= 5 => set > 0) /\ (in <= -5 => set < 0)
        BY <1>2 DEF Quot
    <2> HIDE DEF set
    <2> QED BY <1>1, <1>2, <2>1, <2>2
<1> QED BY <1>4, <1>5, <1>6 DEF Axes

LEMMA RateCorrectionSign ==
    ASSUME NEW axis \in Axes, NEW us \in Nat, NEW rate \in Int, NEW g \in GainSets
    PROVE  /\ RateCorrection(axis, us, rate, g) \in Int
           /\ RateSetpoint(axis, us, g.deadzone) >= rate => RateCorrection(axis, us, rate, g) >= 0
           /\ RateSetpoint(axis, us, g.deadzone) <= rate => RateCorrection(axis, us, rate, g) <= 0
<1> DEFINE set == RateSetpoint(axis, us, g.deadzone)
           q == Quot(set - rate, g[axis])
<1>1. g.deadzone \in Nat /\ g.deadzone >= 5 /\ g[axis] \in Nat \ {0}
    BY GainFacts
<1>2. set \in Int
    BY <1>1, SetpointSign
<1>3. /\ q \in Int
      /\ set >= rate => q >= 0
      /\ set <= rate => q <= 0
    <2>1. set - rate \in Int /\ (set >= rate => set - rate >= 0) /\ (set <= rate => set - rate <= 0)
        BY <1>2
    <2> HIDE DEF set
    <2> QED BY <1>1, <2>1, QuotSign
<1>4. RateCorrection(axis, us, rate, g) = clamp_i32(q, -40, 40) /\ 40 \in Nat
    BY DEF RateCorrection, RATE_PID_MAX_CORR_US
<1> HIDE DEF q, set
<1>5. set >= rate => RateCorrection(axis, us, rate, g) >= 0
    BY <1>3, <1>4, ClampSign
<1>6. set <= rate => RateCorrection(axis, us, rate, g) <= 0
    BY <1>3, <1>4, ClampSign
<1>7. RateCorrection(axis, us, rate, g) \in Int
    BY <1>3, <1>4, ClampSign
<1> QED BY <1>5, <1>6, <1>7 DEF set

LEMMA AngleCorrectionSign ==
    ASSUME NEW axis \in Axes, NEW us \in Nat, NEW angle \in Int, NEW g \in GainSets
    PROVE  /\ AngleCorrection(axis, us, angle, g) \in Int
           /\ angle >= 0 => AngleCorrection(axis, us, angle, g) <= 0
           /\ angle <= 0 => AngleCorrection(axis, us, angle, g) >= 0
           /\ RateSetpoint(axis, us, g.deadzone) # 0 => AngleCorrection(axis, us, angle, g) = 0
<1> DEFINE q == Quot(-angle, g.angle)
<1>1. /\ q \in Int
      /\ angle >= 0 => q <= 0
      /\ angle <= 0 => q >= 0
    <2>1. -angle \in Int /\ g.angle \in Nat \ {0}
        BY GainFacts
    <2>2. (angle >= 0 => -angle <= 0) /\ (angle <= 0 => -angle >= 0)
        OBVIOUS
    <2> QED BY <2>1, <2>2, QuotSign
<1>2. \/ AngleCorrection(axis, us, angle, g) = 0
      \/ /\ AngleCorrection(axis, us, angle, g) = clamp_i32(q, -25, 25)
         /\ RateSetpoint(axis, us, g.deadzone) = 0
    BY DEF AngleCorrection, ANGLE_ASSIST_MAX_CORR_US
<1>3. 25 \in Nat
    OBVIOUS
<1> HIDE DEF q
<1>4. clamp_i32(q, -25, 25) \in Int
    BY <1>1, <1>3, ClampSign
<1>5. angle >= 0 => clamp_i32(q, -25, 25) <= 0
    BY <1>1, <1>3, ClampSign
<1>6. angle <= 0 => clamp_i32(q, -25, 25) >= 0
    BY <1>1, <1>3, ClampSign
<1> QED BY <1>2, <1>4, <1>5, <1>6

LEMMA PidSign ==
    ASSUME NEW axis \in Axes, NEW us \in Nat, NEW rate \in Int, NEW angle \in Int,
           NEW g \in GainSets
    PROVE  /\ Pid(axis, us, rate, angle, g) \in Int
           /\ Pid(axis, us, rate, angle, g) \in -RATE_PID_MAX_CORR_US..RATE_PID_MAX_CORR_US
           /\ RateCorrection(axis, us, rate, g) + AngleCorrection(axis, us, angle, g) >= 0
                  => Pid(axis, us, rate, angle, g) >= 0
           /\ RateCorrection(axis, us, rate, g) + AngleCorrection(axis, us, angle, g) <= 0
                  => Pid(axis, us, rate, angle, g) <= 0
<1> DEFINE sum == RateCorrection(axis, us, rate, g) + AngleCorrection(axis, us, angle, g)
<1>1. sum \in Int
    BY RateCorrectionSign, AngleCorrectionSign
<1>2. Pid(axis, us, rate, angle, g) = clamp_i32(sum, -RATE_PID_MAX_CORR_US, RATE_PID_MAX_CORR_US)
    BY DEF Pid
<1>3. RATE_PID_MAX_CORR_US \in Nat
    BY DEF RATE_PID_MAX_CORR_US
<1> HIDE DEF sum
<1>4. Pid(axis, us, rate, angle, g) \in -RATE_PID_MAX_CORR_US..RATE_PID_MAX_CORR_US
    BY <1>1, <1>2, <1>3, ClampSign
<1>5. sum >= 0 => Pid(axis, us, rate, angle, g) >= 0
    BY <1>1, <1>2, <1>3, ClampSign
<1>6. sum <= 0 => Pid(axis, us, rate, angle, g) <= 0
    BY <1>1, <1>2, <1>3, ClampSign
<1>7. Pid(axis, us, rate, angle, g) \in Int
    BY <1>1, <1>2, <1>3, ClampSign
<1> QED BY <1>4, <1>5, <1>6, <1>7 DEF sum

LEMMA SameSignProduct ==
    ASSUME NEW a \in Int, NEW b \in Int
    PROVE  /\ a > 0 /\ b > 0 => a * b > 0
           /\ a < 0 /\ b < 0 => a * b > 0
           /\ a > 0 /\ b >= 0 => a * b >= 0
           /\ a < 0 /\ b <= 0 => a * b >= 0
OBVIOUS

(* No correction leaves the range that the mixer takes for granted, none   *)
(* pushes a leaning and turning craft further with the stick at rest, and  *)
(* none pushes against the stick, for every channel value, every gain that *)
(* a config may set and every attitude a reading of 16 bits can give.      *)
THEOREM CorrectionSoundHolds == Spec => []CorrectionSound
<1>1. ASSUME ProbeInv, pc = "idle", g_sensor_ready,
             NEW axis \in Axes, NEW us \in Sticks, NEW g \in GainSets
      PROVE  LET correction == Pid(axis, us, BodyRate(axis), BodyAngle(axis), g)
                 demand == Demand(axis, us)
                 centred == demand > -g.deadzone /\ demand < g.deadzone
             IN  /\ correction \in -RATE_PID_MAX_CORR_US..RATE_PID_MAX_CORR_US
                 /\ centred /\ BodyRate(axis) >= 0 /\ BodyAngle(axis) >= 0 => correction <= 0
                 /\ centred /\ BodyRate(axis) <= 0 /\ BodyAngle(axis) <= 0 => correction >= 0
                 /\ ~centred => /\ demand * RateSetpoint(axis, us, g.deadzone) > 0
                                /\ BodyRate(axis) = 0 => demand * correction >= 0
    <2> DEFINE rate == BodyRate(axis)
               angle == BodyAngle(axis)
               demand == Demand(axis, us)
               set == RateSetpoint(axis, us, g.deadzone)
               rateCorr == RateCorrection(axis, us, rate, g)
               angleCorr == AngleCorrection(axis, us, angle, g)
               correction == Pid(axis, us, rate, angle, g)
               centred == demand > -g.deadzone /\ demand < g.deadzone
    <2>1. us \in Nat /\ g.deadzone \in Nat /\ g.deadzone >= 5
        BY SensorProbeAssumption, GainFacts
    <2>2. rate \in Int /\ angle \in Int
        <3>1. g_body.roll \in Int /\ g_body.pitch \in Int /\ g_body.rate \in Int
            BY <1>1, ReadyFacts
        <3>2. g_body[axis] \in Int \/ axis = "yaw"
            BY <3>1 DEF Axes
        <3> QED BY <3>1, <3>2 DEF BodyRate, BodyAngle, BODY_PITCH_SIGN
    <2>3. /\ demand \in Int /\ set \in Int
          /\ centred => set = 0
          /\ demand >= g.deadzone => set > 0
          /\ demand <= -g.deadzone => set < 0
        BY <2>1, SetpointSign
    <2> HIDE DEF rate, angle
    <2>4. rateCorr \in Int /\ (set >= rate => rateCorr >= 0) /\ (set <= rate => rateCorr <= 0)
        BY <2>1, <2>2, RateCorrectionSign
    <2>5. /\ angleCorr \in Int
          /\ angle >= 0 => angleCorr <= 0
          /\ angle <= 0 => angleCorr >= 0
          /\ set # 0 => angleCorr = 0
        BY <2>1, <2>2, AngleCorrectionSign
    <2>6. /\ correction \in Int
          /\ correction \in -RATE_PID_MAX_CORR_US..RATE_PID_MAX_CORR_US
          /\ rateCorr + angleCorr >= 0 => correction >= 0
          /\ rateCorr + angleCorr <= 0 => correction <= 0
        BY <2>1, <2>2, PidSign
    <2> HIDE DEF demand, set, rateCorr, angleCorr, correction
    <2>7. centred /\ rate >= 0 /\ angle >= 0 => correction <= 0
        BY <2>2, <2>3, <2>4, <2>5, <2>6
    <2>8. centred /\ rate <= 0 /\ angle <= 0 => correction >= 0
        BY <2>2, <2>3, <2>4, <2>5, <2>6
    <2>9. ~centred => (demand > 0 /\ set > 0) \/ (demand < 0 /\ set < 0)
        BY <2>1, <2>3
    <2>10. ~centred => demand * set > 0
        BY <2>3, <2>9, SameSignProduct
    <2>11. ~centred /\ rate = 0 => \/ (demand > 0 /\ correction >= 0)
                                  \/ (demand < 0 /\ correction <= 0)
        BY <2>2, <2>3, <2>4, <2>5, <2>6, <2>9
    <2>12. ~centred /\ rate = 0 => demand * correction >= 0
        BY <2>3, <2>6, <2>11, SameSignProduct
    <2> QED BY <2>6, <2>7, <2>8, <2>10, <2>12
               DEF rate, angle, demand, set, correction
<1>2. ProbeInv => CorrectionSound
    BY <1>1, Zenon DEF CorrectionSound, Axes
<1> QED BY ProbeInvHolds, <1>2, PTL
-----------------------------------------------------------------------------
(* The whole probe as one step.                                            *)
\* What the poll loop sees of the probe: nothing of one that is running.
Seen == IF pc = "idle" THEN g_sensor_ready ELSE ready_before

\* A step in the middle of a probe shows nothing.
LEMMA MiddleStutters ==
    ASSUME pc # "idle", pc' # "idle", UNCHANGED <<ready_before, g_mpu_cal_count>>
    PROVE  UNCHANGED <<g_mpu_cal_count, Seen>>
BY DEF Seen

\* A probe that ends without a reading of the gyro leaves no data; the compass
\* may have been found or not.
LEMMA EndsWithout ==
    ASSUME ProbeInv, pc # "idle", pc' = "idle", UNCHANGED <<g_sensor_ready, g_mpu_cal_count>>
    PROVE  \E hmc \in Outcomes!HmcOutcomes, mpuReads \in Outcomes!MpuOutcomes :
              Outcomes!ProbeOutcome(hmc, mpuReads)
<1>1. g_sensor_ready' = FALSE
    BY DEF ProbeInv, FlagTypes, Ready
<1>2. "absent" \in Outcomes!HmcOutcomes /\ FALSE \in Outcomes!MpuOutcomes
    BY DEF Outcomes!HmcOutcomes, Outcomes!MpuOutcomes
<1>3. Outcomes!Calibrate(FALSE) = g_mpu_cal_count
    BY DEF Outcomes!Calibrate
<1>4. Seen' = FALSE
    BY <1>1 DEF Seen
<1>5. Outcomes!ProbeOutcome("absent", FALSE)
    BY <1>1, <1>3
       DEF Outcomes!ProbeOutcome, Outcomes!SensorReady
<1> QED BY <1>2, <1>5

\* A probe that reads the gyro counts the sample, and leaves data when it has read the
\* compass too and calibration is done.
LEMMA EndsWithGyro ==
    ASSUME ProbeInv, NEW reading \in Readings, ReadMpu(reading)
    PROVE  \E hmc \in Outcomes!HmcOutcomes, mpuReads \in Outcomes!MpuOutcomes :
              Outcomes!ProbeOutcome(hmc, mpuReads)
<1> DEFINE hmc == IF g_hmc_ok /\ g_hmc_data_ok THEN "ok" ELSE "bad"
<1>1. g_mpu_ok /\ g_mpu_data_ok' /\ pc' = "idle"
    BY DEF ProbeInv, GyroFlow, ReadMpu
<1>2. g_mpu_cal_count \in 0..CalTarget /\ (g_mpu_cal_done <=> g_mpu_cal_count = CalTarget)
    BY DEF ProbeInv, Calibrating
<1>3. CalTarget \in Nat
    BY SensorProbeAssumption
<1>4. /\ g_mpu_cal_count' = Outcomes!Calibrate(TRUE)
      /\ g_mpu_cal_done' <=> Outcomes!Calibrate(TRUE) >= CalTarget
    <2>1. CASE g_mpu_cal_done
        BY <1>2, <1>3, <2>1 DEF ReadMpu, CalUpdate, calVars, Outcomes!Calibrate
    <2>2. CASE ~g_mpu_cal_done
        <3>1. /\ g_mpu_cal_count' = g_mpu_cal_count + 1
              /\ g_mpu_cal_done' <=> g_mpu_cal_count + 1 >= CalTarget
            BY <2>2, Zenon DEF ReadMpu, CalUpdate, CalDone
        <3>2. g_mpu_cal_count < CalTarget
            BY <1>2, <1>3, <2>2
        <3> QED BY <3>1, <3>2 DEF Outcomes!Calibrate
    <2> QED BY <2>1, <2>2
<1>5. g_sensor_ready' <=> g_hmc_ok /\ g_hmc_data_ok /\ g_mpu_cal_done'
    BY <1>1, Zenon DEF ReadMpu, CorrectedReady
<1>6. hmc \in Outcomes!HmcOutcomes /\ TRUE \in Outcomes!MpuOutcomes /\ hmc # "absent"
      /\ (hmc = "ok" <=> g_hmc_ok /\ g_hmc_data_ok)
    BY DEF Outcomes!HmcOutcomes, Outcomes!MpuOutcomes
<1>7. g_sensor_ready' \in BOOLEAN
    BY Zenon DEF ReadMpu, CorrectedReady
<1> HIDE DEF hmc
<1>8. g_sensor_ready' = Outcomes!SensorReady(hmc, TRUE, Outcomes!Calibrate(TRUE))
    BY <1>4, <1>5, <1>6, <1>7 DEF Outcomes!SensorReady
<1>9. Outcomes!ProbeOutcome(hmc, TRUE)
    BY <1>1, <1>4, <1>6, <1>8 DEF Outcomes!ProbeOutcome
<1> QED BY <1>6, <1>9

\* One step of the probe is one outcome, or none.
LEMMA ProbeStepIsOutcome ==
    ProbeInv /\ [Next]_vars => [Outcomes!SensorNext]_<<g_mpu_cal_count, Seen>>
<1> SUFFICES ASSUME ProbeInv, Acts
             PROVE  Outcomes!SensorNext \/ UNCHANGED <<g_mpu_cal_count, Seen>>
    BY NextActs
<1>e. ASSUME pc # "idle", UNCHANGED <<g_sensor_ready, ready_before, g_mpu_cal_count>>
      PROVE  Outcomes!SensorNext \/ UNCHANGED <<g_mpu_cal_count, Seen>>
    <2>1. CASE pc' = "idle"
        BY <1>e, <2>1, EndsWithout DEF Outcomes!SensorNext
    <2>2. CASE pc' # "idle"
        BY <1>e, <2>2, MiddleStutters
    <2> QED BY <2>1, <2>2
<1>1. CASE StartProbe
    BY <1>1 DEF StartProbe, Seen, calVars
<1>2. ASSUME NEW byte \in {"right", "wrong", "none"}, ReadId(byte)
      PROVE  pc # "idle" /\ UNCHANGED <<g_sensor_ready, ready_before, g_mpu_cal_count>>
    BY <1>2 DEF ReadId, calVars, bodyVars
<1>3. ASSUME NEW ok \in BOOLEAN, SetupHmc(ok)
      PROVE  pc # "idle" /\ UNCHANGED <<g_sensor_ready, ready_before, g_mpu_cal_count>>
    BY <1>3 DEF SetupHmc, calVars, bodyVars
<1>4. ASSUME NEW ok \in BOOLEAN, ReadHmc(ok)
      PROVE  pc # "idle" /\ UNCHANGED <<g_sensor_ready, ready_before, g_mpu_cal_count>>
    BY <1>4 DEF ReadHmc, calVars, bodyVars
<1>5. ASSUME NEW ok \in BOOLEAN, WhoAmI(ok)
      PROVE  pc # "idle" /\ UNCHANGED <<g_sensor_ready, ready_before, g_mpu_cal_count>>
    BY <1>5 DEF WhoAmI, calVars, bodyVars
<1>6. ASSUME NEW ok \in BOOLEAN, SetupMpu(ok)
      PROVE  pc # "idle" /\ UNCHANGED <<g_sensor_ready, ready_before, g_mpu_cal_count>>
    BY <1>6 DEF SetupMpu, calVars, bodyVars
<1>7. ASSUME NEW reading \in Readings, ReadMpu(reading) PROVE Outcomes!SensorNext
    BY <1>7, EndsWithGyro DEF Outcomes!SensorNext
<1>8. ASSUME MissMpu
      PROVE  pc # "idle" /\ UNCHANGED <<g_sensor_ready, ready_before, g_mpu_cal_count>>
    BY <1>8 DEF MissMpu, calVars, bodyVars
<1>9. CASE PickUp
    BY <1>9 DEF PickUp, Seen, calVars, bodyVars
<1>10. CASE UNCHANGED vars
    BY <1>10 DEF vars, Seen, calVars, bodyVars
<1> QED BY <1>e, <1>1, <1>2, <1>3, <1>4, <1>5, <1>6, <1>7, <1>8, <1>9, <1>10, Zenon DEF Acts

LEMMA InitIsSensorInit == Init => Outcomes!SensorInit
BY DEF Init, Outcomes!SensorInit

(* The probe, transaction by transaction, implements the whole probe that  *)
(* the poll loop of BringupLoop takes as one step: samples are counted     *)
(* once and up to the target, and g_sensor_ready is what one outcome gives.*)
THEOREM ProbeHasOutcomeHolds == Spec => ProbeHasOutcome
<1>1. ProbeInv /\ [Next]_vars => [Outcomes!SensorNext]_<<g_mpu_cal_count,
          IF pc = "idle" THEN g_sensor_ready ELSE ready_before>>
    BY ProbeStepIsOutcome DEF Seen
<1> QED BY <1>1, ProbeInvHolds, InitIsSensorInit, PTL
        DEF Spec, ProbeHasOutcome, Outcomes!SensorSpec
-----------------------------------------------------------------------------
(* The attitude.                                                           *)
\* Of two fractions the larger one has the larger quotient.
LEMMA QuotientsOrdered ==
    ASSUME NEW a \in Nat, NEW b \in Nat \ {0}, NEW c \in Nat, NEW d \in Nat \ {0}, c * b <= a * d
    PROVE  c \div d <= a \div b
<1> DEFINE q == a \div b
           r == c \div d
<1>1. q \in Nat /\ a < b * q + b /\ r \in Nat /\ d * r <= c
    BY DivIs
<1> HIDE DEF q, r
<1>2. ASSUME q < r PROVE FALSE
    <2> DEFINE bd == b * d
    <2>1. bd \in Nat
        OBVIOUS
    <2>2. a * d < (b * q + b) * d
        <3> DEFINE e == b * q + b
        <3>1. e \in Nat /\ a < e
            BY <1>1
        <3> HIDE DEF e
        <3>2. a * d < e * d
            BY <3>1
        <3> QED BY <3>2 DEF e
    <2>3. (b * q + b) * d = bd * (q + 1)
        BY <1>1
    <2>4. bd * (q + 1) <= bd * r
        <3>1. q + 1 <= r
            BY <1>1, <1>2
        <3> HIDE DEF bd
        <3> QED BY <1>1, <2>1, <3>1
    <2>5. bd * r = b * (d * r)
        BY <1>1
    <2>6. b * (d * r) <= b * c
        <3> DEFINE dr == d * r
        <3>1. dr \in Nat /\ dr <= c
            BY <1>1
        <3> HIDE DEF dr
        <3>2. b * dr <= b * c
            BY <3>1
        <3> QED BY <3>2 DEF dr
    <2>7. b * c = c * b
        OBVIOUS
    <2> DEFINE ad == a * d  m == (b * q + b) * d  m1 == bd * (q + 1)  n1 == bd * r
               k == b * (d * r)  bc == b * c  cb == c * b
    <2>8. /\ ad \in Int /\ m \in Int /\ m1 \in Int /\ n1 \in Int
          /\ k \in Int /\ bc \in Int /\ cb \in Int
        BY <1>1
    <2>9. ad < m /\ m = m1 /\ m1 <= n1 /\ n1 = k /\ k <= bc /\ bc = cb /\ cb <= ad
        BY <2>2, <2>3, <2>4, <2>5, <2>6, <2>7
    <2> HIDE DEF ad, m, m1, n1, k, bc, cb
    <2> QED BY <2>8, <2>9
<1> QED BY <1>1, <1>2 DEF q, r

\* Either half of a quarter turn: up to 45 degrees, and from there on.
LEMMA BaseHalves ==
    ASSUME NEW y \in Nat, NEW x \in Nat, x > 0 \/ y > 0
    PROVE  /\ AtanBase(y, x) \in Nat
           /\ x >= y => AtanBase(y, x) = (y * 4500) \div x /\ AtanBase(y, x) <= 4500
           /\ x < y => /\ AtanBase(y, x) = 9000 - (x * 4500) \div y
                       /\ AtanBase(y, x) >= 4500
<1>1. ASSUME NEW a \in Nat, NEW b \in Nat \ {0}, a <= b
      PROVE  (a * 4500) \div b \in Nat /\ (a * 4500) \div b <= 4500
    <2> DEFINE q == (a * 4500) \div b
    <2>1. q \in Nat /\ b * q <= a * 4500
        <3>1. a * 4500 \in Nat
            OBVIOUS
        <3> QED BY <3>1, DivIs
    <2> HIDE DEF q
    <2>2. ASSUME q > 4500 PROVE FALSE
        <3>1. b * q >= b * 4501
            BY <2>1, <2>2
        <3>2. b * q > a * 4500
            BY <1>1, <3>1, <2>1
        <3> DEFINE bq == b * q
        <3>3. bq \in Nat /\ bq > a * 4500 /\ bq <= a * 4500
            BY <2>1, <3>2
        <3> HIDE DEF bq
        <3> QED BY <3>3
    <2> QED BY <2>1, <2>2 DEF q
<1>2. CASE x >= y
    <2>1. (y * 4500) \div x \in Nat /\ (y * 4500) \div x <= 4500
        BY <1>1, <1>2
    <2>2. AtanBase(y, x) = (y * 4500) \div x
        BY <1>2 DEF AtanBase
    <2> DEFINE q == (y * 4500) \div x
    <2>3. q \in Nat /\ q <= 4500 /\ AtanBase(y, x) = q
        BY <2>1, <2>2
    <2>4. AtanBase(y, x) \in Nat /\ AtanBase(y, x) <= 4500
        <3> HIDE DEF q
        <3> QED BY <2>3
    <2> HIDE DEF q
    <2> QED BY <1>2, <2>2, <2>4
<1>3. CASE x < y
    <2>1. (x * 4500) \div y \in Nat /\ (x * 4500) \div y <= 4500
        BY <1>1, <1>3
    <2>2. AtanBase(y, x) = 9000 - (x * 4500) \div y
        BY <1>3 DEF AtanBase
    <2> DEFINE q == (x * 4500) \div y
    <2>3. q \in Nat /\ q <= 4500 /\ AtanBase(y, x) = 9000 - q
        BY <2>1, <2>2
    <2>4. AtanBase(y, x) \in Nat /\ AtanBase(y, x) >= 4500
        <3> HIDE DEF q
        <3> QED BY <2>3
    <2> HIDE DEF q
    <2> QED BY <1>3, <2>2, <2>4
<1> QED BY <1>2, <1>3

\* The larger ratio has the larger angle, within a quarter turn.
LEMMA BaseOrdered ==
    ASSUME NEW y1 \in Nat, NEW x1 \in Nat \ {0}, NEW y2 \in Nat, NEW x2 \in Nat \ {0},
           y2 * x1 <= y1 * x2
    PROVE  AtanBase(y2, x2) <= AtanBase(y1, x1)
<1>1. CASE x1 >= y1 /\ x2 >= y2
    <2>1. (y2 * 4500) * x1 <= (y1 * 4500) * x2
        <3>1. (y2 * 4500) * x1 = 4500 * (y2 * x1) /\ (y1 * 4500) * x2 = 4500 * (y1 * x2)
            OBVIOUS
        <3> QED BY <3>1
    <2>2. y1 * 4500 \in Nat /\ y2 * 4500 \in Nat
        OBVIOUS
    <2>3. (y2 * 4500) \div x2 <= (y1 * 4500) \div x1
        <3> DEFINE a == y1 * 4500  c == y2 * 4500
        <3>1. a \in Nat /\ c \in Nat /\ c * x1 <= a * x2
            BY <2>1, <2>2
        <3> HIDE DEF a, c
        <3>2. c \div x2 <= a \div x1
            BY <3>1, QuotientsOrdered
        <3> QED BY <3>2 DEF a, c
    <2>4. AtanBase(y2, x2) = (y2 * 4500) \div x2 /\ AtanBase(y1, x1) = (y1 * 4500) \div x1
        BY <1>1, BaseHalves
    <2> QED BY <2>3, <2>4
<1>2. CASE x1 < y1 /\ x2 < y2
    <2>1. (x1 * 4500) * y2 <= (x2 * 4500) * y1
        <3>1. (x1 * 4500) * y2 = 4500 * (y2 * x1) /\ (x2 * 4500) * y1 = 4500 * (y1 * x2)
            OBVIOUS
        <3> QED BY <3>1
    <2>2. x1 * 4500 \in Nat /\ x2 * 4500 \in Nat /\ y1 \in Nat \ {0} /\ y2 \in Nat \ {0}
        BY <1>2
    <2>3. (x1 * 4500) \div y1 <= (x2 * 4500) \div y2
        <3> DEFINE a == x2 * 4500  c == x1 * 4500
        <3>1. a \in Nat /\ c \in Nat /\ c * y2 <= a * y1
            BY <2>1, <2>2
        <3> HIDE DEF a, c
        <3>2. c \div y1 <= a \div y2
            <4>1. y1 \in Nat \ {0} /\ y2 \in Nat \ {0}
                BY <2>2
            <4> QED BY <3>1, <4>1, QuotientsOrdered
        <3> QED BY <3>2 DEF a, c
    <2>4. /\ AtanBase(y2, x2) = 9000 - (x2 * 4500) \div y2
          /\ AtanBase(y1, x1) = 9000 - (x1 * 4500) \div y1
        BY <1>2, BaseHalves
    <2>5. (x1 * 4500) \div y1 \in Int /\ (x2 * 4500) \div y2 \in Int
        BY <2>2, DivIs
    <2> QED BY <2>3, <2>4, <2>5
<1>3. CASE x1 < y1 /\ x2 >= y2
    <2>1. AtanBase(y2, x2) <= 4500 /\ AtanBase(y1, x1) >= 4500
        BY <1>3, BaseHalves
    <2>2. AtanBase(y2, x2) \in Int /\ AtanBase(y1, x1) \in Int
        BY BaseHalves
    <2> QED BY <2>1, <2>2
<1>4. CASE x1 >= y1 /\ x2 < y2
    <2>1. y2 * x1 > x2 * x1
        BY <1>4
    <2>2. x2 * x1 >= y1 * x2
        BY <1>4
    <2> DEFINE a == y2 * x1  b == x2 * x1  c == y1 * x2
    <2>3. a \in Nat /\ b \in Nat /\ c \in Nat /\ a > b /\ b >= c /\ a <= c
        BY <2>1, <2>2
    <2> HIDE DEF a, b, c
    <2> QED BY <2>3
<1> QED BY <1>1, <1>2, <1>3, <1>4

\* The larger slope has the larger angle, in the half turn where x is positive.
LEMMA AtanOrdered ==
    ASSUME NEW y1 \in Int, NEW x1 \in Nat \ {0}, NEW y2 \in Int, NEW x2 \in Nat \ {0},
           y2 * x1 <= y1 * x2
    PROVE  amp_atan2_cd_approx(y2, x2) <= amp_atan2_cd_approx(y1, x1)
<1>1. ASSUME NEW y \in Int, NEW x \in Nat \ {0}
      PROVE  /\ y >= 0 => /\ amp_atan2_cd_approx(y, x) = AtanBase(y, x)
                          /\ AtanBase(y, x) \in Nat
             /\ y < 0 => /\ amp_atan2_cd_approx(y, x) = -AtanBase(-y, x)
                         /\ AtanBase(-y, x) \in Nat
    <2>1. amp_abs32_to_u32(x) = x
        BY DEF amp_abs32_to_u32
    <2>2. CASE y >= 0
        <3>1. amp_abs32_to_u32(y) = y /\ y \in Nat
            BY <2>2 DEF amp_abs32_to_u32
        <3> QED BY <2>1, <2>2, <3>1, BaseHalves DEF amp_atan2_cd_approx
    <2>3. CASE y < 0
        <3>1. amp_abs32_to_u32(y) = -y /\ -y \in Nat
            BY <2>3 DEF amp_abs32_to_u32
        <3>2. AtanBase(-y, x) \in Nat
            BY <3>1, BaseHalves
        <3> QED BY <2>1, <2>3, <3>1, <3>2 DEF amp_atan2_cd_approx
    <2> QED BY <2>2, <2>3
<1>2. CASE y1 >= 0 /\ y2 >= 0
    <2>1. AtanBase(y2, x2) <= AtanBase(y1, x1)
        BY <1>2, BaseOrdered
    <2> QED BY <1>1, <1>2, <2>1
<1>3. CASE y1 < 0 /\ y2 < 0
    <2>1. -y1 \in Nat /\ -y2 \in Nat
        BY <1>3
    <2>2. (-y1) * x2 <= (-y2) * x1
        <3>1. (-y1) * x2 = -(y1 * x2) /\ (-y2) * x1 = -(y2 * x1)
            OBVIOUS
        <3> QED BY <3>1
    <2>3. AtanBase(-y1, x1) <= AtanBase(-y2, x2)
        BY <2>1, <2>2, BaseOrdered
    <2> QED BY <1>1, <1>3, <2>3
<1>4. CASE y1 >= 0 /\ y2 < 0
    BY <1>1, <1>4
<1>5. CASE y1 < 0 /\ y2 >= 0
    <2>1. y1 * x2 < 0 /\ y2 * x1 >= 0
        BY <1>5
    <2> DEFINE a == y1 * x2  b == y2 * x1
    <2>2. a \in Int /\ b \in Int /\ a < 0 /\ b >= 0 /\ b <= a
        BY <2>1
    <2> HIDE DEF a, b
    <2> QED BY <2>2
<1> QED BY <1>2, <1>3, <1>4, <1>5

\* Straight up, and straight down.
LEMMA AtanUpright ==
    ASSUME NEW y \in Int
    PROVE  amp_atan2_cd_approx(y, 0) = IF y > 0 THEN 9000 ELSE IF y < 0 THEN -9000 ELSE 0
<1>1. ASSUME NEW a \in Nat \ {0} PROVE AtanBase(a, 0) = 9000
    <2>1. (0 * 4500) \div a = 0
        OBVIOUS
    <2> QED BY <2>1 DEF AtanBase
<1>2. amp_abs32_to_u32(0) = 0
    BY DEF amp_abs32_to_u32
<1>3. CASE y > 0
    <2>1. amp_abs32_to_u32(y) = y /\ AtanBase(y, 0) = 9000
        BY <1>1, <1>3 DEF amp_abs32_to_u32
    <2> QED BY <1>2, <1>3, <2>1 DEF amp_atan2_cd_approx
<1>4. CASE y < 0
    <2>1. amp_abs32_to_u32(y) = -y /\ AtanBase(-y, 0) = 9000
        BY <1>1, <1>4 DEF amp_abs32_to_u32
    <2> QED BY <1>2, <1>4, <2>1 DEF amp_atan2_cd_approx
<1>5. CASE y = 0
    BY <1>5 DEF amp_atan2_cd_approx
<1> QED BY <1>3, <1>4, <1>5

\* At the same distance the higher point has the larger angle.
LEMMA AtanRises ==
    ASSUME NEW y1 \in Int, NEW y2 \in Int, NEW x \in Nat, y2 <= y1
    PROVE  amp_atan2_cd_approx(y2, x) <= amp_atan2_cd_approx(y1, x)
<1>1. CASE x = 0
    BY <1>1, AtanUpright
<1>2. CASE x # 0
    <2>1. y2 * x <= y1 * x
        OBVIOUS
    <2> QED BY <1>2, <2>1, AtanOrdered
<1> QED BY <1>1, <1>2

\* As far up as ahead is 45 degrees.
LEMMA AtanDiagonal ==
    ASSUME NEW x \in Nat \ {0}
    PROVE  amp_atan2_cd_approx(x, x) = 4500 /\ amp_atan2_cd_approx(-x, x) = -4500
<1>1. AtanBase(x, x) = 4500
    <2> DEFINE q == (x * 4500) \div x
    <2>1. AtanBase(x, x) = q
        BY DEF AtanBase
    <2>2. q \in Nat /\ x * q <= x * 4500 /\ x * 4500 < x * q + x
        <3>1. x * 4500 \in Nat
            OBVIOUS
        <3> QED BY <3>1, DivIs
    <2> HIDE DEF q
    <2>3. x * q + x = x * (q + 1)
        BY <2>2
    <2>4. ASSUME q > 4500 PROVE FALSE
        <3>1. x * q > x * 4500
            BY <2>2, <2>4
        <3> DEFINE a == x * q  b == x * 4500
        <3>2. a \in Nat /\ b \in Nat /\ a > b /\ a <= b
            BY <2>2, <3>1
        <3> HIDE DEF a, b
        <3> QED BY <3>2
    <2>5. ASSUME q < 4500 PROVE FALSE
        <3>1. x * (q + 1) <= x * 4500
            BY <2>2, <2>5
        <3> DEFINE a == x * (q + 1)  b == x * 4500
        <3>2. a \in Nat /\ b \in Nat /\ a <= b /\ b < a
            BY <2>2, <2>3, <3>1
        <3> HIDE DEF a, b
        <3> QED BY <3>2
    <2> QED BY <2>1, <2>2, <2>4, <2>5
<1>2. amp_abs32_to_u32(x) = x /\ amp_abs32_to_u32(-x) = x
    BY DEF amp_abs32_to_u32
<1>3. amp_atan2_cd_approx(x, x) = AtanBase(x, x)
    BY <1>2 DEF amp_atan2_cd_approx
<1>4. amp_atan2_cd_approx(-x, x) = -AtanBase(x, x)
    BY <1>2 DEF amp_atan2_cd_approx
<1> QED BY <1>1, <1>3, <1>4

\* The root of a square of a reading is the reading.
LEMMA RootOfSquare ==
    ASSUME NEW x \in Nat, x < 65536
    PROVE  amp_isqrt64(x * x) = x
<1> DEFINE xx == x * x
           r == amp_isqrt64(xx)
<1>1. xx \in Nat /\ xx < 65536 * 65536
    <2>1. x * x <= 65535 * 65535
        OBVIOUS
    <2> QED BY <2>1
<1>2. r \in Nat /\ r * r <= xx /\ xx < (r + 1) * (r + 1)
    <2> HIDE DEF xx
    <2> QED BY <1>1, IsqrtRoundsDown DEF IsRoot
<1> HIDE DEF r
<1>3. ASSUME r > x PROVE FALSE
    <2>1. r * r > x * x
        BY <1>2, <1>3
    <2> DEFINE rr == r * r
    <2>2. rr \in Nat /\ rr > xx /\ rr <= xx
        BY <1>2, <2>1
    <2> HIDE DEF rr, xx
    <2> QED BY <1>1, <2>2
<1>4. ASSUME r < x PROVE FALSE
    <2>1. (r + 1) * (r + 1) <= x * x
        <3>1. r + 1 \in Nat /\ r + 1 <= x
            BY <1>2, <1>4
        <3> DEFINE s == r + 1
        <3> HIDE DEF s
        <3>2. s * s <= x * x
            BY <3>1 DEF s
        <3> QED BY <3>2 DEF s
    <2> DEFINE ss == (r + 1) * (r + 1)
    <2>2. ss \in Nat /\ ss <= xx /\ xx < ss
        BY <1>2, <2>1
    <2> HIDE DEF ss, xx
    <2> QED BY <1>1, <2>2
<1>5. r = x
    BY <1>2, <1>3, <1>4
<1> QED BY <1>5 DEF r

(* The integer attitude never turns the wrong way: between any two         *)
(* readings of 16 bits the larger lean has the larger angle in roll and    *)
(* pitch, and 45 degrees are exact, square root included.                  *)
THEOREM AttitudeFollowsTiltHolds == Spec => []AttitudeFollowsTilt
<1>1. ASSUME ProbeInv, pc = "idle", g_sensor_ready
      PROVE  LET acc == g_mpu.acc
             IN  /\ \A t \in Tilts :
                       /\ acc.z > 0 /\ t.z > 0 /\ acc.y * t.z >= t.y * acc.z
                             => g_body.roll >= BodyRoll(t, g_level)
                       /\ acc.y = t.y /\ acc.z = t.z /\ acc.x >= t.x
                             => g_body.pitch >= BodyPitch(t, g_level)
                 /\ acc.y = acc.z /\ acc.z > 0 => g_body.roll + g_level.roll = 4500
                 /\ acc.x > 0 /\ acc.x * acc.x = acc.y * acc.y + acc.z * acc.z
                       => g_body.pitch - g_level.pitch = 4500
    <2> DEFINE acc == g_mpu.acc
    <2>1. /\ acc \in Accs
          /\ g_level.roll \in Int /\ g_level.pitch \in Int
          /\ Roll(acc) \in Int /\ Pitch(acc) \in Int
          /\ g_body.roll = Roll(acc) - g_level.roll
          /\ g_body.pitch = -(Pitch(acc) - g_level.pitch)
        BY <1>1, ReadyFacts
    <2> HIDE DEF acc
    <2>2. \A t \in Accs : t.x \in Int /\ t.y \in Int /\ t.z \in Int
        BY Int16IsInt DEF Accs
    <2>3. ASSUME NEW t \in Tilts
          PROVE  /\ acc.z > 0 /\ t.z > 0 /\ acc.y * t.z >= t.y * acc.z
                       => g_body.roll >= BodyRoll(t, g_level)
                 /\ acc.y = t.y /\ acc.z = t.z /\ acc.x >= t.x
                       => g_body.pitch >= BodyPitch(t, g_level)
        <3>1. t \in Accs
            BY SensorProbeAssumption DEF Accs
        <3>2. Roll(t) \in Int /\ Pitch(t) \in Int
            BY <3>1, AnglesAreInt
        <3>3. BodyRoll(t, g_level) = Roll(t) - g_level.roll
            BY DEF BodyRoll
        <3>4. BodyPitch(t, g_level) = -(Pitch(t) - g_level.pitch)
            BY <2>1, <3>2 DEF BodyPitch, BODY_PITCH_SIGN
        <3>5. ASSUME acc.z > 0, t.z > 0, acc.y * t.z >= t.y * acc.z
              PROVE  g_body.roll >= BodyRoll(t, g_level)
            <4>1. acc.z \in Nat \ {0} /\ t.z \in Nat \ {0} /\ acc.y \in Int /\ t.y \in Int
                BY <2>1, <2>2, <3>1, <3>5
            <4>2. t.y * acc.z <= acc.y * t.z
                BY <3>5, <4>1
            <4>3. Roll(t) <= Roll(acc)
                BY <4>1, <4>2, AtanOrdered DEF Roll
            <4> QED BY <2>1, <3>2, <3>3, <4>3
        <3>6. ASSUME acc.y = t.y, acc.z = t.z, acc.x >= t.x
              PROVE  g_body.pitch >= BodyPitch(t, g_level)
            <4> DEFINE root == amp_isqrt64(acc.y * acc.y + acc.z * acc.z)
            <4>1. acc.x \in Int /\ t.x \in Int /\ acc.y \in Int /\ acc.z \in Int
                BY <2>1, <2>2, <3>1
            <4>2. root \in Nat
                BY <4>1, SquaresAreNat, IsqrtIsNat
            <4>3. Pitch(acc) = amp_atan2_cd_approx(-acc.x, root)
                  /\ Pitch(t) = amp_atan2_cd_approx(-t.x, root)
                BY <3>6 DEF Pitch
            <4> HIDE DEF root
            <4>4. -acc.x \in Int /\ -t.x \in Int /\ -acc.x <= -t.x
                BY <3>6, <4>1
            <4>5. Pitch(acc) <= Pitch(t)
                BY <4>2, <4>3, <4>4, AtanRises
            <4> QED BY <2>1, <3>2, <3>4, <4>5
        <3> QED BY <3>5, <3>6
    <2>4. ASSUME acc.y = acc.z, acc.z > 0 PROVE g_body.roll + g_level.roll = 4500
        <3>1. acc.z \in Nat \ {0}
            BY <2>1, <2>2, <2>4
        <3>2. Roll(acc) = 4500
            BY <2>4, <3>1, AtanDiagonal DEF Roll
        <3> QED BY <2>1, <3>2
    <2>5. ASSUME acc.x > 0, acc.x * acc.x = acc.y * acc.y + acc.z * acc.z
          PROVE  g_body.pitch - g_level.pitch = 4500
        <3>1. acc.x \in Nat \ {0} /\ acc.x < 65536
            <4>1. acc.x \in Int16
                BY <2>1 DEF Accs
            <4>2. acc.x \in Int /\ acc.x <= 32767
                BY <4>1, Int16Below
            <4>3. acc.x > 0
                BY <2>5
            <4> QED BY <4>2, <4>3
        <3>2. amp_isqrt64(acc.x * acc.x) = acc.x
            BY <3>1, RootOfSquare
        <3>3. amp_isqrt64(acc.y * acc.y + acc.z * acc.z) = acc.x
            BY <2>5, <3>2, Zenon
        <3>4. Pitch(acc) = amp_atan2_cd_approx(-acc.x, acc.x)
            BY <3>3 DEF Pitch
        <3>5. Pitch(acc) = -4500
            BY <3>1, <3>4, AtanDiagonal
        <3> QED BY <2>1, <3>5
    <2> QED BY <2>3, <2>4, <2>5, SMT DEF acc
<1>2. ProbeInv => AttitudeFollowsTilt
    BY <1>1, SMT DEF AttitudeFollowsTilt
<1> QED BY ProbeInvHolds, <1>2, PTL
=============================================================================
