---------------------------- MODULE I2cBusProofs ----------------------------
(***************************************************************************)
(* Theorems about the bit-banged I2C of comm_main.c for bytes of any       *)
(* length and transactions of any number of bytes: a transaction that      *)
(* finds the sensor idle moves what it claims to have moved and leaves the *)
(* sensor idle, whatever byte the sensor refuses; and a sensor that was in *)
(* the middle of a byte at a restart is idle again after as many           *)
(* transactions as a byte has bits.                                        *)
(***************************************************************************)
EXTENDS I2cBus, SequenceTheorems, TLAPS

Binary == {0, 1}
Receiving == {"address", "pointer", "write"}

LEMMA BitsFact == Bits \in Nat /\ Bits >= 2
BY I2cBusAssumption

\* The byte of a small number.
LEMMA RegByteIs ==
    ASSUME NEW n \in 0..3
    PROVE  /\ RegByte(n) \in Bytes /\ RegByte(n)[Bits] = n % 2 /\ RegByte(n)[Bits - 1] = n \div 2
           /\ Number(RegByte(n)) = n
<1>1. n % 2 \in Binary /\ n \div 2 \in Binary /\ 2 * (n \div 2) + (n % 2) = n
    BY DEF Binary
<1>2. Bits \in 1..Bits /\ Bits - 1 \in 1..Bits /\ Bits # Bits - 1
    BY BitsFact
<1>3. RegByte(n) \in Bytes
    BY <1>1 DEF RegByte, Bytes, Binary
<1>4. RegByte(n)[Bits] = n % 2 /\ RegByte(n)[Bits - 1] = n \div 2
    BY <1>2 DEF RegByte
<1> QED BY <1>1, <1>3, <1>4 DEF Number

\* A byte is a sequence of its bits.
LEMMA ByteIsSeq ==
    ASSUME NEW v \in Bytes
    PROVE  /\ v \in Seq(Binary) /\ Len(v) = Bits /\ v # <<>>
           /\ Head(v) = v[1] /\ v[1] \in Binary
           /\ Tail(v) \in Seq(Binary) /\ Len(Tail(v)) = Bits - 1
           /\ \A x \in 1..Bits - 1 : Tail(v)[x] = v[x + 1]
<1>1. v \in Seq(Binary) /\ Len(v) = Bits
    BY BitsFact DEF Bytes, Binary
<1>2. v # <<>>
    BY <1>1, BitsFact
<1> QED BY <1>1, <1>2, BitsFact, HeadTailProperties DEF Bytes, Binary

\* A sequence of Bits bits is a byte, and one with the bits of a byte is this byte.
LEMMA SeqIsByte ==
    ASSUME NEW q \in Seq(Binary), Len(q) = Bits
    PROVE  /\ q \in Bytes
           /\ \A v \in Bytes : (\A x \in 1..Bits : q[x] = v[x]) => q = v
<1>1. q \in [1..Bits -> Binary]
    BY LenProperties
<1> QED BY <1>1 DEF Bytes, Binary
-----------------------------------------------------------------------------
(* What the sensor can be, in any transaction and after any restart.       *)
Sensors ==
    [phase : {"idle", "address", "pointer", "write", "read"}, slot : {"bits", "ack"},
     got : Seq(Binary), left : Seq(Binary), drive : Binary, acked : BOOLEAN,
     ptr : 0..3, mem : [0..3 -> Bytes]]

\* A sensor that waits for a start drives nothing, and one that acknowledges has a byte.
SensorOk(s) ==
    /\ s \in Sensors
    /\ s.phase = "idle" => s.drive = 1
    /\ s.phase \in Receiving /\ s.slot = "ack" => Len(s.got) = Bits

LEMMA LevelIs ==
    ASSUME NEW m \in Binary, NEW s, SensorOk(s)
    PROVE  /\ Level(m, s) \in Binary
           /\ s.drive = 1 => Level(m, s) = m
           /\ m = 1 => Level(m, s) = s.drive
BY DEF Level, SensorOk, Sensors, Binary

\* A start or a stop resets what belongs to the byte under way.
LEMMA StartStop ==
    ASSUME NEW s, SensorOk(s)
    PROVE  /\ SensorOk(OnStart(s)) /\ SensorOk(OnStop(s))
           /\ OnStart(s).phase = "address" /\ OnStart(s).slot = "bits" /\ OnStart(s).got = <<>>
           /\ OnStart(s).drive = 1 /\ OnStart(s).ptr = s.ptr /\ OnStart(s).mem = s.mem
           /\ OnStop(s).phase = "idle" /\ OnStop(s).drive = 1 /\ OnStop(s).mem = s.mem
<1>1. <<>> \in Seq(Binary) /\ Len(<<>>) = 0
    OBVIOUS
<1> QED BY <1>1, BitsFact DEF OnStart, OnStop, WithBus, Sleeping, SensorOk, Sensors, Receiving, Binary

\* A rising edge brings a bit, or tells whether the byte sent was wanted.
LEMMA RiseIs ==
    ASSUME NEW s, SensorOk(s), NEW level \in Binary
    PROVE  /\ SensorOk(OnRise(s, level))
           /\ OnRise(s, level).phase = s.phase /\ OnRise(s, level).slot = s.slot
           /\ OnRise(s, level).drive = s.drive /\ OnRise(s, level).left = s.left
           /\ OnRise(s, level).ptr = s.ptr /\ OnRise(s, level).mem = s.mem
           /\ OnRise(s, level).got = IF s.phase \in Receiving /\ s.slot = "bits" THEN Append(s.got, level)
                                     ELSE s.got
           /\ s.phase = "read" /\ s.slot = "ack" => OnRise(s, level).acked = (level = 0)
<1>1. Append(s.got, level) \in Seq(Binary)
    BY AppendProperties DEF SensorOk, Sensors
<1> QED BY <1>1 DEF OnRise, SensorOk, Sensors, Receiving

\* The first bit of the register the sensor points at.
LEMMA SendByteIs ==
    ASSUME NEW s, SensorOk(s)
    PROVE  /\ SensorOk(SendByte(s))
           /\ SendByte(s).phase = "read" /\ SendByte(s).slot = "bits"
           /\ SendByte(s).drive = s.mem[s.ptr][1] /\ SendByte(s).left = Tail(s.mem[s.ptr])
           /\ SendByte(s).ptr = (s.ptr + 1) % 4 /\ SendByte(s).mem = s.mem
<1>1. s.mem[s.ptr] \in Bytes
    BY DEF SensorOk, Sensors
<1>2. Head(s.mem[s.ptr]) = s.mem[s.ptr][1] /\ s.mem[s.ptr][1] \in Binary
      /\ Tail(s.mem[s.ptr]) \in Seq(Binary)
    BY <1>1, ByteIsSeq
<1>3. (s.ptr + 1) % 4 \in 0..3
    BY DEF SensorOk, Sensors
<1>4. <<>> \in Seq(Binary)
    OBVIOUS
<1> QED BY <1>2, <1>3, <1>4 DEF SendByte, NextReg, SensorOk, Sensors, Receiving

\* What an acknowledged byte does.
LEMMA AcceptIs ==
    ASSUME NEW s, SensorOk(s), s.phase \in Receiving, s.slot = "ack"
    PROVE  /\ SensorOk(Accept(s))
           /\ s.phase = "address" /\ s.got[Bits] = Read => Accept(s) = SendByte(s)
           /\ ~(s.phase = "address" /\ s.got[Bits] = Read) =>
                 Accept(s).slot = "bits" /\ Accept(s).got = <<>> /\ Accept(s).drive = 1
           /\ s.phase = "address" /\ s.got[Bits] = Write =>
                 Accept(s).phase = "pointer" /\ Accept(s).mem = s.mem /\ Accept(s).ptr = s.ptr
           /\ s.phase = "pointer" =>
                 Accept(s).phase = "write" /\ Accept(s).ptr = Number(s.got) /\ Accept(s).mem = s.mem
           /\ s.phase = "write" =>
                 Accept(s).phase = "write" /\ Accept(s).mem = [s.mem EXCEPT ![s.ptr] = s.got]
<1>1. s.got \in Bytes
    BY SeqIsByte DEF SensorOk, Sensors
<1>2. Bits \in 1..Bits /\ Bits - 1 \in 1..Bits
    BY BitsFact
<1>3. s.got[Bits] \in {0, 1} /\ s.got[Bits - 1] \in {0, 1}
    BY <1>1, <1>2 DEF Bytes
<1>4. Number(s.got) \in 0..3
    BY <1>3 DEF Number
<1>5. NextReg(s.ptr) \in 0..3
    BY DEF NextReg, SensorOk, Sensors
<1>6. <<>> \in Seq(Binary)
    OBVIOUS
<1>7. s \in Sensors
    BY DEF SensorOk
<1>8. ASSUME NEW t \in Sensors, NEW phase \in Receiving, NEW ptr \in 0..3
      PROVE  /\ SensorOk(NextByte(t, phase, ptr))
             /\ NextByte(t, phase, ptr).phase = phase /\ NextByte(t, phase, ptr).slot = "bits"
             /\ NextByte(t, phase, ptr).got = <<>> /\ NextByte(t, phase, ptr).drive = 1
             /\ NextByte(t, phase, ptr).ptr = ptr /\ NextByte(t, phase, ptr).mem = t.mem
    BY <1>6 DEF NextByte, SensorOk, Sensors, Receiving, Binary
<1>13. Stored(s) \in Sensors /\ Stored(s).mem = [s.mem EXCEPT ![s.ptr] = s.got]
    <2>1. [s.mem EXCEPT ![s.ptr] = s.got] \in [0..3 -> Bytes]
        BY <1>1, <1>7 DEF Sensors
    <2> QED BY <1>7, <2>1 DEF Stored, Sensors
<1>14. s.ptr \in 0..3 /\ Read # Write
    BY <1>7 DEF Sensors, Read, Write
<1>9. CASE s.phase = "address" /\ s.got[Bits] = Read
    <2>1. Accept(s) = SendByte(s)
        BY <1>9, <1>14 DEF Accept
    <2> QED BY <1>9, <1>14, <2>1, SendByteIs
<1>10. CASE s.phase = "address" /\ s.got[Bits] = Write
    <2>1. Accept(s) = NextByte(s, "pointer", s.ptr)
        BY <1>10, <1>14 DEF Accept
    <2> QED BY <1>7, <1>8, <1>10, <1>14, <2>1 DEF Receiving
<1>11. CASE s.phase = "pointer"
    <2>1. Accept(s) = NextByte(s, "write", Number(s.got))
        BY <1>11 DEF Accept
    <2> QED BY <1>4, <1>7, <1>8, <1>11, <2>1 DEF Receiving
<1>12. CASE s.phase = "write"
    <2>1. Accept(s) = NextByte(Stored(s), "write", NextReg(s.ptr))
        BY <1>12 DEF Accept
    <2> QED BY <1>5, <1>8, <1>12, <1>13, <2>1 DEF Receiving
<1> QED BY <1>3, <1>9, <1>10, <1>11, <1>12 DEF Receiving, Read, Write

\* What a falling edge does.
LEMMA FallIs ==
    ASSUME NEW s, SensorOk(s), NEW willing \in BOOLEAN
    PROVE  /\ SensorOk(OnFall(s, willing))
           /\ s.phase = "idle" => OnFall(s, willing) = s
           /\ s.phase \in Receiving /\ s.slot = "bits" /\ Len(s.got) # Bits => OnFall(s, willing) = s
           /\ s.phase \in Receiving /\ s.slot = "bits" /\ Len(s.got) = Bits =>
                 \/ OnFall(s, willing) = OnStop(s)
                 \/ OnFall(s, willing) = [s EXCEPT !.slot = "ack", !.drive = 0]
           /\ s.phase \in Receiving /\ s.slot = "ack" => OnFall(s, willing) = Accept(s)
           /\ s.phase = "read" /\ s.slot = "bits" /\ s.left # <<>> =>
                 OnFall(s, willing) = [s EXCEPT !.drive = Head(s.left), !.left = Tail(s.left)]
           /\ s.phase = "read" /\ s.slot = "bits" /\ s.left = <<>> =>
                 OnFall(s, willing) = [s EXCEPT !.slot = "ack", !.drive = 1]
           /\ s.phase = "read" /\ s.slot = "ack" =>
                 OnFall(s, willing) = IF s.acked THEN SendByte(s) ELSE OnStop(s)
<1>s. s \in Sensors
    BY DEF SensorOk
<1>1. CASE s.phase = "idle"
    <2>1. OnFall(s, willing) = s
        BY <1>1 DEF OnFall
    <2> QED BY <1>1, <2>1 DEF Receiving
<1>2. CASE s.phase \in Receiving /\ s.slot = "bits" /\ Len(s.got) # Bits
    <2>1. OnFall(s, willing) = s
        BY <1>2 DEF OnFall, Receiving
    <2> QED BY <1>2, <2>1 DEF Receiving
<1>3. CASE s.phase \in Receiving /\ s.slot = "bits" /\ Len(s.got) = Bits
    <2>1. \/ OnFall(s, willing) = OnStop(s)
          \/ OnFall(s, willing) = [s EXCEPT !.slot = "ack", !.drive = 0]
        BY <1>3 DEF OnFall, Receiving
    <2>2. SensorOk([s EXCEPT !.slot = "ack", !.drive = 0])
        BY <1>3 DEF SensorOk, Sensors, Binary, Receiving
    <2> QED BY <1>3, <2>1, <2>2, StartStop DEF Receiving
<1>4. CASE s.phase \in Receiving /\ s.slot = "ack"
    <2>1. OnFall(s, willing) = Accept(s)
        BY <1>4 DEF OnFall, Receiving
    <2> QED BY <1>4, <2>1, AcceptIs DEF Receiving
<1>5. CASE s.phase = "read" /\ s.slot = "bits" /\ s.left # <<>>
    <2>1. OnFall(s, willing) = [s EXCEPT !.drive = Head(s.left), !.left = Tail(s.left)]
        BY <1>5 DEF OnFall
    <2>2. Head(s.left) \in Binary /\ Tail(s.left) \in Seq(Binary)
        BY <1>s, <1>5, HeadTailProperties DEF Sensors
    <2>3. SensorOk([s EXCEPT !.drive = Head(s.left), !.left = Tail(s.left)])
        BY <1>s, <1>5, <2>2 DEF SensorOk, Sensors, Receiving
    <2> QED BY <1>5, <2>1, <2>3 DEF Receiving
<1>6. CASE s.phase = "read" /\ s.slot = "bits" /\ s.left = <<>>
    <2>1. OnFall(s, willing) = [s EXCEPT !.slot = "ack", !.drive = 1]
        BY <1>6 DEF OnFall
    <2>2. SensorOk([s EXCEPT !.slot = "ack", !.drive = 1])
        BY <1>s, <1>6 DEF SensorOk, Sensors, Receiving, Binary
    <2> QED BY <1>6, <2>1, <2>2 DEF Receiving
<1>7. CASE s.phase = "read" /\ s.slot = "ack"
    <2>1. OnFall(s, willing) = IF s.acked THEN SendByte(s) ELSE OnStop(s)
        BY <1>7 DEF OnFall
    <2> QED BY <1>7, <2>1, SendByteIs, StartStop DEF Receiving
<1> QED BY <1>s, <1>1, <1>2, <1>3, <1>4, <1>5, <1>6, <1>7 DEF Sensors, Receiving
-----------------------------------------------------------------------------
(* Where the firmware is in its transaction.                               *)
Requests == [kind : {Read, Write}, dev : {0, 1}, reg : 0..3, val : Bytes, len : Nat]
RequestOk == request \in Requests /\ (call # 0 /\ request.kind = Read => request.len # 0)

\* The calls of a transaction.
Last == IF request.kind = Read THEN request.len + 7 ELSE 6
LEMMA CallsAre ==
    ASSUME RequestOk, call # 0
    PROVE  /\ Last \in Nat /\ Last >= 6 /\ Len(Calls) = Last
           /\ Calls[1] = Call("idle", 0, 0) /\ Calls[2] = Call("start", 0, 0)
           /\ Calls[3] = Sends(AddressByte(request.dev, Write), -1)
           /\ Calls[4] = Sends(RegByte(request.reg), -2)
           /\ request.kind = Write => Calls[5] = Sends(request.val, -3)
           /\ request.kind = Read => /\ Last >= 8 /\ Calls[5] = Call("start", 0, 0)
                                     /\ Calls[6] = Sends(AddressByte(request.dev, Read), -3)
           /\ request.kind = Read => \A i \in 7..Last - 1 :
                 Calls[i] = Call("read", IF i = Last - 1 THEN 1 ELSE 0, 0)
           /\ Calls[Last] = Call("stop", 0, 0)
<1>1. CASE request.kind = Write
    <2>1. Calls = WriteReg(request.dev, request.reg, request.val)
        BY <1>1 DEF Calls, Read, Write
    <2> QED BY <1>1, <2>1 DEF WriteReg, Last, Read, Write
<1>2. CASE request.kind = Read
    <2> DEFINE a == <<Call("idle", 0, 0), Call("start", 0, 0), Sends(AddressByte(request.dev, Write), -1),
                      Sends(RegByte(request.reg), -2), Call("start", 0, 0),
                      Sends(AddressByte(request.dev, Read), -3)>>
               b == [i \in 1..request.len |-> Call("read", IF i = request.len THEN 1 ELSE 0, 0)]
               e == <<Call("stop", 0, 0)>>
               S == {a[i] : i \in 1..6} \cup {b[i] : i \in 1..request.len} \cup {e[1]}
    <2>1. Calls = a \o b \o e
        BY <1>2 DEF Calls, ReadRegs
    <2>2. request.len \in Nat \ {0}
        BY <1>2 DEF RequestOk, Requests
    <2>3. /\ a \in Seq(S) /\ Len(a) = 6
          /\ b \in Seq(S) /\ Len(b) = request.len
          /\ e \in Seq(S) /\ Len(e) = 1
        <3>1. b \in [1..request.len -> S]
            OBVIOUS
        <3>2. /\ a[1] \in S /\ a[2] \in S /\ a[3] \in S /\ a[4] \in S /\ a[5] \in S /\ a[6] \in S
              /\ e[1] \in S
            OBVIOUS
        <3> HIDE DEF S
        <3>3. a \in Seq(S) /\ Len(a) = 6
            BY <3>2
        <3>4. e \in Seq(S) /\ Len(e) = 1
            BY <3>2
        <3> HIDE DEF a, b, e
        <3>5. b \in Seq(S) /\ Len(b) = request.len
            BY <2>2, <3>1
        <3> QED BY <3>3, <3>4, <3>5
    <2>4. /\ a[1] = Call("idle", 0, 0) /\ a[2] = Call("start", 0, 0)
          /\ a[3] = Sends(AddressByte(request.dev, Write), -1) /\ a[4] = Sends(RegByte(request.reg), -2)
          /\ a[5] = Call("start", 0, 0) /\ a[6] = Sends(AddressByte(request.dev, Read), -3)
          /\ \A i \in 1..request.len : b[i] = Call("read", IF i = request.len THEN 1 ELSE 0, 0)
          /\ e[1] = Call("stop", 0, 0)
        OBVIOUS
    <2> HIDE DEF a, b, e, S
    <2>5. /\ a \o b \in Seq(S) /\ Len(a \o b) = request.len + 6
          /\ \A i \in 1..request.len + 6 : (a \o b)[i] = IF i <= 6 THEN a[i] ELSE b[i - 6]
        <3>1. /\ a \o b \in Seq(S) /\ Len(a \o b) = Len(a) + Len(b)
              /\ \A i \in 1..Len(a) + Len(b) : (a \o b)[i] = IF i <= Len(a) THEN a[i] ELSE b[i - Len(a)]
            BY <2>3, ConcatProperties
        <3> QED BY <2>2, <2>3, <3>1
    <2>6. /\ Len(a \o b \o e) = request.len + 7
          /\ \A i \in 1..request.len + 7 :
                (a \o b \o e)[i] = IF i <= request.len + 6 THEN (a \o b)[i] ELSE e[i - (request.len + 6)]
        <3> DEFINE ab == a \o b
        <3>1. ab \in Seq(S) /\ Len(ab) = request.len + 6
            BY <2>5
        <3> HIDE DEF ab
        <3>2. /\ Len(ab \o e) = Len(ab) + Len(e)
              /\ \A i \in 1..Len(ab) + Len(e) : (ab \o e)[i] = IF i <= Len(ab) THEN ab[i] ELSE e[i - Len(ab)]
            BY <2>3, <3>1, ConcatProperties
        <3>3. /\ Len(ab \o e) = request.len + 7
              /\ \A i \in 1..request.len + 7 :
                    (ab \o e)[i] = IF i <= request.len + 6 THEN ab[i] ELSE e[i - (request.len + 6)]
            BY <2>2, <2>3, <3>1, <3>2
        <3> QED BY <3>3 DEF ab
    <2>7. Last = request.len + 7
        BY <1>2 DEF Last
    <2>8. \A i \in 1..6 : Calls[i] = a[i]
        <3>1. \A i \in 1..6 : i \in 1..request.len + 7 /\ i \in 1..request.len + 6
            BY <2>2
        <3>2. \A i \in 1..6 : (a \o b)[i] = a[i]
            BY <2>5, <3>1
        <3>3. \A i \in 1..6 : (a \o b \o e)[i] = (a \o b)[i]
            <4> TAKE i \in 1..6
            <4> DEFINE m == request.len + 6
            <4>1. i \in 1..request.len + 7 /\ i <= m
                BY <2>2
            <4>2. (a \o b \o e)[i] = IF i <= m THEN (a \o b)[i] ELSE e[i - m]
                BY <2>6, <4>1
            <4> HIDE DEF m
            <4> QED BY <4>1, <4>2
        <3> QED BY <2>1, <3>2, <3>3
    <2>9. \A i \in 7..Last - 1 : Calls[i] = b[i - 6]
        <3> TAKE i \in 7..Last - 1
        <3> DEFINE m == request.len + 6
        <3>1. i \in 1..request.len + 7 /\ i \in 1..request.len + 6 /\ i <= m /\ ~(i <= 6)
            BY <2>2, <2>7
        <3>2. (a \o b \o e)[i] = IF i <= m THEN (a \o b)[i] ELSE e[i - m]
            BY <2>6, <3>1
        <3>3. (a \o b)[i] = b[i - 6]
            BY <2>5, <3>1
        <3> HIDE DEF m
        <3> QED BY <2>1, <3>1, <3>2, <3>3
    <2>10. Calls[Last] = e[1]
        <3>1. ~(Last <= request.len + 6) /\ Last \in 1..request.len + 7 /\ Last - (request.len + 6) = 1
            BY <2>2, <2>7
        <3> QED BY <2>1, <2>6, <3>1
    <2>11. \A i \in 7..Last - 1 : Calls[i] = Call("read", IF i = Last - 1 THEN 1 ELSE 0, 0)
        BY <2>2, <2>4, <2>7, <2>9
    <2>12. Last \in Nat /\ Last >= 8 /\ Len(Calls) = Last /\ request.kind # Write
        BY <1>2, <2>1, <2>2, <2>6, <2>7 DEF Read, Write
    <2>13. \A i \in {1, 2, 3, 4, 5, 6} : Calls[i] = a[i]
        BY <2>8
    <2> QED BY <1>2, <2>4, <2>10, <2>11, <2>12, <2>13
<1> QED BY <1>1, <1>2 DEF RequestOk, Requests

\* What the firmware is at: a signal, a bit of a byte or its acknowledgement.
Unit ==
    IF call = 0 THEN "none"
    ELSE CASE Calls[call].do = "write" -> IF nth <= Bits THEN "wbit" ELSE "wack"
           [] Calls[call].do = "read" -> IF nth <= Bits THEN "rbit" ELSE "rack"
           [] OTHER -> Calls[call].do
\* Its pin operations.
Long == [none |-> 1, idle |-> 2, start |-> 4, stop |-> 3, wbit |-> 3, wack |-> 5, rbit |-> 5, rack |-> 4]

PlaceOk ==
    /\ RequestOk
    /\ call \in 0..Last
    /\ call = 0 => nth = 1
    /\ call # 0 => nth \in 1..BitsOf(Calls[call])
    /\ step \in Nat /\ 1 <= step /\ step <= Long[Unit]

\* The bit or byte of the call under way.
Value == Calls[call].v
Error == Calls[call].err

\* What the place says of the call.
LEMMA PlaceIs ==
    ASSUME PlaceOk
    PROVE  /\ Unit \in {"none", "idle", "start", "stop", "wbit", "wack", "rbit", "rack"}
           /\ Unit = "none" <=> call = 0
           /\ Unit = "idle" <=> call = 1
           /\ Unit = "start" <=> call = 2 \/ (call = 5 /\ request.kind = Read)
           /\ Unit = "stop" <=> call = Last
           /\ Unit \in {"wbit", "wack"} <=>
                 call \in {3, 4} \/ (call = 5 /\ request.kind = Write) \/ (call = 6 /\ request.kind = Read)
           /\ Unit \in {"rbit", "rack"} <=> request.kind = Read /\ 7 <= call /\ call < Last
           /\ Unit \in {"none", "idle", "start", "stop"} => nth = 1
           /\ Unit \in {"wbit", "rbit"} => nth \in 1..Bits
           /\ Unit \in {"wack", "rack"} => nth = Bits + 1
           /\ Unit \in {"wbit", "wack"} => /\ Value \in Bytes /\ Error \in {-1, -2, -3}
                                           /\ call = 3 => Value[Bits] = Write
                                           /\ call = 4 => Number(Value) = request.reg
                                           /\ call = 5 => Value = request.val
                                           /\ call = 6 => Value[Bits] = Read
           /\ Unit = "rack" => Value = IF call = Last - 1 THEN 1 ELSE 0
<1>c. /\ call \in Nat /\ call <= Last /\ Last \in Nat /\ Last >= 6 /\ Bits \in Nat /\ Bits >= 2
      /\ request.kind \in {Read, Write} /\ Read # Write
      /\ call # 0 => nth \in 1..BitsOf(Calls[call])
    <2>1. Last \in Nat /\ Last >= 6
        BY DEF PlaceOk, RequestOk, Requests, Last
    <2> QED BY <2>1, BitsFact DEF PlaceOk, RequestOk, Requests, Read, Write
<1>1. CASE call = 0
    BY <1>c, <1>1 DEF Unit, PlaceOk
<1>2. CASE call \in {1, 2} \/ call = Last \/ (call = 5 /\ request.kind = Read)
    <2>1. /\ Calls[call] = Call(IF call = 1 THEN "idle" ELSE IF call = Last THEN "stop" ELSE "start", 0, 0)
          /\ request.kind = Read => Last >= 8
        BY <1>c, <1>2, CallsAre DEF PlaceOk
    <2>2. Calls[call].do = IF call = 1 THEN "idle" ELSE IF call = Last THEN "stop" ELSE "start"
        BY <2>1 DEF Call
    <2>3. Unit = Calls[call].do /\ nth = 1
        BY <1>c, <1>2, <2>2 DEF Unit, BitsOf
    <2>4. request.kind = Write => Last = 6
        BY <1>c DEF Last
    <2> QED BY <1>c, <1>2, <2>1, <2>2, <2>3, <2>4
<1>3. CASE call \in {3, 4} \/ (call = 5 /\ request.kind = Write) \/ (call = 6 /\ request.kind = Read)
    <2>1. request.kind = Read => Last >= 8
        BY <1>c, <1>3, CallsAre DEF PlaceOk
    <2>2. request.dev \in {0, 1} /\ request.reg \in 0..3 /\ request.val \in Bytes
        BY DEF PlaceOk, RequestOk, Requests
    <2>3. /\ AddressByte(request.dev, Write) \in Bytes /\ AddressByte(request.dev, Write)[Bits] = Write
          /\ AddressByte(request.dev, Read) \in Bytes /\ AddressByte(request.dev, Read)[Bits] = Read
          /\ RegByte(request.reg) \in Bytes /\ Number(RegByte(request.reg)) = request.reg
        <3>1. ASSUME NEW d \in {0, 1}, NEW rw \in {0, 1}
              PROVE  2 * d + rw \in 0..3 /\ (2 * d + rw) % 2 = rw
            OBVIOUS
        <3>2. Read \in {0, 1} /\ Write \in {0, 1}
            BY DEF Read, Write
        <3> QED BY <2>2, <3>1, <3>2, RegByteIs DEF AddressByte
    <2>4. \E v \in Bytes, err \in {-1, -2, -3} :
             /\ Calls[call] = Sends(v, err)
             /\ call = 3 => v[Bits] = Write
             /\ call = 4 => Number(v) = request.reg
             /\ call = 5 => v = request.val
             /\ call = 6 => v[Bits] = Read
        <3>1. CASE call = 3
            BY <1>c, <2>3, <3>1, CallsAre DEF PlaceOk
        <3>2. CASE call = 4
            BY <1>c, <2>3, <3>2, CallsAre DEF PlaceOk
        <3>3. CASE call = 5 /\ request.kind = Write
            BY <1>c, <2>2, <3>3, CallsAre DEF PlaceOk
        <3>4. CASE call = 6 /\ request.kind = Read
            BY <1>c, <2>3, <3>4, CallsAre DEF PlaceOk
        <3> QED BY <1>3, <3>1, <3>2, <3>3, <3>4
    <2>5. /\ Calls[call].do = "write" /\ Value \in Bytes /\ Error \in {-1, -2, -3}
          /\ call = 3 => Value[Bits] = Write
          /\ call = 4 => Number(Value) = request.reg
          /\ call = 5 => Value = request.val
          /\ call = 6 => Value[Bits] = Read
        BY <2>4 DEF Sends, Call, Value, Error
    <2>6. Unit = (IF nth <= Bits THEN "wbit" ELSE "wack") /\ nth \in 1..Bits + 1
        BY <1>c, <1>3, <2>5 DEF Unit, BitsOf
    <2> QED BY <1>c, <1>3, <2>1, <2>5, <2>6 DEF Last
<1>4. CASE request.kind = Read /\ 7 <= call /\ call < Last
    <2>1. Calls[call] = Call("read", IF call = Last - 1 THEN 1 ELSE 0, 0)
        BY <1>c, <1>4, CallsAre DEF PlaceOk
    <2>2. Calls[call].do = "read" /\ Value = IF call = Last - 1 THEN 1 ELSE 0
        BY <2>1 DEF Call, Value
    <2>3. Unit = (IF nth <= Bits THEN "rbit" ELSE "rack") /\ nth \in 1..Bits + 1
        BY <1>c, <1>4, <2>2 DEF Unit, BitsOf
    <2> QED BY <1>c, <1>4, <2>2, <2>3
<1> QED BY <1>c, <1>1, <1>2, <1>3, <1>4 DEF Last

\* What a call can be.
LEMMA DoIs ==
    ASSUME PlaceOk, call # 0
    PROVE  /\ Calls[call].do \in {"idle", "start", "stop", "write", "read"}
           /\ Unit \in {"idle", "start", "stop"} => Calls[call].do = Unit
           /\ Unit \in {"wbit", "wack"} => Calls[call].do = "write" /\ (nth <= Bits <=> Unit = "wbit")
           /\ Unit \in {"rbit", "rack"} => Calls[call].do = "read" /\ (nth <= Bits <=> Unit = "rbit")
           /\ Unit \in {"idle", "start", "stop", "wbit", "wack", "rbit", "rack"}
<1>1. Calls[call].do \in {"idle", "start", "stop", "write", "read"}
    <2>1. /\ call \in Nat /\ call <= Last /\ Last \in Nat /\ Last >= 6
          /\ request.kind \in {Read, Write} /\ Read # Write
          /\ request.kind = Write => Last = 6
        BY CallsAre DEF PlaceOk, RequestOk, Requests, Read, Write, Last
    <2>2. \E do \in {"idle", "start", "stop", "write", "read"} : \E v, err : Calls[call] = Call(do, v, err)
        <3>1. CASE call \in {1, 2, 3, 4} \/ call = Last
            BY <3>1, CallsAre DEF PlaceOk, Sends
        <3>2. CASE call = 5 \/ call = 6
            BY <2>1, <3>2, CallsAre DEF PlaceOk, Sends
        <3>3. CASE 7 <= call /\ call < Last
            BY <2>1, <3>3, CallsAre DEF PlaceOk
        <3> QED BY <2>1, <3>1, <3>2, <3>3
    <2> QED BY <2>2 DEF Call
<1> QED BY <1>1 DEF Unit

\* One more operation after a few.
LEMMA AppendTo ==
    ASSUME NEW a, NEW b, NEW c, NEW d, NEW e
    PROVE  /\ LET p == Append(<<a, b, c>>, d)
              IN Len(p) = 4 /\ p[1] = a /\ p[2] = b /\ p[3] = c /\ p[4] = d
           /\ LET p == Append(<<a, b, c, d>>, e)
              IN Len(p) = 5 /\ p[1] = a /\ p[2] = b /\ p[3] = c /\ p[4] = d /\ p[5] = e
OBVIOUS

\* The pin operations of a unit.
Pin(k) == Pins(Calls[call], nth)[k]
Is(k, what, v) == Pin(k).k = what /\ Pin(k).v = v
LEMMA PinsAre ==
    ASSUME PlaceOk, call # 0
    PROVE  /\ Len(Pins(Calls[call], nth)) = Long[Unit]
           /\ Unit = "idle" => Is(1, "sda", 1) /\ Is(2, "scl", 1)
           /\ Unit = "start" => Is(1, "sda", 1) /\ Is(2, "scl", 1) /\ Is(3, "sda", 0) /\ Is(4, "scl", 0)
           /\ Unit = "stop" => Is(1, "sda", 0) /\ Is(2, "scl", 1) /\ Is(3, "sda", 1)
           /\ Unit = "wbit" => Is(1, "sda", Value[nth]) /\ Is(2, "scl", 1) /\ Is(3, "scl", 0)
           /\ Unit \in {"wack", "rbit"} =>
                 Is(1, "sda", 1) /\ Is(2, "scl", 1) /\ Pin(3).k = "sample" /\ Is(4, "scl", 0)
           /\ Unit = "wack" => Is(5, "ack", Error)
           /\ Unit = "rbit" => Pin(5).k = "keep"
           /\ Unit = "rack" => Is(1, "sda", Value) /\ Is(2, "scl", 1) /\ Is(3, "scl", 0) /\ Pin(4).k = "store"
<1>1. /\ Unit \in {"idle", "start", "stop"} => Calls[call].do = Unit
      /\ Unit \in {"wbit", "wack"} => Calls[call].do = "write" /\ (nth <= Bits <=> Unit = "wbit")
      /\ Unit \in {"rbit", "rack"} => Calls[call].do = "read" /\ (nth <= Bits <=> Unit = "rbit")
      /\ Unit \in {"idle", "start", "stop", "wbit", "wack", "rbit", "rack"}
    BY DoIs
<1> DEFINE c == Calls[call]
<1>2. CASE Unit = "idle"
    <2>1. Pins(c, nth) = <<Sda(1), Scl(1)>>
        BY <1>1, <1>2 DEF Pins, Idle
    <2> QED BY <1>2, <2>1 DEF Is, Pin, Long, Sda, Scl, Op
<1>3. CASE Unit = "start"
    <2>1. Pins(c, nth) = <<Sda(1), Scl(1), Sda(0), Scl(0)>>
        BY <1>1, <1>3 DEF Pins, Start
    <2> QED BY <1>3, <2>1 DEF Is, Pin, Long, Sda, Scl, Op
<1>4. CASE Unit = "stop"
    <2>1. Pins(c, nth) = <<Sda(0), Scl(1), Sda(1)>>
        BY <1>1, <1>4 DEF Pins, Stop
    <2> QED BY <1>4, <2>1 DEF Is, Pin, Long, Sda, Scl, Op
<1>5. CASE Unit = "wbit"
    <2>1. Pins(c, nth) = <<Sda(Value[nth]), Scl(1), Scl(0)>>
        BY <1>1, <1>5 DEF Pins, WriteByte, WriteBit, Value
    <2> QED BY <1>5, <2>1 DEF Is, Pin, Long, Sda, Scl, Op
<1>6. CASE Unit = "rack"
    <2>1. Pins(c, nth) = Append(<<Sda(Value), Scl(1), Scl(0)>>, Op("store", 0))
        BY <1>1, <1>6 DEF Pins, ReadByte, WriteBit, Value
    <2> QED BY <1>6, <2>1, AppendTo DEF Is, Pin, Long, Sda, Scl, Op
<1>7. CASE Unit = "wack"
    <2>1. Pins(c, nth) = Append(<<Sda(1), Scl(1), Op("sample", 0), Scl(0)>>, Op("ack", Error))
        BY <1>1, <1>7 DEF Pins, WriteByte, ReadBit, Error
    <2> QED BY <1>7, <2>1, AppendTo DEF Is, Pin, Long, Sda, Scl, Op
<1>8. CASE Unit = "rbit"
    <2>1. Pins(c, nth) = Append(<<Sda(1), Scl(1), Op("sample", 0), Scl(0)>>, Op("keep", 0))
        BY <1>1, <1>8 DEF Pins, ReadByte, ReadBit
    <2> QED BY <1>8, <2>1, AppendTo DEF Is, Pin, Long, Sda, Scl, Op
<1> QED BY <1>1, <1>2, <1>3, <1>4, <1>5, <1>6, <1>7, <1>8
-----------------------------------------------------------------------------
\* Where the firmware goes when a pin operation is done.
LEMMA Moves ==
    ASSUME PlaceOk, call # 0, Advance, request' = request
    PROVE  /\ PlaceOk' /\ Last' = Last
           /\ step < Long[Unit] =>
                 call' = call /\ nth' = nth /\ step' = step + 1 /\ Unit' = Unit /\ ret' = ret /\ Value' = Value
           /\ step = Long[Unit] =>
              /\ step' = 1
              /\ Unit # "stop" => ret' = ret /\ since' = since
              /\ Unit = "idle" => call' = 2 /\ Unit' = "start"
              /\ Unit = "start" => call' = call + 1 /\ Unit' = "wbit" /\ nth' = 1
              /\ Unit = "wbit" => /\ call' = call /\ nth' = nth + 1 /\ Value' = Value
                                  /\ Unit' = IF nth < Bits THEN "wbit" ELSE "wack"
              /\ Unit = "wack" => /\ call' = call + 1 /\ nth' = 1
                                  /\ call = 3 => Unit' = "wbit"
                                  /\ call = 4 => Unit' = IF request.kind = Read THEN "start" ELSE "wbit"
                                  /\ call = 5 => Unit' = "stop"
                                  /\ call = 6 => Unit' = "rbit"
              /\ Unit = "rbit" => /\ call' = call /\ nth' = nth + 1
                                  /\ Unit' = IF nth < Bits THEN "rbit" ELSE "rack"
              /\ Unit = "rack" => /\ call' = call + 1 /\ nth' = 1
                                  /\ Unit' = IF call = Last - 1 THEN "stop" ELSE "rbit"
              /\ Unit = "stop" => Unit' = "none" /\ call' = 0 /\ Return(ret)
<1>s. /\ Calls' = Calls /\ Last' = Last /\ RequestOk' /\ Len(Calls) = Last
      /\ call \in Nat /\ call <= Last /\ Last \in Nat /\ Last >= 6 /\ Bits \in Nat /\ Bits >= 2
      /\ request.kind \in {Read, Write} /\ Read # Write
      /\ step \in Nat /\ 1 <= step /\ step <= Long[Unit]
    BY CallsAre, BitsFact DEF PlaceOk, RequestOk, Requests, Read, Write, Calls, Last
<1>p. /\ Unit \in {"idle", "start", "stop", "wbit", "wack", "rbit", "rack"}
      /\ Unit \in {"idle", "start", "stop"} => nth = 1 /\ BitsOf(Calls[call]) = 1
      /\ Unit \in {"wbit", "rbit"} => nth \in 1..Bits /\ BitsOf(Calls[call]) = Bits + 1
      /\ Unit \in {"wack", "rack"} => nth = Bits + 1 /\ BitsOf(Calls[call]) = Bits + 1
    <2>1. /\ Unit \in {"idle", "start", "stop"} => Calls[call].do = Unit
          /\ Unit \in {"wbit", "wack"} => Calls[call].do = "write"
          /\ Unit \in {"rbit", "rack"} => Calls[call].do = "read"
        BY DoIs
    <2> QED BY <2>1, PlaceIs DEF BitsOf
<1>l. Long[Unit] \in 1..5 /\ Len(Pins(Calls[call], nth)) = Long[Unit]
    BY <1>p, PinsAre DEF Long
\* A call that is entered is at its first bit.
<1>e. ASSUME NEW i \in 1..Last
      PROVE  /\ BitsOf(Calls[i]) \in Nat /\ BitsOf(Calls[i]) >= 1
             /\ i \in {3, 4} \/ (i = 5 /\ request.kind = Write) \/ (i = 6 /\ request.kind = Read) =>
                   Calls[i].do = "write"
             /\ i = 2 \/ (i = 5 /\ request.kind = Read) => Calls[i].do = "start"
             /\ i = Last => Calls[i].do = "stop"
             /\ request.kind = Read /\ 7 <= i /\ i < Last => Calls[i].do = "read"
    <2>1. BitsOf(Calls[i]) \in Nat /\ BitsOf(Calls[i]) >= 1
        BY <1>s DEF BitsOf
    <2>2. i = 2 \/ (i = 5 /\ request.kind = Read) => Calls[i].do = "start"
        BY CallsAre DEF PlaceOk, Call
    <2>3. i \in {3, 4} \/ (i = 5 /\ request.kind = Write) \/ (i = 6 /\ request.kind = Read) =>
             Calls[i].do = "write"
        BY CallsAre DEF PlaceOk, Call, Sends
    <2>4. i = Last => Calls[i].do = "stop"
        BY CallsAre DEF PlaceOk, Call
    <2>5. request.kind = Read /\ 7 <= i /\ i < Last => Calls[i].do = "read"
        <3>1. ASSUME request.kind = Read, 7 <= i, i < Last
              PROVE  Calls[i] = Call("read", IF i = Last - 1 THEN 1 ELSE 0, 0)
            BY <1>s, <3>1, CallsAre DEF PlaceOk
        <3> QED BY <3>1 DEF Call
    <2> QED BY <2>1, <2>2, <2>3, <2>4, <2>5
<1>1. CASE step < Long[Unit]
    <2>1. Goto(call, nth, step + 1)
        BY <1>l, <1>1, <1>s DEF Advance
    <2>2. Unit' = Unit
        BY <1>s, <2>1 DEF Goto, Unit
    <2>3. Value' = Value
        BY <1>s, <2>1 DEF Goto, Value
    <2> QED BY <1>1, <1>s, <1>l, <2>1, <2>2, <2>3 DEF Goto, PlaceOk
<1>2. CASE step = Long[Unit] /\ Unit \in {"wbit", "rbit"}
    <2>1. Goto(call, nth + 1, 1)
        BY <1>l, <1>2, <1>s, <1>p DEF Advance
    <2>2. Unit' = IF nth < Bits THEN Unit ELSE IF Unit = "wbit" THEN "wack" ELSE "rack"
        <3>1. Calls[call].do = IF Unit = "wbit" THEN "write" ELSE "read"
            BY <1>2, DoIs
        <3>2. Unit' = IF nth + 1 <= Bits THEN (IF Unit = "wbit" THEN "wbit" ELSE "rbit")
                      ELSE (IF Unit = "wbit" THEN "wack" ELSE "rack")
            BY <1>s, <2>1, <3>1 DEF Goto, Unit
        <3> QED BY <1>2, <1>s, <1>p, <3>2
    <2>3. Value' = Value
        BY <1>s, <2>1 DEF Goto, Value
    <2>4. nth + 1 \in 1..BitsOf(Calls[call])
        BY <1>2, <1>s, <1>p
    <2>5. 1 <= Long[Unit']
        BY <1>2, <2>2 DEF Long
    <2> QED BY <1>2, <1>s, <1>p, <2>1, <2>2, <2>3, <2>4, <2>5 DEF Goto, PlaceOk
<1>3. CASE step = Long[Unit] /\ Unit \in {"idle", "start", "wack", "rack"}
    <2>1. call < Last /\ nth = BitsOf(Calls[call])
        <3>1. nth = BitsOf(Calls[call]) /\ Unit # "stop" /\ call # Last
            BY <1>3, <1>p, PlaceIs
        <3> QED BY <1>s, <3>1
    <2>2. Goto(call + 1, 1, 1)
        BY <1>l, <1>3, <1>s, <1>p, <2>1 DEF Advance
    <2>3. call + 1 \in 1..Last
        BY <1>s, <2>1
    <2>4. Unit' = CASE Calls[call + 1].do = "write" -> "wbit" [] Calls[call + 1].do = "read" -> "rbit"
                    [] OTHER -> Calls[call + 1].do
        BY <1>s, <2>2, <2>3 DEF Goto, Unit
    <2>5. 1 \in 1..BitsOf(Calls[call + 1])
        BY <1>e, <2>3
    <2>6. /\ Unit = "idle" => call = 1 /\ Unit' = "start"
          /\ Unit = "start" => Unit' = "wbit"
          /\ Unit = "wack" => /\ call = 3 => Unit' = "wbit"
                              /\ call = 4 => Unit' = IF request.kind = Read THEN "start" ELSE "wbit"
                              /\ call = 5 => Unit' = "stop"
                              /\ call = 6 => Unit' = "rbit"
                              /\ call \in {3, 4, 5, 6}
          /\ Unit = "rack" => Unit' = IF call = Last - 1 THEN "stop" ELSE "rbit"
        <3>1. request.kind = Read => Last >= 8
            BY CallsAre DEF PlaceOk
        <3>2. request.kind = Write => Last = 6
            BY <1>s DEF Last
        <3>3. CASE Unit = "idle"
            BY <1>s, <1>e, <2>3, <2>4, <3>3, PlaceIs
        <3>4. CASE Unit = "start"
            BY <1>s, <1>e, <2>3, <2>4, <3>1, <3>2, <3>4, PlaceIs
        <3>5. CASE Unit = "wack"
            <4>1. /\ call \in {3, 4} \/ (call = 5 /\ request.kind = Write) \/ (call = 6 /\ request.kind = Read)
                BY <3>5, PlaceIs
            <4>2. CASE call = 3
                BY <1>s, <1>e, <2>3, <2>4, <3>5, <4>2
            <4>3. CASE call = 4
                BY <1>s, <1>e, <2>3, <2>4, <3>5, <4>3
            <4>4. CASE call = 5 /\ request.kind = Write
                BY <1>s, <1>e, <2>3, <2>4, <3>2, <3>5, <4>4
            <4>5. CASE call = 6 /\ request.kind = Read
                BY <1>s, <1>e, <2>3, <2>4, <3>1, <3>5, <4>5
            <4> QED BY <4>1, <4>2, <4>3, <4>4, <4>5
        <3>6. CASE Unit = "rack"
            <4>1. request.kind = Read /\ 7 <= call /\ call < Last
                BY <3>6, PlaceIs
            <4>2. CASE call = Last - 1
                <5>1. call + 1 = Last
                    BY <1>s, <4>2
                <5> QED BY <1>e, <2>3, <2>4, <3>6, <4>2, <5>1
            <4>3. CASE call # Last - 1
                <5>1. 7 <= call + 1 /\ call + 1 < Last
                    BY <1>s, <4>1, <4>3
                <5> QED BY <1>e, <2>3, <2>4, <3>6, <4>1, <4>3, <5>1
            <4> QED BY <4>2, <4>3
        <3> QED BY <1>3, <3>3, <3>4, <3>5, <3>6
    <2>7. 1 <= Long[Unit']
        BY <1>3, <1>s, <2>6 DEF Long
    <2> QED BY <1>3, <1>s, <2>2, <2>3, <2>5, <2>6, <2>7 DEF Goto, PlaceOk
<1>4. CASE step = Long[Unit] /\ Unit = "stop"
    <2>1. call = Last /\ nth = BitsOf(Calls[call])
        BY <1>4, <1>p, PlaceIs
    <2>2. Return(ret)
        BY <1>l, <1>4, <1>s, <1>p, <2>1 DEF Advance
    <2>3. Unit' = "none" /\ call' = 0 /\ nth' = 1 /\ step' = 1
        BY <2>2 DEF Return, Unit
    <2> QED BY <1>4, <1>s, <2>2, <2>3 DEF PlaceOk, Long
<1> QED BY <1>p, <1>s, <1>l, <1>1, <1>2, <1>3, <1>4
-----------------------------------------------------------------------------
(* The invariant.  First what holds of every transaction, also of one the  *)
(* firmware or the sensor has lost its place in.                           *)

\* q holds the first n bits of v.
Prefix(q, v, n) == Len(q) = n /\ \A x \in 1..n : q[x] = v[x]

\* What the firmware drives before each of its pin operations.
LinesOk ==
    /\ scl \in Binary /\ sda \in Binary
    /\ Unit \in {"none", "idle"} => scl = 1 /\ sda = 1
    /\ Unit = "start" => /\ step = 4 => scl = 1 /\ sda = 0
                         /\ step < 4 => sda = 1
                         /\ step = 3 => scl = 1
                         /\ step < 3 => scl = IF call = 2 THEN 1 ELSE 0
    /\ Unit = "stop" => /\ scl = IF step = 3 THEN 1 ELSE 0
                        /\ step > 1 => sda = 0
    /\ Unit \in {"wbit", "rack"} => scl = IF step = 3 THEN 1 ELSE 0
    /\ Unit = "wbit" /\ step > 1 => sda = Value[nth]
    /\ Unit = "rack" /\ step > 1 => sda = Value
    /\ Unit \in {"wack", "rbit"} => /\ scl = IF step \in {3, 4} THEN 1 ELSE 0
                                    /\ step > 1 => sda = 1

\* The byte being read, and the outcome.
ReadOk ==
    /\ bit \in Binary /\ byte \in Seq(Binary) /\ buf \in Seq(Bytes)
    /\ Len(byte) = CASE Unit = "rbit" -> nth - 1 [] Unit = "rack" -> Bits [] OTHER -> 0
    /\ call = 0 => ret \in {0, -1, -2, -3, -10}
    /\ call # 0 => ret \in {1, -1, -2, -3} /\ (Unit # "stop" => ret = 1)

PinInv == PlaceOk /\ LinesOk /\ ReadOk /\ SensorOk(sensor) /\ restarts \in Nat /\ in_sync \in BOOLEAN

(* Then where the sensor is, in a transaction that found it idle.          *)
Gone == sensor.phase = "idle"

\* The byte this call sends goes to the address, the pointer or a register.
Wants == IF call = 4 THEN "pointer" ELSE IF call = 5 THEN "write" ELSE "address"
Pointed == call \in {5, 6} => sensor.ptr = request.reg

Taking(n) ==
    /\ sensor.phase = Wants /\ sensor.slot = "bits" /\ sensor.drive = 1
    /\ Prefix(sensor.got, Value, n) /\ Pointed
Answering ==
    /\ sensor.phase = Wants /\ sensor.slot = "ack" /\ sensor.drive = 0
    /\ Prefix(sensor.got, Value, Bits) /\ Pointed

\* The i-th register asked for, and the sensor at its n-th bit.
Register(i) == sensor.mem[(request.reg + i - 1) % 4]
Sending(i, n) ==
    /\ sensor.phase = "read" /\ sensor.slot = "bits" /\ sensor.drive = Register(i)[n]
    /\ Len(sensor.left) = Bits - n /\ \A x \in 1..Bits - n : sensor.left[x] = Register(i)[x + n]
    /\ sensor.ptr = (request.reg + i) % 4
Sent(i) ==
    /\ sensor.phase = "read" /\ sensor.slot = "ack" /\ sensor.drive = 1
    /\ sensor.ptr = (request.reg + i) % 4

Written == request.kind = Write => sensor.mem[request.reg] = request.val
Ready(phase) == sensor.phase = phase /\ sensor.slot = "bits" /\ sensor.got = <<>> /\ sensor.drive = 1
Answered ==
    CASE call = 3 -> Ready("pointer")
      [] call = 4 -> Ready("write") /\ sensor.ptr = request.reg
      [] call = 5 -> Ready("write") /\ Written
      [] call = 6 -> Sending(1, 1)

AtStart ==
    IF step = 4 THEN Ready("address") /\ Pointed
    ELSE IF call = 2 THEN Gone
    ELSE sensor.phase = "write" /\ sensor.slot = "bits" /\ sensor.drive = 1 /\ Pointed
AtAck ==
    \/ Gone /\ (step >= 4 => bit = 1)
    \/ (IF step = 5 THEN Answered ELSE Answering) /\ (step >= 4 => bit = 0)
AtReadBit ==
    /\ Prefix(byte, Register(call - 6), nth - 1)
    /\ step >= 4 => bit = Register(call - 6)[nth]
    /\ step < 5 => Sending(call - 6, nth)
    /\ step = 5 => IF nth = Bits THEN Sent(call - 6) ELSE Sending(call - 6, nth + 1)
AtReadAck ==
    /\ byte = Register(call - 6)
    /\ step < 4 => Sent(call - 6)
    /\ step = 3 => sensor.acked = (Value = 0)
    /\ step = 4 => IF Value = 0 THEN Sending(call - 5, 1) ELSE Gone

\* The registers read so far are in the buffer.
Collected ==
    request.kind = Read /\ ret = 1 => /\ Len(buf) = IF call < 7 THEN 0 ELSE call - 7
                                      /\ \A k \in 1..Len(buf) : buf[k] = Register(k)

InStep ==
    /\ Unit = "idle" => Gone
    /\ Unit = "start" => AtStart
    /\ Unit = "wbit" => Taking(IF step = 3 THEN nth ELSE nth - 1)
    /\ Unit = "wack" => AtAck
    /\ Unit = "rbit" => AtReadBit
    /\ Unit = "rack" => AtReadAck
    /\ Unit = "stop" => sensor.drive = 1 /\ (ret = 1 => Written)
    /\ Collected

SyncInv ==
    /\ in_sync /\ call # 0 => InStep
    /\ in_sync /\ call = 0 /\ ret # -10 => Gone
    /\ restarts = 0 => in_sync /\ ret # -10
    /\ TransferGenuine

Inv == PinInv /\ SyncInv
-----------------------------------------------------------------------------
(* What a pin operation does to the lines and to the sensor.               *)
Run == (\E willing \in BOOLEAN : MoveScl(willing)) \/ MoveSda \/ Sample \/ Keep \/ Store \/ CheckAck

Quiet == sensor' = sensor /\ bit' = bit /\ byte' = byte /\ buf' = buf
Rises == /\ scl' = 1 /\ sda' = sda /\ sensor' = OnRise(sensor, Level(sda, sensor))
         /\ UNCHANGED <<bit, byte, buf>>
Falls == /\ scl' = 0 /\ sda' = sda /\ \E willing \in BOOLEAN : sensor' = OnFall(sensor, willing)
         /\ UNCHANGED <<bit, byte, buf>>
Stays == scl' = scl /\ sda' = sda /\ sensor' = sensor

\* The operation the firmware is at is the only one that can be done.
LEMMA OpIs ==
    ASSUME Run
    PROVE  /\ call # 0 /\ UNCHANGED <<request, restarts, in_sync>>
           /\ Pin(step).k = "scl" => \E willing \in BOOLEAN : MoveScl(willing)
           /\ Pin(step).k = "sda" => MoveSda
           /\ Pin(step).k = "sample" => Sample
           /\ Pin(step).k = "keep" => Keep
           /\ Pin(step).k = "store" => Store
           /\ Pin(step).k = "ack" => CheckAck
BY DEF Run, MoveScl, MoveSda, Sample, Keep, Store, CheckAck, Doing, Pin

LEMMA SclIs ==
    ASSUME PinInv, Run, NEW v \in Binary, Is(step, "scl", v)
    PROVE  /\ Advance
           /\ scl = v => Quiet /\ scl' = v /\ sda' = sda
           /\ scl = 0 /\ v = 1 => Rises
           /\ scl = 1 /\ v = 0 => Falls
<1>1. PICK willing \in BOOLEAN : MoveScl(willing)
    BY OpIs DEF Is
<1>2. scl' = v /\ scl \in Binary
    BY <1>1 DEF MoveScl, Arg, Is, Pin, PinInv, LinesOk
<1> QED BY <1>1, <1>2 DEF MoveScl, Quiet, Rises, Falls, Binary

LEMMA SdaIs ==
    ASSUME PinInv, Run, NEW v \in Binary, Is(step, "sda", v)
    PROVE  /\ Advance /\ scl' = scl /\ sda' = v /\ UNCHANGED <<bit, byte, buf>>
           /\ scl = 0 \/ sda = v => Quiet
           /\ scl = 1 /\ sda = 1 /\ v = 0 => sensor' = IF sensor.drive = 1 THEN OnStart(sensor) ELSE sensor
           /\ scl = 1 /\ sda = 0 /\ v = 1 => sensor' = IF sensor.drive = 1 THEN OnStop(sensor) ELSE sensor
<1>1. MoveSda
    BY OpIs DEF Is
<1>2. sda' = v /\ scl \in Binary /\ sda \in Binary /\ sensor.drive \in Binary
    BY <1>1 DEF MoveSda, Arg, Is, Pin, PinInv, LinesOk, SensorOk, Sensors
<1>3. Advance /\ scl' = scl /\ UNCHANGED <<bit, byte, buf>>
    BY <1>1 DEF MoveSda
<1>4. sensor' = CASE scl = 1 /\ Level(sda, sensor) = 1 /\ Level(v, sensor) = 0 -> OnStart(sensor)
                  [] scl = 1 /\ Level(sda, sensor) = 0 /\ Level(v, sensor) = 1 -> OnStop(sensor)
                  [] OTHER -> sensor
    BY <1>1, <1>2 DEF MoveSda
<1>5. Level(0, sensor) = 0 /\ Level(1, sensor) = sensor.drive
    BY <1>2 DEF Level, Binary
<1> QED BY <1>2, <1>3, <1>4, <1>5 DEF Quiet, Binary

\* Signals.
LEMMA SignalIs ==
    ASSUME PinInv, Run, Unit \in {"idle", "start", "stop"}
    PROVE  /\ Advance
           /\ Unit = "idle" => Quiet /\ scl' = 1 /\ sda' = 1
           /\ Unit = "start" =>
                 /\ step = 1 => Quiet /\ scl' = scl /\ sda' = 1
                 /\ step = 2 /\ call = 2 => Quiet /\ scl' = 1 /\ sda' = sda
                 /\ step = 2 /\ call # 2 => Rises
                 /\ step = 3 => /\ scl' = 1 /\ sda' = 0 /\ UNCHANGED <<bit, byte, buf>>
                                /\ sensor' = IF sensor.drive = 1 THEN OnStart(sensor) ELSE sensor
                 /\ step = 4 => Falls
           /\ Unit = "stop" =>
                 /\ step = 1 => Quiet /\ scl' = 0 /\ sda' = 0
                 /\ step = 2 => Rises
                 /\ step = 3 => /\ scl' = 1 /\ sda' = 1 /\ UNCHANGED <<bit, byte, buf>>
                                /\ sensor' = IF sensor.drive = 1 THEN OnStop(sensor) ELSE sensor
<1>s. /\ call # 0 /\ step \in Nat /\ 1 <= step /\ step <= Long[Unit]
      /\ 0 \in Binary /\ 1 \in Binary /\ PlaceOk /\ LinesOk
    BY OpIs DEF PinInv, PlaceOk, Binary
<1>1. CASE Unit = "idle"
    <2>1. step \in {1, 2}
        BY <1>s, <1>1 DEF Long
    <2> QED BY <1>s, <1>1, <2>1, PinsAre, SclIs, SdaIs DEF LinesOk
<1>2. CASE Unit = "start"
    <2>1. step \in {1, 2, 3, 4}
        BY <1>s, <1>2 DEF Long
    <2> QED BY <1>s, <1>2, <2>1, PinsAre, SclIs, SdaIs DEF LinesOk
<1>3. CASE Unit = "stop"
    <2>1. step \in {1, 2, 3}
        BY <1>s, <1>3 DEF Long
    <2> QED BY <1>s, <1>3, <2>1, PinsAre, SclIs, SdaIs DEF LinesOk
<1> QED BY <1>1, <1>2, <1>3

\* Bits sent.
LEMMA SentBitIs ==
    ASSUME PinInv, Run, Unit \in {"wbit", "rack"}
    PROVE  /\ Advance
           /\ step = 1 => Quiet /\ scl' = 0 /\ sda' = IF Unit = "wbit" THEN Value[nth] ELSE Value
           /\ step = 2 => Rises
           /\ step = 3 => Falls
           /\ step = 4 => /\ Unit = "rack" /\ Stays /\ bit' = bit
                          /\ buf' = Append(buf, byte) /\ byte' = <<>>
<1>s. /\ call # 0 /\ step \in Nat /\ 1 <= step /\ step <= Long[Unit]
      /\ 0 \in Binary /\ 1 \in Binary /\ PlaceOk /\ LinesOk
      /\ Unit = "wbit" => Value[nth] \in Binary
      /\ Unit = "rack" => Value \in Binary
    BY OpIs, PlaceIs DEF PinInv, PlaceOk, Binary, Bytes
<1>1. step \in {1, 2, 3} \/ (Unit = "rack" /\ step = 4)
    BY <1>s DEF Long
<1>2. CASE step \in {1, 2, 3}
    BY <1>s, <1>2, PinsAre, SclIs, SdaIs DEF LinesOk
<1>3. CASE Unit = "rack" /\ step = 4
    <2>1. Store
        BY <1>s, <1>3, PinsAre, OpIs
    <2> QED BY <1>3, <2>1 DEF Store, Stays
<1> QED BY <1>1, <1>2, <1>3

\* Bits sampled.
LEMMA SampledBitIs ==
    ASSUME PinInv, Run, Unit \in {"wack", "rbit"}
    PROVE  /\ step = 1 => Quiet /\ scl' = 0 /\ sda' = 1
           /\ step = 2 => Rises
           /\ step = 3 => Stays /\ bit' = sensor.drive /\ byte' = byte /\ buf' = buf
           /\ step = 4 => Falls
           /\ step = 5 /\ Unit = "rbit" => Stays /\ bit' = bit /\ buf' = buf /\ byte' = Append(byte, bit)
           /\ step = 5 /\ Unit = "wack" => /\ Stays /\ Quiet
                                           /\ IF bit = 0 THEN Advance ELSE OnNack(Error)
           /\ step < 5 \/ Unit = "rbit" => Advance
           /\ step \in {1, 2, 3, 4, 5}
<1>s. /\ call # 0 /\ step \in Nat /\ 1 <= step /\ step <= Long[Unit]
      /\ 0 \in Binary /\ 1 \in Binary /\ PlaceOk /\ LinesOk
    BY OpIs DEF PinInv, PlaceOk, Binary
<1>1. step \in {1, 2, 3, 4, 5}
    BY <1>s DEF Long
<1>2. CASE step \in {1, 2, 4}
    BY <1>s, <1>2, PinsAre, SclIs, SdaIs DEF LinesOk
<1>3. CASE step = 3
    <2>1. Sample
        BY <1>s, <1>3, PinsAre, OpIs
    <2>2. Level(sda, sensor) = sensor.drive
        BY <1>s, <1>3, LevelIs DEF LinesOk, PinInv
    <2> QED BY <1>3, <2>1, <2>2 DEF Sample, Stays
<1>4. CASE step = 5 /\ Unit = "rbit"
    <2>1. Keep
        BY <1>s, <1>4, PinsAre, OpIs
    <2> QED BY <1>4, <2>1 DEF Keep, Stays
<1>5. CASE step = 5 /\ Unit = "wack"
    <2>1. CheckAck /\ Arg = Error
        BY <1>s, <1>5, PinsAre, OpIs DEF Is, Pin, Arg
    <2> QED BY <1>5, <2>1 DEF CheckAck, Stays, Quiet
<1> QED BY <1>1, <1>2, <1>3, <1>4, <1>5
-----------------------------------------------------------------------------
(* PinInv is kept.                                                         *)

\* A byte refused: to the stop at the end.
LEMMA NackIs ==
    ASSUME PlaceOk, call # 0, NEW err, OnNack(err), request' = request
    PROVE  PlaceOk' /\ Unit' = "stop" /\ call' = Last /\ Last' = Last /\ nth' = 1 /\ step' = 1 /\ ret' = err
<1>1. /\ Last \in Nat /\ Last >= 6 /\ Len(Calls) = Last /\ Calls[Last] = Call("stop", 0, 0)
      /\ Calls' = Calls /\ Last' = Last /\ (request \in Requests)'
      /\ request.kind = Read => request.len # 0
    BY CallsAre DEF PlaceOk, RequestOk, Calls, Last
<1>2. /\ call' = Last /\ nth' = 1 /\ step' = 1 /\ ret' = err
    BY <1>1 DEF OnNack
<1>3. Calls[Last].do = "stop"
    BY <1>1 DEF Call
<1>4. Unit' = "stop" /\ BitsOf(Calls[Last]) = 1
    BY <1>1, <1>2, <1>3 DEF Unit, BitsOf
<1> QED BY <1>1, <1>2, <1>4 DEF PlaceOk, RequestOk, Long

LEMMA SensorStep ==
    ASSUME PinInv, Run
    PROVE  SensorOk(sensor')
<1>s. SensorOk(sensor) /\ Level(sda, sensor) \in Binary
    BY LevelIs DEF PinInv, LinesOk
<1>1. CASE \E willing \in BOOLEAN : MoveScl(willing)
    <2>1. PICK willing \in BOOLEAN : MoveScl(willing)
        BY <1>1
    <2>2. sensor' \in {OnRise(sensor, Level(sda, sensor)), OnFall(sensor, willing), sensor}
        BY <2>1 DEF MoveScl
    <2>3. /\ SensorOk(OnRise(sensor, Level(sda, sensor))) /\ SensorOk(OnFall(sensor, willing))
        BY <1>s, RiseIs, FallIs
    <2> QED BY <1>s, <2>2, <2>3
<1>2. CASE MoveSda
    BY <1>s, <1>2, StartStop DEF MoveSda
<1>3. CASE Sample \/ Keep \/ Store \/ CheckAck
    BY <1>s, <1>3 DEF Sample, Keep, Store, CheckAck
<1> QED BY <1>1, <1>2, <1>3 DEF Run

\* The firmware's place and its lines.
LEMMA PlaceStep ==
    ASSUME PinInv, Run
    PROVE  PlaceOk' /\ LinesOk'
<1>s. /\ PlaceOk /\ LinesOk /\ call # 0 /\ request' = request
      /\ Unit \in {"idle", "start", "stop", "wbit", "wack", "rbit", "rack"}
      /\ step \in Nat /\ 1 <= step /\ step <= Long[Unit]
      /\ scl \in Binary /\ sda \in Binary /\ 0 \in Binary /\ 1 \in Binary
    BY OpIs, DoIs DEF PinInv, PlaceOk, LinesOk, Binary
<1>1. CASE Unit = "idle"
    <2>1. Advance /\ scl' = 1 /\ sda' = 1
        BY <1>1, SignalIs
    <2>2. step \in {1, 2} /\ Long[Unit] = 2
        BY <1>s, <1>1 DEF Long
    <2> QED BY <1>s, <1>1, <2>1, <2>2, Moves DEF LinesOk
<1>2. CASE Unit = "start"
    <2>1. step \in {1, 2, 3, 4} /\ Long[Unit] = 4
        BY <1>s, <1>2 DEF Long
    <2>2. Advance /\ PlaceOk'
        BY <1>s, <1>2, SignalIs, Moves
    <2>3. CASE step < 4
        <3>1. Unit' = "start" /\ step' = step + 1 /\ call' = call
            BY <1>s, <1>2, <2>1, <2>2, <2>3, Moves
        <3>2. /\ step = 1 => sda' = 1 /\ scl' = scl
              /\ step = 2 => sda' = 1 /\ scl' = 1
              /\ step = 3 => sda' = 0 /\ scl' = 1
            BY <1>s, <1>2, SignalIs DEF LinesOk, Rises
        <3> QED BY <1>s, <1>2, <2>1, <2>2, <2>3, <3>1, <3>2 DEF LinesOk
    <2>4. CASE step = 4
        <3>1. Unit' = "wbit" /\ step' = 1
            BY <1>s, <1>2, <2>1, <2>2, <2>4, Moves
        <3>2. scl' = 0 /\ sda' = sda
            BY <1>s, <1>2, <2>4, SignalIs DEF Falls
        <3> QED BY <1>s, <2>2, <3>1, <3>2 DEF LinesOk
    <2> QED BY <2>1, <2>3, <2>4
<1>3. CASE Unit = "stop"
    <2>1. step \in {1, 2, 3} /\ Long[Unit] = 3
        BY <1>s, <1>3 DEF Long
    <2>2. Advance /\ PlaceOk'
        BY <1>s, <1>3, SignalIs, Moves
    <2>3. /\ step = 1 => sda' = 0 /\ scl' = 0
          /\ step = 2 => sda' = 0 /\ scl' = 1
          /\ step = 3 => sda' = 1 /\ scl' = 1
        BY <1>s, <1>3, SignalIs DEF LinesOk, Rises
    <2>4. IF step < 3 THEN Unit' = "stop" /\ step' = step + 1 ELSE Unit' = "none"
        BY <1>s, <1>3, <2>1, <2>2, Moves
    <2> QED BY <1>s, <2>1, <2>2, <2>3, <2>4 DEF LinesOk
<1>4. CASE Unit = "wbit"
    <2>1. step \in {1, 2, 3} /\ Long[Unit] = 3 /\ Value[nth] \in Binary
        BY <1>s, <1>4, PlaceIs DEF Long, Bytes, Binary
    <2>2. Advance /\ PlaceOk'
        BY <1>s, <1>4, SentBitIs, Moves
    <2>3. CASE step < 3
        <3>1. Unit' = "wbit" /\ step' = step + 1 /\ nth' = nth /\ Value' = Value
            BY <1>s, <1>4, <2>1, <2>2, <2>3, Moves
        <3>2. sda' = Value[nth] /\ scl' = IF step = 2 THEN 1 ELSE 0
            BY <1>s, <1>4, <2>1, <2>3, SentBitIs DEF LinesOk, Rises
        <3> QED BY <1>s, <2>1, <2>2, <2>3, <3>1, <3>2 DEF LinesOk
    <2>4. CASE step = 3
        <3>1. Unit' \in {"wbit", "wack"} /\ step' = 1
            BY <1>s, <1>4, <2>1, <2>2, <2>4, Moves
        <3>2. sda' = sda /\ scl' = 0
            BY <1>4, <2>4, SentBitIs DEF Falls
        <3> QED BY <1>s, <2>2, <3>1, <3>2 DEF LinesOk
    <2> QED BY <2>1, <2>3, <2>4
<1>5. CASE Unit = "rack"
    <2>1. step \in {1, 2, 3, 4} /\ Long[Unit] = 4 /\ Value \in Binary
        BY <1>s, <1>5, PlaceIs DEF Long, Binary
    <2>2. Advance /\ PlaceOk'
        BY <1>s, <1>5, SentBitIs, Moves
    <2>3. CASE step < 4
        <3>1. Unit' = "rack" /\ step' = step + 1 /\ Value' = Value
            BY <1>s, <1>5, <2>1, <2>2, <2>3, Moves
        <3>2. sda' = Value /\ scl' = IF step = 2 THEN 1 ELSE 0
            BY <1>s, <1>5, <2>1, <2>3, SentBitIs DEF LinesOk, Rises, Falls
        <3> QED BY <1>s, <2>1, <2>2, <2>3, <3>1, <3>2 DEF LinesOk
    <2>4. CASE step = 4
        <3>1. Unit' \in {"rbit", "stop"} /\ step' = 1
            BY <1>s, <1>5, <2>1, <2>2, <2>4, Moves
        <3>2. sda' = sda /\ scl' = 0
            BY <1>s, <1>5, <2>4, SentBitIs DEF Stays, LinesOk
        <3> QED BY <1>s, <2>2, <3>1, <3>2 DEF LinesOk
    <2> QED BY <2>1, <2>3, <2>4
<1>6. CASE Unit \in {"wack", "rbit"}
    <2>1. step \in {1, 2, 3, 4, 5} /\ Long[Unit] = 5
        BY <1>s, <1>6 DEF Long
    <2>2. sda' = 1 /\ scl' = IF step \in {2, 3} THEN 1 ELSE 0
        BY <1>s, <1>6, <2>1, SampledBitIs DEF LinesOk, Rises, Falls, Stays
    <2>3. CASE step < 5
        <3>1. PlaceOk' /\ Unit' = Unit /\ step' = step + 1
            BY <1>s, <1>6, <2>1, <2>3, SampledBitIs, Moves
        <3> QED BY <1>s, <1>6, <2>1, <2>2, <2>3, <3>1 DEF LinesOk
    <2>4. CASE step = 5
        <3>1. /\ PlaceOk' /\ step' = 1
              /\ Unit' \in {"rbit", "rack", "wbit", "start", "stop"} /\ (Unit' = "start" => call' # 2)
            <4>1. CASE Advance
                BY <1>s, <1>6, <2>1, <2>4, <4>1, Moves, PlaceIs
            <4>2. CASE OnNack(Error)
                BY <1>s, <4>2, NackIs
            <4> QED BY <1>6, <2>4, <4>1, <4>2, SampledBitIs
        <3> QED BY <1>s, <2>2, <2>4, <3>1 DEF LinesOk
    <2> QED BY <2>1, <2>3, <2>4
<1> QED BY <1>s, <1>1, <1>2, <1>3, <1>4, <1>5, <1>6

\* What it has read and what it returns.
LEMMA ReadStep ==
    ASSUME PinInv, Run
    PROVE  ReadOk'
<1>s. /\ PlaceOk /\ LinesOk /\ ReadOk /\ call # 0 /\ request' = request
      /\ Unit \in {"idle", "start", "stop", "wbit", "wack", "rbit", "rack"}
      /\ step \in Nat /\ 1 <= step /\ step <= Long[Unit] /\ nth \in Nat /\ Bits \in Nat
      /\ call' = 0 => Unit' = "none"
    <2>1. PlaceOk /\ LinesOk /\ ReadOk /\ call # 0 /\ request' = request /\ (call' = 0 => Unit' = "none")
        BY OpIs DEF PinInv, Unit
    <2>2. nth \in Nat /\ Bits \in Nat
        BY <2>1, PlaceIs, BitsFact
    <2> QED BY <2>1, <2>2, DoIs DEF PlaceOk
<1>r. /\ bit \in Binary /\ byte \in Seq(Binary) /\ buf \in Seq(Bytes)
      /\ Len(byte) = CASE Unit = "rbit" -> nth - 1 [] Unit = "rack" -> Bits [] OTHER -> 0
      /\ ret \in {1, -1, -2, -3} /\ (Unit # "stop" => ret = 1)
    BY <1>s DEF ReadOk
<1>1. CASE Unit \in {"idle", "start", "stop", "wbit"}
    <2>1. Advance /\ UNCHANGED <<bit, byte, buf>>
        <3>1. CASE Unit = "wbit"
            <4>1. step \in {1, 2, 3}
                BY <1>s, <3>1 DEF Long
            <4> QED BY <3>1, <4>1, SentBitIs DEF Quiet, Rises, Falls
        <3>2. CASE Unit = "idle"
            BY <3>2, SignalIs DEF Quiet
        <3>3. CASE Unit = "start"
            <4>1. step \in {1, 2, 3, 4}
                BY <1>s, <3>3 DEF Long
            <4> QED BY <3>3, <4>1, SignalIs DEF Quiet, Rises, Falls
        <3>4. CASE Unit = "stop"
            <4>1. step \in {1, 2, 3}
                BY <1>s, <3>4 DEF Long
            <4> QED BY <3>4, <4>1, SignalIs DEF Quiet, Rises, Falls
        <3> QED BY <1>1, <3>1, <3>2, <3>3, <3>4
    <2>2. CASE step < Long[Unit]
        <3>1. Unit' = Unit /\ ret' = ret
            BY <1>s, <2>1, <2>2, Moves
        <3> QED BY <1>s, <1>r, <1>1, <2>1, <3>1 DEF ReadOk
    <2>3. CASE step = Long[Unit] /\ Unit # "stop"
        <3>1. Unit' \in {"start", "wbit", "wack"} /\ ret' = ret
            BY <1>s, <1>1, <2>1, <2>3, Moves
        <3> QED BY <1>s, <1>r, <1>1, <2>1, <2>3, <3>1 DEF ReadOk
    <2>4. CASE step = Long[Unit] /\ Unit = "stop"
        <3>1. Unit' = "none" /\ call' = 0 /\ ret' = IF ret = 1 THEN 0 ELSE ret
            BY <1>s, <2>1, <2>4, Moves DEF Return
        <3> QED BY <1>s, <1>r, <1>1, <2>1, <2>4, <3>1 DEF ReadOk
    <2>5. Long[Unit] \in Nat
        BY <1>1 DEF Long
    <2> QED BY <1>s, <2>2, <2>3, <2>4, <2>5
<1>2. CASE Unit = "wack"
    <2>1. /\ byte' = byte /\ buf' = buf /\ bit' \in Binary
        BY <1>s, <1>r, <1>2, SampledBitIs DEF PinInv, SensorOk, Sensors, Quiet, Rises, Falls
    <2>2. CASE Advance
        <3>1. Unit' \in {"wack", "wbit", "start", "stop", "rbit"} /\ ret' = ret /\ (Unit' = "rbit" => nth' = 1)
            <4>1. Long[Unit] = 5 /\ step \in 1..5 /\ call \in {3, 4, 5, 6}
                BY <1>s, <1>2, PlaceIs DEF Long
            <4>2. CASE step < 5
                BY <1>s, <1>2, <2>2, <4>1, <4>2, Moves
            <4>3. CASE step = 5
                BY <1>s, <1>2, <2>2, <4>1, <4>3, Moves
            <4> QED BY <4>1, <4>2, <4>3
        <3> QED BY <1>s, <1>r, <1>2, <2>1, <3>1 DEF ReadOk
    <2>3. CASE OnNack(Error)
        BY <1>s, <1>r, <1>2, <2>1, <2>3, NackIs, PlaceIs DEF ReadOk
    <2> QED BY <1>2, <2>2, <2>3, SampledBitIs
<1>3. CASE Unit = "rbit"
    <2>1. Advance /\ Long[Unit] = 5 /\ nth \in 1..Bits
        BY <1>s, <1>3, SampledBitIs, PlaceIs DEF Long
    <2>2. CASE step < 5
        <3>1. /\ byte' = byte /\ buf' = buf /\ bit' \in Binary
            BY <1>s, <1>r, <1>3, <2>2, SampledBitIs DEF PinInv, SensorOk, Sensors, Quiet, Rises, Falls
        <3>2. Unit' = "rbit" /\ nth' = nth /\ ret' = ret
            BY <1>s, <1>3, <2>1, <2>2, Moves
        <3> QED BY <1>s, <1>r, <1>3, <3>1, <3>2 DEF ReadOk
    <2>3. CASE step = 5
        <3>1. byte' = Append(byte, bit) /\ buf' = buf /\ bit' = bit
            BY <1>3, <2>3, SampledBitIs DEF Stays
        <3>2. byte' \in Seq(Binary) /\ Len(byte') = nth
            BY <1>s, <1>r, <1>3, <2>1, <3>1, AppendProperties
        <3>3. Unit' = (IF nth < Bits THEN "rbit" ELSE "rack") /\ nth' = nth + 1 /\ ret' = ret
            BY <1>s, <1>3, <2>1, <2>3, Moves
        <3> QED BY <1>s, <1>r, <1>3, <2>1, <3>1, <3>2, <3>3 DEF ReadOk
    <2> QED BY <1>s, <2>1, <2>2, <2>3
<1>4. CASE Unit = "rack"
    <2>1. Advance /\ Long[Unit] = 4
        BY <1>s, <1>4, SentBitIs DEF Long
    <2>2. CASE step < 4
        <3>1. /\ byte' = byte /\ buf' = buf /\ bit' = bit
            BY <1>s, <1>4, <2>2, SentBitIs DEF Quiet, Rises, Falls
        <3>2. Unit' = "rack" /\ ret' = ret
            BY <1>s, <1>4, <2>1, <2>2, Moves
        <3> QED BY <1>s, <1>r, <1>4, <3>1, <3>2 DEF ReadOk
    <2>3. CASE step = 4
        <3>1. byte' = <<>> /\ buf' = Append(buf, byte) /\ bit' = bit
            BY <1>4, <2>3, SentBitIs
        <3>2. byte \in Bytes /\ <<>> \in Seq(Binary) /\ Len(<<>>) = 0
            <4>1. byte \in Seq(Binary) /\ Len(byte) = Bits
                BY <1>r, <1>4
            <4>2. byte \in Bytes
                BY <4>1, SeqIsByte
            <4> QED BY <4>2
        <3>3. buf' \in Seq(Bytes)
            BY <1>r, <3>1, <3>2, AppendProperties
        <3>4. Unit' \in {"rbit", "stop"} /\ nth' = 1 /\ ret' = ret
            BY <1>s, <1>4, <2>1, <2>3, Moves
        <3> QED BY <1>s, <1>r, <1>4, <3>1, <3>2, <3>3, <3>4 DEF ReadOk
    <2> QED BY <1>s, <2>1, <2>2, <2>3
<1> QED BY <1>s, <1>1, <1>2, <1>3, <1>4
-----------------------------------------------------------------------------
(* SyncInv is kept: unit by unit, the sensor follows.                      *)

\* Registers wrap round.
LEMMA ModIs ==
    ASSUME NEW n \in Nat
    PROVE  n % 4 \in 0..3 /\ ((n % 4) + 1) % 4 = (n + 1) % 4
OBVIOUS

\* What has been read stays, as long as the registers do.
LEMMA CollectedStays ==
    ASSUME PinInv, Collected, request' = request, buf' = buf, ret' = ret,
           request.kind = Read => sensor'.mem = sensor.mem,
           call' = call \/ (call < 7 /\ call' < 8 /\ call' \in Nat)
    PROVE  Collected'
<1>1. call \in Nat
    BY PlaceIs DEF PinInv, PlaceOk, RequestOk, Requests, Last
<1>2. ASSUME request.kind = Read, NEW k
      PROVE  Register(k)' = Register(k)
    BY <1>2 DEF Register
<1> QED BY <1>1, <1>2 DEF Collected

\* A register's first bit.
LEMMA SendingIs ==
    ASSUME PinInv, NEW i \in Nat, i >= 1, sensor.ptr = (request.reg + i - 1) % 4,
           sensor' = SendByte(sensor), request' = request
    PROVE  Sending(i, 1)' /\ sensor'.mem = sensor.mem
<1>1. /\ SensorOk(sensor) /\ request.reg \in 0..3 /\ Bits \in Nat /\ Bits >= 2
    BY BitsFact DEF PinInv, PlaceOk, RequestOk, Requests
<1> DEFINE v == sensor.mem[sensor.ptr]
<1>2. v \in Bytes
    BY <1>1 DEF SensorOk, Sensors
<1>3. /\ sensor'.phase = "read" /\ sensor'.slot = "bits" /\ sensor'.drive = v[1] /\ sensor'.left = Tail(v)
      /\ sensor'.ptr = (sensor.ptr + 1) % 4 /\ sensor'.mem = sensor.mem
    BY <1>1, SendByteIs
<1>4. Len(Tail(v)) = Bits - 1 /\ \A x \in 1..Bits - 1 : Tail(v)[x] = v[x + 1]
    BY <1>2, ByteIsSeq
<1>5. sensor'.ptr = (request.reg + i) % 4
    <2>1. request.reg + i - 1 \in Nat /\ (request.reg + i - 1) + 1 = request.reg + i
        BY <1>1
    <2> QED BY <1>3, <2>1, ModIs
<1>6. Register(i)' = v
    BY <1>3 DEF Register
<1> HIDE DEF v
<1> QED BY <1>3, <1>4, <1>5, <1>6 DEF Sending

LEMMA IdleStep ==
    ASSUME PinInv, InStep, Run, Unit = "idle"
    PROVE  InStep'
<1>s. PlaceOk /\ call = 1 /\ request' = request /\ step \in {1, 2} /\ Long[Unit] = 2
    BY OpIs, PlaceIs DEF PinInv, PlaceOk, Long
<1>1. Advance /\ sensor' = sensor /\ buf' = buf
    BY SignalIs DEF Quiet
<1>2. /\ ret' = ret /\ call' \in {1, 2} /\ (Unit' = "idle" \/ (Unit' = "start" /\ call' = 2 /\ step' = 1))
    BY <1>s, <1>1, Moves
<1>3. Collected'
    BY <1>s, <1>1, <1>2, CollectedStays DEF InStep
<1> QED BY <1>1, <1>2, <1>3 DEF InStep, Gone, AtStart

LEMMA StartStep ==
    ASSUME PinInv, InStep, Run, Unit = "start"
    PROVE  InStep'
<1>s. /\ PlaceOk /\ call \in {2, 5} /\ request' = request /\ step \in {1, 2, 3, 4} /\ Long[Unit] = 4
      /\ SensorOk(sensor) /\ AtStart /\ sda \in Binary
    BY OpIs, PlaceIs DEF PinInv, PlaceOk, Long, InStep, LinesOk
<1>a. Advance
    BY SignalIs
<1>1. CASE step \in {1, 2}
    <2>1. Unit' = "start" /\ call' = call /\ step' = step + 1 /\ ret' = ret
        BY <1>s, <1>a, <1>1, Moves
    <2>2. /\ buf' = buf /\ (sensor' = sensor \/ (sensor' = OnRise(sensor, Level(sda, sensor)) /\ call # 2))
        BY <1>s, <1>1, SignalIs DEF Quiet, Rises
    <2>3. /\ sensor'.mem = sensor.mem /\ sensor'.ptr = sensor.ptr /\ sensor'.phase = sensor.phase
          /\ sensor'.slot = sensor.slot /\ sensor'.drive = sensor.drive
        <3>1. Level(sda, sensor) \in Binary
            BY <1>s, LevelIs
        <3> QED BY <1>s, <2>2, <3>1, RiseIs
    <2>4. Collected'
        BY <1>s, <2>1, <2>2, <2>3, CollectedStays DEF InStep
    <2> QED BY <1>s, <1>1, <2>1, <2>3, <2>4 DEF InStep, AtStart, Gone, Pointed
<1>2. CASE step = 3
    <2>1. Unit' = "start" /\ call' = call /\ step' = 4 /\ ret' = ret
        BY <1>s, <1>a, <1>2, Moves
    <2>2. sensor.drive = 1
        BY <1>s, <1>2 DEF AtStart, Gone, SensorOk
    <2>3. buf' = buf /\ sensor' = OnStart(sensor)
        BY <1>2, <2>2, SignalIs
    <2>4. /\ sensor'.mem = sensor.mem /\ sensor'.ptr = sensor.ptr /\ Ready("address")'
        BY <1>s, <2>3, StartStop DEF Ready
    <2>5. Collected'
        BY <1>s, <2>1, <2>3, <2>4, CollectedStays DEF InStep
    <2> QED BY <1>s, <1>2, <2>1, <2>4, <2>5 DEF InStep, AtStart, Pointed
<1>3. CASE step = 4
    <2>1. Unit' = "wbit" /\ call' = call + 1 /\ step' = 1 /\ nth' = 1 /\ ret' = ret
        BY <1>s, <1>a, <1>3, Moves
    <2>2. Ready("address") /\ Pointed
        BY <1>s, <1>3 DEF AtStart
    <2>3. buf' = buf /\ sensor' = sensor
        <3>1. Len(sensor.got) # Bits
            BY <2>2, BitsFact DEF Ready
        <3>2. PICK willing \in BOOLEAN : sensor' = OnFall(sensor, willing) /\ buf' = buf
            BY <1>3, SignalIs DEF Falls
        <3>3. sensor.phase \in Receiving /\ sensor.slot = "bits"
            BY <2>2 DEF Ready, Receiving
        <3>4. OnFall(sensor, willing) = sensor
            BY <1>s, <3>1, <3>3, FallIs
        <3> QED BY <3>2, <3>4
    <2>4. Collected'
        BY <1>s, <2>1, <2>3, CollectedStays DEF InStep
    <2>5. Taking(0)'
        BY <1>s, <2>1, <2>2, <2>3 DEF Taking, Ready, Wants, Pointed, Prefix
    <2> QED BY <2>1, <2>4, <2>5 DEF InStep
<1> QED BY <1>s, <1>1, <1>2, <1>3

LEMMA WriteBitStep ==
    ASSUME PinInv, InStep, Run, Unit = "wbit"
    PROVE  InStep'
<1>s. /\ PlaceOk /\ call \in {3, 4, 5, 6} /\ request' = request /\ step \in {1, 2, 3} /\ Long[Unit] = 3
      /\ SensorOk(sensor) /\ nth \in 1..Bits /\ Bits \in Nat /\ Bits >= 2
      /\ Value \in Bytes /\ Value[nth] \in Binary /\ (step > 1 => sda = Value[nth])
      /\ Taking(IF step = 3 THEN nth ELSE nth - 1) /\ Collected /\ Wants \in Receiving
    <2>1. PlaceOk /\ Long[Unit] = 3 /\ SensorOk(sensor) /\ Collected /\ request' = request
          /\ (step > 1 => sda = Value[nth]) /\ Taking(IF step = 3 THEN nth ELSE nth - 1)
        BY OpIs DEF PinInv, LinesOk, InStep, Long
    <2>2. call \in {3, 4, 5, 6} /\ nth \in 1..Bits /\ Value \in Bytes
        BY <2>1, PlaceIs
    <2>3. step \in {1, 2, 3} /\ Value[nth] \in Binary
        BY <2>1, <2>2 DEF PlaceOk, Bytes, Binary
    <2> QED BY <2>1, <2>2, <2>3, BitsFact DEF Wants, Receiving
<1>a. Advance
    BY SentBitIs
<1>g. sensor.got \in Seq(Binary) /\ sensor.phase = Wants /\ sensor.slot = "bits" /\ sensor.drive = 1
    BY <1>s DEF SensorOk, Sensors, Taking
<1>1. CASE step = 1
    <2>1. Unit' = "wbit" /\ call' = call /\ step' = 2 /\ nth' = nth /\ Value' = Value /\ ret' = ret
        BY <1>s, <1>a, <1>1, Moves
    <2>2. sensor' = sensor /\ buf' = buf
        BY <1>1, SentBitIs DEF Quiet
    <2>3. Collected'
        BY <1>s, <2>1, <2>2, CollectedStays
    <2>4. Taking(nth - 1)'
        BY <1>s, <1>1, <2>1, <2>2 DEF Taking, Wants, Pointed
    <2> QED BY <2>1, <2>3, <2>4 DEF InStep
<1>2. CASE step = 2
    <2>1. Unit' = "wbit" /\ call' = call /\ step' = 3 /\ nth' = nth /\ Value' = Value /\ ret' = ret
        BY <1>s, <1>a, <1>2, Moves
    <2>2. sensor' = OnRise(sensor, Value[nth]) /\ buf' = buf
        <3>1. Level(sda, sensor) = Value[nth]
            BY <1>s, <1>g, <1>2, LevelIs
        <3> QED BY <1>2, <3>1, SentBitIs DEF Rises
    <2>3. /\ sensor'.mem = sensor.mem /\ sensor'.ptr = sensor.ptr /\ sensor'.phase = Wants
          /\ sensor'.slot = "bits" /\ sensor'.drive = 1 /\ sensor'.got = Append(sensor.got, Value[nth])
        BY <1>s, <1>g, <2>2, RiseIs
    <2>4. Collected'
        BY <1>s, <2>1, <2>2, <2>3, CollectedStays
    <2>5. Prefix(sensor'.got, Value, nth)
        <3>1. Len(sensor.got) = nth - 1 /\ \A x \in 1..nth - 1 : sensor.got[x] = Value[x]
            BY <1>s, <1>2 DEF Taking, Prefix
        <3>2. /\ Len(sensor'.got) = nth /\ sensor'.got[nth] = Value[nth]
              /\ \A x \in 1..nth - 1 : sensor'.got[x] = sensor.got[x]
            BY <1>s, <1>g, <2>3, <3>1, AppendProperties
        <3> QED BY <1>s, <3>1, <3>2 DEF Prefix
    <2>6. Taking(nth)'
        BY <1>s, <2>1, <2>3, <2>5 DEF Taking, Wants, Pointed
    <2> QED BY <2>1, <2>4, <2>6 DEF InStep
<1>3. CASE step = 3
    <2>1. /\ call' = call /\ step' = 1 /\ nth' = nth + 1 /\ Value' = Value /\ ret' = ret
          /\ Unit' = IF nth < Bits THEN "wbit" ELSE "wack"
        BY <1>s, <1>a, <1>3, Moves
    <2>2. PICK willing \in BOOLEAN : sensor' = OnFall(sensor, willing) /\ buf' = buf
        BY <1>3, SentBitIs DEF Falls
    <2>3. Len(sensor.got) = nth /\ Prefix(sensor.got, Value, nth) /\ Pointed
        BY <1>s, <1>3 DEF Taking, Prefix
    <2>4. CASE nth < Bits
        <3>1. sensor' = sensor
            <4>1. Len(sensor.got) # Bits
                BY <1>s, <2>3, <2>4
            <4> QED BY <1>s, <1>g, <2>2, <4>1, FallIs
        <3>2. Collected'
            BY <1>s, <2>1, <2>2, <3>1, CollectedStays
        <3>3. nth' - 1 = nth
            BY <1>s, <2>1
        <3>4. Taking(nth - 1)'
            <4>1. Prefix(sensor.got, Value, nth - 1)'
                BY <2>1, <2>3, <3>1, <3>3
            <4>2. Wants' = Wants /\ Pointed'
                BY <1>s, <2>1, <2>3, <3>1 DEF Wants, Pointed
            <4> QED BY <1>g, <3>1, <4>1, <4>2 DEF Taking
        <3> QED BY <2>1, <2>4, <3>2, <3>4 DEF InStep
    <2>5. CASE nth = Bits
        <3>1. sensor' = OnStop(sensor) \/ sensor' = [sensor EXCEPT !.slot = "ack", !.drive = 0]
            BY <1>s, <1>g, <2>2, <2>3, <2>5, FallIs
        <3>2. sensor \in Sensors
            BY <1>s DEF SensorOk
        <3>3. /\ Gone' \/ Answering'
              /\ sensor'.mem = sensor.mem
            <4>1. CASE sensor' = OnStop(sensor)
                BY <1>s, <4>1, StartStop DEF Gone
            <4>2. CASE sensor' = [sensor EXCEPT !.slot = "ack", !.drive = 0]
                <5>1. /\ sensor'.phase = sensor.phase /\ sensor'.slot = "ack" /\ sensor'.drive = 0
                      /\ sensor'.got = sensor.got /\ sensor'.ptr = sensor.ptr /\ sensor'.mem = sensor.mem
                    BY <3>2, <4>2 DEF Sensors
                <5> QED BY <1>s, <1>g, <2>1, <2>3, <2>5, <5>1 DEF Answering, Wants, Pointed
            <4> QED BY <3>1, <4>1, <4>2
        <3>4. Collected'
            BY <1>s, <2>1, <2>2, <3>3, CollectedStays
        <3>5. AtAck'
            BY <2>1, <3>3 DEF AtAck
        <3> QED BY <1>s, <2>1, <2>5, <3>4, <3>5 DEF InStep
    <2> QED BY <1>s, <2>4, <2>5
<1> QED BY <1>s, <1>1, <1>2, <1>3

\* What the sensor makes of the byte it acknowledged.
LEMMA AnsweredIs ==
    ASSUME PinInv, Unit = "wack", Answering, sensor' = Accept(sensor), call' = call, request' = request
    PROVE  Answered' /\ (request.kind = Read => sensor'.mem = sensor.mem)
<1>s. /\ PlaceOk /\ SensorOk(sensor) /\ sensor \in Sensors /\ Bits \in Nat /\ Bits >= 2 /\ request.reg \in 0..3
      /\ request.kind \in {Read, Write} /\ Read # Write
    BY BitsFact DEF PinInv, SensorOk, PlaceOk, RequestOk, Requests, Read, Write
<1>c. /\ call \in {3, 4, 5, 6} /\ Value \in Bytes
      /\ call = 3 => Value[Bits] = Write
      /\ call = 4 => Number(Value) = request.reg
      /\ call = 5 => Value = request.val /\ request.kind = Write
      /\ call = 6 => Value[Bits] = Read
    BY <1>s, PlaceIs
<1>g. /\ sensor.got = Value /\ sensor.phase = Wants /\ sensor.slot = "ack"
      /\ call \in {5, 6} => sensor.ptr = request.reg
    <2>1. Prefix(sensor.got, Value, Bits) /\ sensor.got \in Seq(Binary)
        BY <1>s DEF Answering, Sensors
    <2>2. sensor.got = Value
        BY <1>c, <2>1, SeqIsByte DEF Prefix
    <2> QED BY <2>2 DEF Answering, Pointed
<1>1. CASE call = 3
    <2>1. sensor.phase = "address" /\ sensor.got[Bits] = Write
        BY <1>c, <1>g, <1>1 DEF Wants
    <2>2. Ready("pointer")' /\ sensor'.mem = sensor.mem
        BY <1>s, <1>g, <2>1, AcceptIs DEF Ready, Receiving
    <2> QED BY <1>1, <2>2 DEF Answered
<1>2. CASE call = 4
    <2>1. sensor.phase = "pointer" /\ Number(sensor.got) = request.reg
        BY <1>c, <1>g, <1>2 DEF Wants
    <2>2. Ready("write")' /\ sensor'.mem = sensor.mem /\ sensor'.ptr = request.reg
        BY <1>s, <1>g, <2>1, AcceptIs DEF Ready, Receiving
    <2> QED BY <1>2, <2>2 DEF Answered
<1>3. CASE call = 5
    <2>1. sensor.phase = "write" /\ sensor.got = request.val /\ sensor.ptr = request.reg /\ request.kind = Write
        BY <1>c, <1>g, <1>3 DEF Wants
    <2>2. Ready("write")' /\ sensor'.mem = [sensor.mem EXCEPT ![sensor.ptr] = sensor.got]
        BY <1>s, <1>g, <2>1, AcceptIs DEF Ready, Receiving
    <2>3. sensor'.mem[request.reg] = request.val
        BY <1>s, <2>1, <2>2 DEF Sensors
    <2> QED BY <1>s, <1>3, <2>1, <2>2, <2>3 DEF Answered, Written
<1>4. CASE call = 6
    <2>1. sensor.phase = "address" /\ sensor.got[Bits] = Read /\ sensor.ptr = request.reg
        BY <1>c, <1>g, <1>4 DEF Wants
    <2>2. sensor' = SendByte(sensor)
        BY <1>s, <1>g, <2>1, AcceptIs DEF Receiving
    <2>3. sensor.ptr = (request.reg + 1 - 1) % 4
        BY <1>s, <2>1
    <2>4. Sending(1, 1)' /\ sensor'.mem = sensor.mem
        BY <2>2, <2>3, SendingIs
    <2> QED BY <1>4, <2>4 DEF Answered
<1> QED BY <1>c, <1>1, <1>2, <1>3, <1>4

LEMMA WriteAckStep ==
    ASSUME PinInv, InStep, Run, Unit = "wack"
    PROVE  InStep'
<1>s. /\ PlaceOk /\ call # 0 /\ call \in {3, 4, 5, 6} /\ request' = request
      /\ step \in {1, 2, 3, 4, 5} /\ Long[Unit] = 5
      /\ SensorOk(sensor) /\ Bits \in Nat /\ Bits >= 2 /\ AtAck /\ Collected /\ bit \in Binary
      /\ (step > 1 => sda = 1) /\ sda \in Binary
      /\ Wants \in Receiving /\ Error # 1 /\ ret = 1
      /\ (call = 5 => request.kind = Write) /\ (call = 6 => request.kind = Read) /\ request.kind \in {Read, Write}
      /\ Read # Write
    <2>1. /\ PlaceOk /\ call # 0 /\ request' = request /\ SensorOk(sensor) /\ AtAck /\ Collected
          /\ (step > 1 => sda = 1) /\ sda \in Binary /\ bit \in Binary /\ ret = 1 /\ Long[Unit] = 5
        BY OpIs DEF PinInv, LinesOk, ReadOk, InStep, Long
    <2>2. /\ call \in {3, 4, 5, 6} /\ Error # 1
          /\ (call = 5 => request.kind = Write) /\ (call = 6 => request.kind = Read)
        BY <2>1, PlaceIs
    <2>3. request.kind \in {Read, Write} /\ Read # Write
        BY <2>1 DEF PlaceOk, RequestOk, Requests, Read, Write
    <2> QED BY <2>1, <2>2, <2>3, BitsFact, SampledBitIs DEF Wants, Receiving
<1>1. CASE step \in {1, 2, 3}
    <2>1. Unit' = "wack" /\ call' = call /\ step' = step + 1 /\ nth' = nth /\ Value' = Value /\ ret' = ret
        BY <1>s, <1>1, SampledBitIs, Moves
    <2>2. /\ sensor' = sensor /\ buf' = buf
          /\ step = 3 => bit' = sensor.drive
        <3>1. CASE step \in {1, 3}
            BY <3>1, SampledBitIs DEF Quiet, Stays
        <3>2. CASE step = 2
            <4>1. sensor' = OnRise(sensor, Level(sda, sensor)) /\ buf' = buf
                BY <3>2, SampledBitIs DEF Rises
            <4>2. sensor.phase = "idle" \/ (sensor.phase \in Receiving /\ sensor.slot = "ack")
                BY <1>s, <3>2 DEF AtAck, Gone, Answering
            <4> QED BY <3>2, <4>1, <4>2 DEF OnRise, Receiving
        <3> QED BY <1>1, <3>1, <3>2
    <2>3. Collected'
        BY <1>s, <2>1, <2>2, CollectedStays
    <2>4. (Gone => Gone' /\ sensor.drive = 1) /\ (Answering => Answering' /\ sensor.drive = 0)
        <3>1. /\ Wants' = Wants /\ (Pointed => Pointed')
              /\ Prefix(sensor.got, Value, Bits) => Prefix(sensor.got, Value, Bits)'
            BY <1>s, <2>1, <2>2 DEF Wants, Pointed
        <3> QED BY <1>s, <2>2, <3>1 DEF Gone, Answering, SensorOk
    <2>5. AtAck'
        BY <1>s, <1>1, <2>1, <2>2, <2>4 DEF AtAck
    <2> QED BY <2>1, <2>3, <2>5 DEF InStep
<1>2. CASE step = 4
    <2>1. Unit' = "wack" /\ call' = call /\ step' = 5 /\ nth' = nth /\ Value' = Value /\ ret' = ret
        BY <1>s, <1>2, SampledBitIs, Moves
    <2>2. PICK willing \in BOOLEAN : sensor' = OnFall(sensor, willing) /\ buf' = buf /\ bit' = bit
        BY <1>2, SampledBitIs DEF Falls
    <2>3. CASE Gone /\ bit = 1
        <3>1. sensor' = sensor
            BY <1>s, <2>2, <2>3, FallIs DEF Gone
        <3>2. Collected'
            BY <1>s, <2>1, <2>2, <3>1, CollectedStays
        <3>3. AtAck'
            BY <2>2, <2>3, <3>1 DEF AtAck, Gone
        <3> QED BY <2>1, <3>2, <3>3 DEF InStep
    <2>4. CASE Answering /\ bit = 0
        <3>1. sensor' = Accept(sensor)
            <4>1. sensor.phase \in Receiving /\ sensor.slot = "ack"
                BY <1>s, <2>4 DEF Answering
            <4> QED BY <1>s, <2>2, <4>1, FallIs
        <3>2. Answered' /\ (request.kind = Read => sensor'.mem = sensor.mem)
            BY <1>s, <2>1, <2>4, <3>1, AnsweredIs
        <3>3. Collected'
            BY <1>s, <2>1, <2>2, <3>2, CollectedStays
        <3>4. AtAck'
            BY <2>1, <2>2, <2>4, <3>2 DEF AtAck
        <3> QED BY <2>1, <3>3, <3>4 DEF InStep
    <2> QED BY <1>s, <1>2, <2>3, <2>4 DEF AtAck
<1>3. CASE step = 5 /\ bit = 0
    <2>1. Advance /\ sensor' = sensor /\ buf' = buf
        BY <1>3, SampledBitIs DEF Quiet
    <2>2. Answered
        BY <1>s, <1>3 DEF AtAck
    <2>3. /\ call' = call + 1 /\ step' = 1 /\ nth' = 1 /\ ret' = ret
          /\ call = 3 => Unit' = "wbit"
          /\ call = 4 => Unit' = IF request.kind = Read THEN "start" ELSE "wbit"
          /\ call = 5 => Unit' = "stop"
          /\ call = 6 => Unit' = "rbit"
        BY <1>s, <1>3, <2>1, Moves
    <2>4. Collected'
        BY <1>s, <2>1, <2>3, CollectedStays
    <2>5. CASE call = 3
        <3>1. Ready("pointer") /\ call' = 4
            BY <2>2, <2>3, <2>5 DEF Answered
        <3>2. Taking(nth - 1)'
            BY <2>1, <2>3, <3>1 DEF Ready, Taking, Wants, Pointed, Prefix
        <3> QED BY <2>3, <2>4, <2>5, <3>2 DEF InStep
    <2>6. CASE call = 4
        <3>1. Ready("write") /\ sensor.ptr = request.reg /\ call' = 5
            BY <2>2, <2>3, <2>6 DEF Answered
        <3>2. Taking(nth - 1)' /\ AtStart'
            BY <1>s, <2>1, <2>3, <3>1 DEF Ready, Taking, AtStart, Wants, Pointed, Prefix
        <3> QED BY <2>3, <2>4, <2>6, <3>2 DEF InStep
    <2>7. CASE call = 5
        <3>1. Ready("write") /\ Written
            BY <2>2, <2>7 DEF Answered
        <3> QED BY <1>s, <2>1, <2>3, <2>4, <2>7, <3>1 DEF InStep, Ready, Written
    <2>8. CASE call = 6
        <3>1. Sending(1, 1) /\ call' = 7
            BY <2>2, <2>3, <2>8 DEF Answered
        <3>2. (call - 6)' = 1 /\ nth' = 1 /\ byte' = byte /\ Len(byte) = 0
            BY <1>3, <2>3, <3>1, SampledBitIs DEF Quiet, PinInv, ReadOk
        <3>3. Sending(call - 6, nth)'
            BY <1>s, <2>1, <3>1, <3>2 DEF Sending, Register
        <3>4. Prefix(byte, Register(call - 6), nth - 1)'
            BY <3>2 DEF Prefix
        <3> QED BY <2>3, <2>4, <2>8, <3>3, <3>4 DEF InStep, AtReadBit
    <2> QED BY <1>s, <2>5, <2>6, <2>7, <2>8
<1>4. CASE step = 5 /\ bit = 1
    <2>1. OnNack(Error) /\ sensor' = sensor
        BY <1>4, SampledBitIs DEF Quiet
    <2>2. Unit' = "stop" /\ ret' = Error
        BY <1>s, <2>1, NackIs
    <2>3. sensor.drive = 1
        BY <1>s, <1>4 DEF AtAck, Gone, SensorOk
    <2> QED BY <1>s, <2>1, <2>2, <2>3 DEF InStep, Collected
<1> QED BY <1>s, <1>1, <1>2, <1>3, <1>4 DEF Binary

LEMMA ReadBitStep ==
    ASSUME PinInv, InStep, Run, Unit = "rbit"
    PROVE  InStep'
<1> DEFINE v == Register(call - 6)
<1>s. /\ PlaceOk /\ call # 0 /\ call \in Nat /\ call >= 7 /\ call < Last /\ request.kind = Read /\ request' = request
      /\ step \in {1, 2, 3, 4, 5} /\ Long[Unit] = 5 /\ nth \in 1..Bits /\ Bits \in Nat /\ Bits >= 2
      /\ SensorOk(sensor) /\ sensor \in Sensors /\ AtReadBit /\ Collected /\ request.reg \in 0..3
      /\ bit \in Binary /\ byte \in Seq(Binary) /\ v \in Bytes
    <2>1. /\ PlaceOk /\ call # 0 /\ request' = request /\ SensorOk(sensor) /\ AtReadBit /\ Collected
          /\ sensor \in Sensors /\ bit \in Binary /\ byte \in Seq(Binary) /\ request.reg \in 0..3 /\ Long[Unit] = 5
          /\ call \in Nat
        BY OpIs DEF PinInv, ReadOk, InStep, SensorOk, Long, PlaceOk, RequestOk, Requests, Last
    <2>2. call >= 7 /\ call < Last /\ request.kind = Read /\ nth \in 1..Bits
        BY <2>1, PlaceIs
    <2>3. v \in Bytes
        <3>1. request.reg + (call - 6) - 1 \in Nat
            BY <2>1, <2>2
        <3> QED BY <2>1, <3>1, ModIs DEF Register, Sensors
    <2> QED BY <2>1, <2>2, <2>3, BitsFact, SampledBitIs
<1>a. Advance
    BY SampledBitIs
<1>1. CASE step \in {1, 2, 3}
    <2>1. Unit' = "rbit" /\ call' = call /\ step' = step + 1 /\ nth' = nth /\ ret' = ret
        BY <1>s, <1>a, <1>1, Moves
    <2>2. Sending(call - 6, nth)
        BY <1>s, <1>1 DEF AtReadBit
    <2>3. sensor' = sensor /\ buf' = buf /\ byte' = byte /\ (step = 3 => bit' = sensor.drive)
        <3>1. CASE step \in {1, 3}
            BY <3>1, SampledBitIs DEF Quiet, Stays
        <3>2. CASE step = 2
            <4>1. sensor' = OnRise(sensor, Level(sda, sensor)) /\ buf' = buf /\ byte' = byte
                BY <3>2, SampledBitIs DEF Rises
            <4> QED BY <2>2, <3>2, <4>1 DEF OnRise, Sending
        <3> QED BY <1>1, <3>1, <3>2
    <2>4. Collected'
        BY <1>s, <2>1, <2>3, CollectedStays
    <2>5. v' = v /\ Sending(call - 6, nth)'
        BY <1>s, <2>1, <2>2, <2>3 DEF Sending, Register
    <2>6. AtReadBit'
        <3>1. step = 3 => bit' = v[nth]
            BY <2>2, <2>3 DEF Sending
        <3>2. Prefix(byte, v, nth - 1)'
            BY <1>s, <2>1, <2>3, <2>5 DEF AtReadBit
        <3> QED BY <1>s, <1>1, <2>1, <2>5, <3>1, <3>2 DEF AtReadBit
    <2> QED BY <2>1, <2>4, <2>6 DEF InStep
<1>2. CASE step = 4
    <2>1. Unit' = "rbit" /\ call' = call /\ step' = 5 /\ nth' = nth /\ ret' = ret
        BY <1>s, <1>a, <1>2, Moves
    <2>2. /\ sensor.phase = "read" /\ sensor.slot = "bits" /\ Len(sensor.left) = Bits - nth
          /\ \A x \in 1..Bits - nth : sensor.left[x] = v[x + nth]
          /\ sensor.ptr = (request.reg + (call - 6)) % 4
        BY <1>s, <1>2 DEF AtReadBit, Sending
    <2>3. PICK willing \in BOOLEAN : sensor' = OnFall(sensor, willing) /\ buf' = buf /\ byte' = byte /\ bit' = bit
        BY <1>2, SampledBitIs DEF Falls
    <2>l. sensor.left \in Seq(Binary)
        BY <1>s DEF Sensors
    <2>4. /\ sensor'.mem = sensor.mem
          /\ nth < Bits => Sending(call - 6, nth + 1)'
          /\ nth = Bits => Sent(call - 6)'
        <3>1. CASE nth < Bits
            <4>1. sensor.left # <<>>
                BY <1>s, <2>2, <3>1
            <4>2. sensor' = [sensor EXCEPT !.drive = Head(sensor.left), !.left = Tail(sensor.left)]
                BY <1>s, <2>2, <2>3, <4>1, FallIs
            <4>3. /\ Head(sensor.left) = sensor.left[1] /\ Len(Tail(sensor.left)) = Bits - nth - 1
                  /\ \A x \in 1..Bits - nth - 1 : Tail(sensor.left)[x] = sensor.left[x + 1]
                BY <1>s, <2>2, <2>l, <4>1, HeadTailProperties
            <4>4. /\ sensor'.phase = "read" /\ sensor'.slot = "bits" /\ sensor'.drive = Head(sensor.left)
                  /\ sensor'.left = Tail(sensor.left) /\ sensor'.ptr = sensor.ptr /\ sensor'.mem = sensor.mem
                BY <1>s, <2>2, <4>2 DEF Sensors
            <4>5. v' = v /\ nth' = nth /\ call' = call /\ request' = request
                BY <1>s, <2>1, <4>4 DEF Register
            <4>6. /\ sensor'.drive = v[nth + 1] /\ Len(sensor'.left) = Bits - (nth + 1)
                  /\ \A x \in 1..Bits - (nth + 1) : sensor'.left[x] = v[x + (nth + 1)]
                <5>1. sensor'.drive = v[nth + 1]
                    BY <1>s, <2>2, <3>1, <4>3, <4>4
                <5>2. Len(sensor'.left) = Bits - (nth + 1)
                    BY <1>s, <4>3, <4>4
                <5>3. ASSUME NEW x \in 1..Bits - (nth + 1)
                      PROVE  sensor'.left[x] = v[x + (nth + 1)]
                    <6>1. x \in 1..Bits - nth - 1 /\ x + 1 \in 1..Bits - nth /\ (x + 1) + nth = x + (nth + 1)
                        BY <1>s
                    <6>2. sensor'.left[x] = sensor.left[x + 1]
                        BY <4>3, <4>4, <6>1
                    <6>3. sensor.left[x + 1] = v[(x + 1) + nth]
                        BY <2>2, <6>1
                    <6> QED BY <6>1, <6>2, <6>3
                <5> QED BY <5>1, <5>2, <5>3
            <4> QED BY <2>2, <3>1, <4>4, <4>5, <4>6, <1>s DEF Sending
        <3>2. CASE nth = Bits
            <4>1. sensor.left = <<>>
                BY <1>s, <2>2, <2>l, <3>2
            <4>2. sensor' = [sensor EXCEPT !.slot = "ack", !.drive = 1]
                BY <1>s, <2>2, <2>3, <4>1, FallIs
            <4>3. /\ sensor'.phase = "read" /\ sensor'.slot = "ack" /\ sensor'.drive = 1
                  /\ sensor'.ptr = sensor.ptr /\ sensor'.mem = sensor.mem
                BY <1>s, <2>2, <4>2 DEF Sensors
            <4> QED BY <1>s, <2>1, <2>2, <3>2, <4>3 DEF Sent
        <3> QED BY <1>s, <3>1, <3>2
    <2>5. Collected'
        BY <1>s, <2>1, <2>3, <2>4, CollectedStays
    <2>6. AtReadBit'
        <3>1. v' = v
            BY <1>s, <2>1, <2>4 DEF Register
        <3>2. Prefix(byte, v, nth - 1)' /\ bit' = v[nth]
            BY <1>s, <1>2, <2>1, <2>3, <3>1 DEF AtReadBit
        <3> QED BY <1>s, <2>1, <2>4, <3>1, <3>2 DEF AtReadBit
    <2> QED BY <2>1, <2>5, <2>6 DEF InStep
<1>3. CASE step = 5
    <2>1. /\ call' = call /\ step' = 1 /\ nth' = nth + 1 /\ ret' = ret
          /\ Unit' = IF nth < Bits THEN "rbit" ELSE "rack"
        BY <1>s, <1>a, <1>3, Moves
    <2>2. sensor' = sensor /\ buf' = buf /\ byte' = Append(byte, bit) /\ v' = v
        <3>1. sensor' = sensor /\ buf' = buf /\ byte' = Append(byte, bit)
            BY <1>3, SampledBitIs DEF Stays
        <3> QED BY <1>s, <2>1, <3>1 DEF Register
    <2>3. Collected'
        BY <1>s, <2>1, <2>2, CollectedStays
    <2>4. byte' \in Seq(Binary) /\ Prefix(byte', v, nth)
        <3>1. Len(byte) = nth - 1 /\ (\A x \in 1..nth - 1 : byte[x] = v[x]) /\ bit = v[nth]
            BY <1>s, <1>3 DEF AtReadBit, Prefix
        <3>2. /\ byte' \in Seq(Binary) /\ Len(byte') = nth /\ byte'[nth] = bit
              /\ \A x \in 1..nth - 1 : byte'[x] = byte[x]
            BY <1>s, <2>2, <3>1, AppendProperties
        <3> QED BY <1>s, <3>1, <3>2 DEF Prefix
    <2>5. CASE nth < Bits
        <3>1. nth' - 1 = nth
            BY <1>s, <2>1
        <3>2. Prefix(byte, v, nth - 1)'
            BY <2>2, <2>4, <3>1
        <3>3. Sending(call - 6, nth)'
            <4>1. Sending(call - 6, nth + 1)
                BY <1>s, <1>3, <2>5 DEF AtReadBit
            <4> QED BY <1>s, <2>1, <2>2, <4>1 DEF Sending
        <3> QED BY <2>1, <2>3, <2>5, <3>2, <3>3 DEF InStep, AtReadBit
    <2>6. CASE nth = Bits
        <3>1. Sent(call - 6)
            BY <1>s, <1>3, <2>6 DEF AtReadBit
        <3>2. byte' = v
            BY <1>s, <2>4, <2>6, SeqIsByte DEF Prefix
        <3>3. Sent(call - 6)'
            BY <1>s, <2>1, <2>2, <3>1 DEF Sent
        <3>4. Unit' = "rack"
            BY <1>s, <2>1, <2>6
        <3> QED BY <2>1, <2>2, <2>3, <3>2, <3>3, <3>4 DEF InStep, AtReadAck
    <2> QED BY <1>s, <2>5, <2>6
<1> QED BY <1>s, <1>1, <1>2, <1>3

LEMMA ReadAckStep ==
    ASSUME PinInv, InStep, Run, Unit = "rack"
    PROVE  InStep'
<1> DEFINE v == Register(call - 6)
<1>s. /\ PlaceOk /\ call # 0 /\ call \in Nat /\ call >= 7 /\ call < Last /\ request.kind = Read /\ request' = request
      /\ step \in {1, 2, 3, 4} /\ Long[Unit] = 4 /\ Last \in Nat /\ ret = 1 /\ Read # Write
      /\ SensorOk(sensor) /\ AtReadAck /\ Collected /\ request.reg \in 0..3
      /\ byte \in Bytes /\ buf \in Seq(Bytes) /\ Value = (IF call = Last - 1 THEN 1 ELSE 0)
      /\ (step > 1 => sda = Value) /\ sda \in Binary
    <2>1. /\ PlaceOk /\ call # 0 /\ request' = request /\ SensorOk(sensor) /\ AtReadAck /\ Collected
          /\ buf \in Seq(Bytes) /\ byte \in Seq(Binary) /\ Len(byte) = Bits /\ request.reg \in 0..3
          /\ Long[Unit] = 4 /\ Last \in Nat /\ call \in Nat /\ ret = 1 /\ Read # Write
          /\ (step > 1 => sda = Value) /\ sda \in Binary /\ 1 <= step /\ step <= Long[Unit] /\ step \in Nat
        BY OpIs DEF PinInv, ReadOk, LinesOk, InStep, Long, PlaceOk, RequestOk, Requests, Last, Read, Write
    <2>2. call >= 7 /\ call < Last /\ request.kind = Read /\ Value = (IF call = Last - 1 THEN 1 ELSE 0)
        BY <2>1, PlaceIs
    <2>3. byte \in Bytes
        BY <2>1, SeqIsByte
    <2> QED BY <2>1, <2>2, <2>3
<1>a. Advance
    BY SentBitIs
<1>1. CASE step \in {1, 2}
    <2>1. Unit' = "rack" /\ call' = call /\ step' = step + 1 /\ ret' = ret /\ Value' = Value
        BY <1>s, <1>a, <1>1, Moves
    <2>2. Sent(call - 6) /\ byte = v
        BY <1>s, <1>1 DEF AtReadAck
    <2>3. /\ buf' = buf /\ byte' = byte
          /\ sensor'.mem = sensor.mem /\ sensor'.phase = "read" /\ sensor'.slot = "ack" /\ sensor'.drive = 1
          /\ sensor'.ptr = sensor.ptr
          /\ step = 2 => sensor'.acked = (Value = 0)
        <3>1. CASE step = 1
            BY <2>2, <3>1, SentBitIs DEF Quiet, Sent
        <3>2. CASE step = 2
            <4>1. sensor' = OnRise(sensor, Level(sda, sensor)) /\ buf' = buf /\ byte' = byte
                BY <3>2, SentBitIs DEF Rises
            <4>2. Level(sda, sensor) = Value /\ Value \in Binary
                BY <1>s, <2>2, <3>2, LevelIs DEF Sent, Binary
            <4> QED BY <1>s, <2>2, <3>2, <4>1, <4>2, RiseIs DEF Sent, Receiving
        <3> QED BY <1>1, <3>1, <3>2
    <2>4. Collected'
        BY <1>s, <2>1, <2>3, CollectedStays
    <2>5. AtReadAck'
        BY <1>s, <1>1, <2>1, <2>2, <2>3 DEF AtReadAck, Sent, Register
    <2> QED BY <2>1, <2>4, <2>5 DEF InStep
<1>2. CASE step = 3
    <2>1. Unit' = "rack" /\ call' = call /\ step' = 4 /\ ret' = ret /\ Value' = Value
        BY <1>s, <1>a, <1>2, Moves
    <2>2. Sent(call - 6) /\ byte = v /\ sensor.acked = (Value = 0)
        BY <1>s, <1>2 DEF AtReadAck
    <2>3. PICK willing \in BOOLEAN : sensor' = OnFall(sensor, willing) /\ buf' = buf /\ byte' = byte
        BY <1>2, SentBitIs DEF Falls
    <2>4. sensor' = IF Value = 0 THEN SendByte(sensor) ELSE OnStop(sensor)
        BY <1>s, <2>2, <2>3, FallIs DEF Sent
    <2>5. sensor'.mem = sensor.mem /\ (IF Value = 0 THEN Sending(call - 5, 1)' ELSE Gone')
        <3>1. CASE Value = 0
            <4>1. /\ call - 5 \in Nat /\ call - 5 >= 1 /\ sensor.ptr = (request.reg + (call - 5) - 1) % 4
                  /\ sensor' = SendByte(sensor)
                BY <1>s, <2>2, <2>4, <3>1 DEF Sent
            <4>2. \A i \in Nat : i >= 1 /\ sensor.ptr = (request.reg + i - 1) % 4 =>
                     Sending(i, 1)' /\ sensor'.mem = sensor.mem
                BY <1>s, <4>1, SendingIs
            <4>3. Sending(call - 5, 1)' /\ sensor'.mem = sensor.mem
                BY <1>s, <2>1, <4>1, <4>2 DEF Sending, Register
            <4> QED BY <3>1, <4>3
        <3>2. CASE Value # 0
            BY <1>s, <2>4, <3>2, StartStop DEF Gone
        <3> QED BY <3>1, <3>2
    <2>6. Collected'
        BY <1>s, <2>1, <2>3, <2>5, CollectedStays
    <2>7. AtReadAck'
        BY <1>s, <2>1, <2>2, <2>3, <2>5 DEF AtReadAck, Register
    <2> QED BY <2>1, <2>6, <2>7 DEF InStep
<1>3. CASE step = 4
    <2>1. /\ call' = call + 1 /\ step' = 1 /\ nth' = 1 /\ ret' = ret
          /\ Unit' = IF call = Last - 1 THEN "stop" ELSE "rbit"
        BY <1>s, <1>a, <1>3, Moves
    <2>2. sensor' = sensor /\ buf' = Append(buf, byte) /\ byte' = <<>>
        BY <1>3, SentBitIs DEF Stays
    <2>3. byte = v /\ (IF Value = 0 THEN Sending(call - 5, 1) ELSE Gone)
        BY <1>s, <1>3 DEF AtReadAck
    <2>4. Collected'
        <3>1. Len(buf) = call - 7 /\ \A k \in 1..Len(buf) : buf[k] = Register(k)
            BY <1>s DEF Collected
        <3>2. /\ Len(buf') = call - 6 /\ buf'[call - 6] = v
              /\ \A k \in 1..call - 7 : buf'[k] = buf[k]
            BY <1>s, <2>2, <2>3, <3>1, AppendProperties
        <3>3. ASSUME NEW k \in 1..Len(buf')
              PROVE  buf'[k] = Register(k)
            <4>1. k = call - 6 \/ k \in 1..call - 7
                BY <1>s, <3>2
            <4> QED BY <3>1, <3>2, <4>1
        <3>4. Len(buf') = call' - 7 /\ ~(call' < 7)
            BY <1>s, <2>1, <3>2
        <3> QED BY <1>s, <2>2, <3>3, <3>4 DEF Collected, Register
    <2>5. CASE call = Last - 1
        <3>1. Unit' = "stop" /\ Gone
            BY <1>s, <2>1, <2>3, <2>5
        <3> QED BY <1>s, <2>2, <2>4, <3>1 DEF InStep, Gone, Written, SensorOk
    <2>6. CASE call # Last - 1
        <3>1. Unit' = "rbit" /\ Sending(call - 5, 1) /\ call' - 6 = call - 5
            BY <1>s, <2>1, <2>3, <2>6
        <3>2. Sending(call - 6, nth)'
            BY <1>s, <2>1, <2>2, <3>1 DEF Sending, Register
        <3>3. Prefix(byte, Register(call - 6), nth - 1)'
            <4>1. Len(<<>>) = 0
                OBVIOUS
            <4> QED BY <2>1, <2>2, <4>1 DEF Prefix
        <3> QED BY <2>1, <2>4, <3>1, <3>2, <3>3 DEF InStep, AtReadBit
    <2> QED BY <2>5, <2>6
<1> QED BY <1>s, <1>1, <1>2, <1>3

LEMMA StopStep ==
    ASSUME PinInv, InStep, Run, Unit = "stop"
    PROVE  /\ call' # 0 => InStep'
           /\ call' = 0 => Gone' /\ ret' # -10 /\ TransferGenuine'
<1>s. /\ PlaceOk /\ call # 0 /\ call = Last /\ Last \in Nat /\ request' = request
      /\ step \in {1, 2, 3} /\ Long[Unit] = 3
      /\ SensorOk(sensor) /\ Collected /\ sensor.drive = 1 /\ (ret = 1 => Written) /\ sda \in Binary
      /\ ret \in {1, -1, -2, -3} /\ request.kind \in {Read, Write} /\ Read # Write /\ request.len \in Nat
      /\ (request.kind = Read => Last = request.len + 7) /\ buf \in Seq(Bytes)
    BY OpIs, PlaceIs
       DEF PinInv, PlaceOk, LinesOk, ReadOk, InStep, Long, RequestOk, Requests, Last, Read, Write
<1>a. Advance
    BY SignalIs
<1>1. CASE step \in {1, 2}
    <2>1. Unit' = "stop" /\ call' = call /\ ret' = ret
        BY <1>s, <1>a, <1>1, Moves
    <2>2. buf' = buf /\ sensor'.mem = sensor.mem /\ sensor'.drive = 1
        <3>1. CASE step = 1
            BY <1>s, <3>1, SignalIs DEF Quiet
        <3>2. CASE step = 2
            <4>1. sensor' = OnRise(sensor, Level(sda, sensor)) /\ buf' = buf
                BY <3>2, SignalIs DEF Rises
            <4>2. Level(sda, sensor) \in Binary
                BY <1>s, LevelIs
            <4> QED BY <1>s, <4>1, <4>2, RiseIs
        <3> QED BY <1>1, <3>1, <3>2
    <2>3. Collected'
        BY <1>s, <2>1, <2>2, CollectedStays
    <2>4. call' # 0
        BY <1>s, <2>1 DEF Last
    <2> QED BY <1>s, <2>1, <2>2, <2>3, <2>4 DEF InStep, Written
<1>2. CASE step = 3
    <2>1. call' = 0 /\ ret' = IF ret = 1 THEN 0 ELSE ret
        BY <1>s, <1>a, <1>2, Moves DEF Return
    <2>2. sensor' = OnStop(sensor) /\ buf' = buf
        BY <1>s, <1>2, SignalIs
    <2>3. Gone' /\ sensor'.mem = sensor.mem
        BY <1>s, <2>2, StartStop DEF Gone
    <2>4. ASSUME ret' = 0, request.kind = Write
          PROVE  sensor'.mem[request'.reg] = request'.val
        BY <1>s, <2>1, <2>3, <2>4 DEF Written
    <2>5. ASSUME ret' = 0, request.kind = Read
          PROVE  buf' = Asked'
        <3>1. Len(buf) = request.len /\ \A k \in 1..Len(buf) : buf[k] = Register(k)
            BY <1>s, <2>1, <2>5 DEF Collected
        <3>2. buf = [k \in 1..request.len |-> Register(k)]
            <4>1. buf = [k \in 1..Len(buf) |-> buf[k]]
                BY <1>s
            <4> QED BY <3>1, <4>1
        <3> QED BY <1>s, <2>2, <2>3, <3>2 DEF Asked, Register
    <2> QED BY <1>s, <2>1, <2>3, <2>4, <2>5 DEF TransferGenuine
<1> QED BY <1>s, <1>1, <1>2

\* A transaction ends with the stop.
LEMMA EndsAtStop ==
    ASSUME PinInv, Run, call' = 0
    PROVE  Unit = "stop" /\ ret' # -10
<1>s. /\ PlaceOk /\ ReadOk /\ call # 0 /\ call \in Nat /\ Last \in Nat /\ Last # 0 /\ request' = request
      /\ Unit \in {"idle", "start", "stop", "wbit", "wack", "rbit", "rack"}
      /\ step \in Nat /\ 1 <= step /\ step <= Long[Unit] /\ Long[Unit] \in Nat
      /\ ret \in {1, -1, -2, -3}
    <2>1. PlaceOk /\ ReadOk /\ call # 0 /\ request' = request
        BY OpIs DEF PinInv
    <2>2. Unit \in {"idle", "start", "stop", "wbit", "wack", "rbit", "rack"}
        BY <2>1, DoIs
    <2> QED BY <2>1, <2>2 DEF PlaceOk, ReadOk, RequestOk, Requests, Last, Long
<1>a. Advance
    <2>1. CASE OnNack(Error)
        BY <1>s, <2>1, NackIs
    <2> QED BY <1>s, <2>1, SignalIs, SentBitIs, SampledBitIs
<1>1. step = Long[Unit]
    BY <1>s, <1>a, Moves
<1>2. Unit = "stop"
    BY <1>s, <1>a, <1>1, Moves
<1>3. ret' = IF ret = 1 THEN 0 ELSE ret
    BY <1>s, <1>a, <1>1, <1>2, Moves DEF Return
<1> QED BY <1>s, <1>2, <1>3

\* One step of a transaction.
LEMMA RunStep ==
    ASSUME Inv, Run
    PROVE  Inv'
<1>1. PinInv /\ SyncInv /\ call # 0 /\ UNCHANGED <<request, restarts, in_sync>> /\ PlaceOk
    BY OpIs DEF Inv, PinInv
<1>2. PinInv'
    BY <1>1, SensorStep, PlaceStep, ReadStep DEF PinInv
<1>3. call' = 0 => Unit = "stop" /\ ret' # -10
    BY <1>1, EndsAtStop
<1>4. ASSUME in_sync
      PROVE  /\ call' # 0 => InStep'
             /\ call' = 0 => Gone' /\ TransferGenuine'
    <2>1. InStep
        BY <1>1, <1>4 DEF SyncInv
    <2>2. Unit \in {"idle", "start", "stop", "wbit", "wack", "rbit", "rack"}
        BY <1>1, DoIs
    <2> QED BY <1>1, <1>3, <2>1, <2>2, IdleStep, StartStep, WriteBitStep, WriteAckStep, ReadBitStep,
               ReadAckStep, StopStep
<1>5. TransferGenuine'
    BY <1>1, <1>4 DEF TransferGenuine
<1>6. ret' # -10
    BY <1>2, <1>3 DEF PinInv, ReadOk
<1> QED BY <1>1, <1>2, <1>3, <1>4, <1>5, <1>6 DEF Inv, SyncInv
-----------------------------------------------------------------------------
(* A transaction begins, and a restart ends one.                           *)
LEMMA FirstCall == RequestOk /\ call # 0 => Calls[1].do = "idle" /\ Last >= 6
BY CallsAre DEF Call

LEMMA BeginStep ==
    ASSUME Inv, NEW kind \in {Read, Write}, NEW dev \in {0, 1}, NEW reg \in 0..3, NEW val \in Bytes,
           NEW len \in Nat, kind = Read => len # 0, Begin(kind, dev, reg, val, len)
    PROVE  Inv'
<1>1. (RequestOk /\ call # 0 => Calls[1].do = "idle" /\ Last >= 6)'
    BY FirstCall, PTL
<1>2. /\ call = 0 /\ call' = 1 /\ nth' = 1 /\ step' = 1 /\ ret' = 1 /\ byte' = <<>> /\ buf' = <<>>
      /\ request' = [kind |-> kind, dev |-> dev, reg |-> reg, val |-> val, len |-> len]
      /\ in_sync' = (sensor.phase = "idle")
      /\ UNCHANGED <<scl, sda, bit, sensor, restarts>>
    BY DEF Begin
<1>3. RequestOk' /\ Last' \in Nat
    BY <1>2 DEF RequestOk, Requests, Last
<1>4. Unit' = "idle" /\ BitsOf(Calls[call])' = 1
    BY <1>1, <1>2, <1>3 DEF Unit, BitsOf
<1>5. Unit = "none" /\ PlaceOk /\ LinesOk /\ ReadOk /\ SensorOk(sensor) /\ restarts \in Nat
    BY <1>2 DEF Inv, PinInv, Unit
<1>6. PlaceOk'
    BY <1>1, <1>2, <1>3, <1>4 DEF PlaceOk, Long
<1>7. LinesOk'
    BY <1>2, <1>4, <1>5 DEF LinesOk, Binary
<1>8. ReadOk'
    <2>1. <<>> \in Seq(Binary) /\ <<>> \in Seq(Bytes) /\ Len(<<>>) = 0
        OBVIOUS
    <2> QED BY <1>2, <1>4, <1>5, <2>1 DEF ReadOk
<1>9. in_sync' => InStep'
    <2>1. Len(buf') = 0
        BY <1>2
    <2>2. Collected'
        BY <1>2, <2>1 DEF Collected
    <2> QED BY <1>2, <1>4, <2>2 DEF InStep, Gone
<1>10. restarts = 0 => Gone
    BY <1>2 DEF Inv, SyncInv
<1> QED BY <1>2, <1>5, <1>6, <1>7, <1>8, <1>9, <1>10 DEF Inv, PinInv, SyncInv, Gone, TransferGenuine

LEMMA RestartStep ==
    ASSUME Inv, Restart
    PROVE  Inv'
<1>1. /\ call' = 0 /\ nth' = 1 /\ step' = 1 /\ ret' = -10 /\ scl' = 1 /\ sda' = 1 /\ bit' = 1
      /\ byte' = <<>> /\ buf' = <<>> /\ restarts' = restarts + 1 /\ UNCHANGED <<request, in_sync>>
    BY DEF Restart
<1>2. /\ request \in Requests /\ SensorOk(sensor) /\ sda \in Binary /\ restarts \in Nat /\ in_sync \in BOOLEAN
    BY DEF Inv, PinInv, PlaceOk, RequestOk, LinesOk
<1>3. Unit' = "none"
    BY <1>1 DEF Unit
<1>4. PlaceOk'
    <2>1. Last' \in Nat
        BY <1>1, <1>2 DEF Last, Requests
    <2> QED BY <1>1, <1>2, <1>3, <2>1 DEF PlaceOk, RequestOk, Long
<1>5. LinesOk' /\ ReadOk'
    <2>1. <<>> \in Seq(Binary) /\ <<>> \in Seq(Bytes) /\ Len(<<>>) = 0
        OBVIOUS
    <2> QED BY <1>1, <1>3, <2>1 DEF LinesOk, ReadOk, Binary
<1>6. SensorOk(sensor')
    <2>1. Level(sda, sensor) \in Binary
        BY <1>2, LevelIs
    <2> DEFINE up == IF scl = 0 THEN OnRise(sensor, Level(sda, sensor)) ELSE sensor
    <2>2. SensorOk(up)
        BY <1>2, <2>1, RiseIs
    <2>3. sensor' = OnStop(up) \/ sensor' = up
        BY DEF Restart
    <2> HIDE DEF up
    <2> QED BY <2>2, <2>3, StartStop
<1> QED BY <1>1, <1>2, <1>4, <1>5, <1>6 DEF Inv, PinInv, SyncInv, TransferGenuine
-----------------------------------------------------------------------------
LEMMA InitInv == Init => Inv
<1> SUFFICES ASSUME Init PROVE Inv
    OBVIOUS
<1>1. /\ call = 0 /\ nth = 1 /\ step = 1 /\ scl = 1 /\ sda = 1 /\ bit = 1 /\ byte = <<>> /\ buf = <<>>
      /\ request = [kind |-> Read, dev |-> Device, reg |-> 0, val |-> RegByte(0), len |-> 0]
      /\ ret = 0 /\ restarts = 0 /\ in_sync = TRUE
    BY DEF Init
<1>2. \A r \in 0..3 : RegByte(r) \in Bytes
    BY RegByteIs
<1>3. SensorOk(sensor) /\ sensor.phase = "idle"
    <2>1. [r \in 0..3 |-> RegByte(0)] \in [0..3 -> Bytes] /\ [r \in 0..3 |-> RegByte(r)] \in [0..3 -> Bytes]
        BY <1>2
    <2>2. PICK m \in [0..3 -> Bytes] : sensor = [phase |-> "idle", slot |-> "bits", got |-> <<>>, left |-> <<>>,
                                                 drive |-> 1, acked |-> FALSE, ptr |-> 0, mem |-> m]
        BY <2>1 DEF Init
    <2>3. <<>> \in Seq(Binary)
        OBVIOUS
    <2> QED BY <2>2, <2>3 DEF SensorOk, Sensors, Receiving, Binary
<1>4. Unit = "none"
    BY <1>1 DEF Unit
<1>5. PlaceOk
    <2>1. request \in Requests /\ Last \in Nat
        BY <1>1, <1>2, I2cBusAssumption DEF Requests, Last
    <2> QED BY <1>1, <1>4, <2>1 DEF PlaceOk, RequestOk, Long
<1>6. LinesOk /\ ReadOk
    <2>1. <<>> \in Seq(Binary) /\ <<>> \in Seq(Bytes) /\ Len(<<>>) = 0
        OBVIOUS
    <2> QED BY <1>1, <1>4, <2>1 DEF LinesOk, ReadOk, Binary
<1>7. TransferGenuine
    <2>1. buf = Asked
        BY <1>1 DEF Asked
    <2> QED BY <1>1, <2>1 DEF TransferGenuine, Read, Write
<1> QED BY <1>1, <1>3, <1>5, <1>6, <1>7 DEF Inv, PinInv, SyncInv, Gone

LEMMA NextInv == Inv /\ [Next]_vars => Inv'
<1> SUFFICES ASSUME Inv, [Next]_vars PROVE Inv'
    OBVIOUS
<1>1. ASSUME NEW dev \in Addresses, NEW reg \in Registers, NEW len \in Lengths, BeginRead(dev, reg, len)
      PROVE  Inv'
    <2>1. dev \in {0, 1} /\ reg \in 0..3 /\ len \in Nat /\ len # 0 /\ RegByte(0) \in Bytes
        BY I2cBusAssumption, RegByteIs
    <2>2. Begin(Read, dev, reg, RegByte(0), len)
        BY <1>1 DEF BeginRead
    <2> QED BY <2>1, <2>2, BeginStep
<1>2. ASSUME NEW dev \in Addresses, NEW reg \in Registers, NEW val \in Data, BeginWrite(dev, reg, val)
      PROVE  Inv'
    <2>1. dev \in {0, 1} /\ reg \in 0..3 /\ val \in Bytes /\ Write # Read
        BY I2cBusAssumption DEF Bytes, Read, Write
    <2>2. Begin(Write, dev, reg, val, 0)
        BY <1>2 DEF BeginWrite
    <2> QED BY <2>1, <2>2, BeginStep
<1>3. CASE Run
    BY <1>3, RunStep
<1>4. CASE Restart
    BY <1>4, RestartStep
<1>5. CASE UNCHANGED vars
    <2>1. Calls' = Calls /\ Last' = Last /\ UNCHANGED vars
        BY <1>5 DEF vars, Calls, Last
    <2>2. Unit' = Unit /\ Value' = Value
        BY <2>1 DEF vars, Unit, Value
    <2>3. PlaceOk' /\ LinesOk'
        BY <2>1, <2>2 DEF vars, Inv, PinInv, PlaceOk, RequestOk, LinesOk
    <2>4. ReadOk' /\ SensorOk(sensor') /\ (restarts \in Nat)' /\ (in_sync \in BOOLEAN)'
        BY <2>1, <2>2 DEF vars, Inv, PinInv, ReadOk
    <2>5. TransferGenuine'
        BY <2>1 DEF vars, Inv, SyncInv, TransferGenuine, Asked
    <2>6. InStep => InStep'
        <3>1. (AtStart => AtStart') /\ (Collected => Collected') /\ (Gone => Gone') /\ (Written => Written')
            BY <2>1 DEF vars, AtStart, Ready, Gone, Pointed, Collected, Register, Written
        <3>2. (Unit = "wbit" /\ Taking(IF step = 3 THEN nth ELSE nth - 1))
                 => Taking(IF step = 3 THEN nth ELSE nth - 1)'
            BY <2>1, <2>2 DEF vars, Taking, Wants, Pointed
        <3>3. AtAck => AtAck'
            BY <2>1, <2>2 DEF vars, AtAck, Gone, Answered, Answering, Ready, Sending, Register, Written, Wants, Pointed
        <3>4. AtReadBit => AtReadBit'
            BY <2>1 DEF vars, AtReadBit, Sending, Sent, Register
        <3>5. AtReadAck => AtReadAck'
            BY <2>1, <2>2 DEF vars, AtReadAck, Sending, Sent, Register, Gone
        <3> QED BY <2>1, <2>2, <3>1, <3>2, <3>3, <3>4, <3>5 DEF vars, InStep
    <2> QED BY <2>1, <2>3, <2>4, <2>5, <2>6 DEF vars, Inv, PinInv, SyncInv, Gone
<1> QED BY <1>1, <1>2, <1>3, <1>4, <1>5 DEF Next, Run

(* The types and the lines: the firmware drives the lines as the bit it is *)
(* at wants them, whatever the sensor does and wherever it was restarted.  *)
THEOREM PinsFollowPlace == Spec => []PinInv
<1>1. Inv => PinInv
    BY DEF Inv
<1> QED BY InitInv, NextInv, <1>1, PTL DEF Spec

(* bb_i2c_read_regs and bb_i2c_write_reg: 0 says that the bytes have       *)
(* moved, all of them and in order, for bytes of any size, any length and  *)
(* whatever bytes the sensor refuses.                                      *)
THEOREM TransferIsGenuine == Spec => []TransferGenuine
<1>1. Inv => TransferGenuine
    BY DEF Inv, SyncInv
<1> QED BY InitInv, NextInv, <1>1, PTL DEF Spec
-----------------------------------------------------------------------------
(* After a restart.  The sensor may be anywhere then; what brings it back  *)
(* is the clock.  A transaction clocks the sensor through whole bytes, and *)
(* each start once more, so a sensor that sends while the firmware sends   *)
(* is a clock further on at each start, until its acknowledgement slot,    *)
(* in which it releases SDA, meets a start or a stop that it then sees.    *)

\* What the sensor drives.
Tame(s) ==
    /\ s.phase \in Receiving /\ s.slot = "bits" => s.drive = 1
    /\ s.phase = "read" /\ s.slot = "ack" => s.drive = 1
    /\ s.phase = "read" /\ s.slot = "bits" => Len(s.left) < Bits

\* It sends and is at the n-th clock of a byte and its acknowledgement.
Turn(n) == IF n <= Bits + 1 THEN n ELSE n - (Bits + 1)
SendsAt(n) ==
    /\ sensor.phase = "read"
    /\ IF Turn(n) = Bits + 1 THEN sensor.slot = "ack"
                             ELSE sensor.slot = "bits" /\ Len(sensor.left) = Bits - Turn(n)

\* It is as many clocks further on than the firmware as there were starts, at least.
Behind(n) == restarts > 0 /\ \E d \in 1..Bits : since < d /\ SendsAt(n + d)

\* It receives, in step with the firmware.  An address comes after a start only.
AddressCall == sensor.phase = "address" => call \in {3, 6}
Takes(n) == sensor.phase \in Receiving /\ sensor.slot = "bits" /\ Len(sensor.got) = n /\ AddressCall
Acks == sensor.phase \in Receiving /\ sensor.slot = "ack" /\ sensor.drive = 0 /\ AddressCall

\* Before the n-th clock of a byte, and while this clock is high.
Follows(n) ==
    \/ Gone \/ SendsAt(n) \/ Behind(n)
    \/ IF n <= Bits THEN Takes(n - 1) ELSE Acks
Risen(n) ==
    \/ Gone \/ Behind(n)
    \/ SendsAt(n) /\ (n = Bits + 1 => sensor.acked = (sda = 0))
    \/ IF n <= Bits THEN Takes(n) ELSE Acks
\* After the last.
Through(more) ==
    \/ Gone \/ Behind(1)
    \/ Takes(0) /\ sensor.phase # "address"
    \/ SendsAt(1) /\ more

\* Before the first start, and where a start or a stop is due.
Fresh == restarts > 0 /\ since = 0
Waits == Gone \/ Fresh \/ Behind(0)
Due == sensor.drive = 1 \/ Behind(1)
Begun == sensor.phase = "address" /\ sensor.slot = "bits" /\ sensor.got = <<>>

Pace ==
    /\ Unit \in {"none", "idle"} => Waits
    /\ Unit = "start" => LET ready == IF call = 2 THEN Waits ELSE Due
                         IN IF step < 4 THEN ready ELSE Begun \/ (sensor.drive = 0 /\ ready)
    /\ Unit = "wbit" => IF step < 3 THEN Follows(nth) ELSE Risen(nth)
    /\ Unit = "rbit" => IF step < 3 THEN Follows(nth) ELSE IF step < 5 THEN Risen(nth) ELSE Follows(nth + 1)
    /\ Unit = "wack" => /\ step < 3 => Follows(nth)
                        /\ step \in {3, 4} => Risen(nth)
                        /\ step = 4 /\ Acks => bit = 0
                        /\ step = 5 => Through(call \in {3, 6} /\ bit = 0)
    /\ Unit = "rack" => IF step < 3 THEN Follows(nth) ELSE IF step = 3 THEN Risen(nth) ELSE Through(Value = 0)
    /\ Unit = "stop" => Due

PaceInv == Tame(sensor) /\ since \in Nat /\ Pace
-----------------------------------------------------------------------------
(* What an edge does to a sensor out of step.                              *)
LEMMA AcceptPhase ==
    ASSUME NEW s, SensorOk(s), s.phase \in Receiving, s.slot = "ack", ~(s.phase = "address" /\ s.got[Bits] = Read)
    PROVE  Accept(s).phase \in {"pointer", "write"}
<1>1. s.got \in Bytes
    BY SeqIsByte DEF SensorOk, Sensors
<1>2. s.got[Bits] \in {Read, Write}
    BY <1>1, BitsFact DEF Bytes, Read, Write
<1> QED BY <1>2, AcceptIs DEF Receiving

LEMMA TameStays ==
    ASSUME NEW s, SensorOk(s), Tame(s), NEW level \in Binary, NEW willing \in BOOLEAN
    PROVE  Tame(OnRise(s, level)) /\ Tame(OnFall(s, willing)) /\ Tame(OnStart(s)) /\ Tame(OnStop(s))
<1>1. Tame(OnRise(s, level))
    BY RiseIs DEF Tame
<1>2. Tame(OnStart(s)) /\ Tame(OnStop(s))
    BY StartStop DEF Tame, Receiving
<1>s. s \in Sensors /\ s.left \in Seq(Binary) /\ Len(s.left) \in Nat
    BY DEF SensorOk, Sensors
<1>b. Tame(SendByte(s))
    <2>1. s.mem[s.ptr] \in Bytes
        BY <1>s DEF Sensors
    <2>2. Len(Tail(s.mem[s.ptr])) = Bits - 1
        BY <2>1, ByteIsSeq
    <2>3. SendByte(s).phase = "read" /\ SendByte(s).slot = "bits" /\ SendByte(s).left = Tail(s.mem[s.ptr])
        BY SendByteIs
    <2> QED BY <2>2, <2>3, BitsFact DEF Tame, Receiving
<1>9. Tame(OnFall(s, willing))
    <2>3. CASE s.phase \in Receiving /\ s.slot = "ack"
        <3>1. Tame(Accept(s))
            <4>1. CASE s.phase = "address" /\ s.got[Bits] = Read
                BY <1>b, <2>3, <4>1, AcceptIs
            <4>2. CASE ~(s.phase = "address" /\ s.got[Bits] = Read)
                BY <2>3, <4>2, AcceptPhase, AcceptIs DEF Tame, Receiving
            <4> QED BY <4>1, <4>2
        <3> QED BY <2>3, <3>1, FallIs
    <2>4. CASE s.phase = "read" /\ s.slot = "bits" /\ s.left # <<>>
        <3>1. OnFall(s, willing) = [s EXCEPT !.drive = Head(s.left), !.left = Tail(s.left)]
            BY <2>4, FallIs
        <3>2. Len(Tail(s.left)) = Len(s.left) - 1
            BY <1>s, <2>4, HeadTailProperties
        <3> QED BY <1>s, <2>4, <3>1, <3>2, BitsFact DEF Tame, Receiving, Sensors
    <2>5. CASE s.phase = "read" /\ s.slot = "bits" /\ s.left = <<>>
        <3>1. OnFall(s, willing) = [s EXCEPT !.slot = "ack", !.drive = 1]
            BY <2>5, FallIs
        <3> QED BY <1>s, <2>5, <3>1 DEF Tame, Receiving, Sensors
    <2>6. CASE s.phase = "read" /\ s.slot = "ack"
        BY <1>2, <1>b, <2>6, FallIs
    <2>7. CASE s.phase \in Receiving /\ s.slot = "bits" /\ Len(s.got) = Bits
        <3>1. Tame([s EXCEPT !.slot = "ack", !.drive = 0])
            BY <1>s, <2>7 DEF Tame, Receiving, Sensors
        <3> QED BY <1>2, <2>7, <3>1, FallIs
    <2>8. CASE s.phase = "idle" \/ (s.phase \in Receiving /\ s.slot = "bits" /\ Len(s.got) # Bits)
        BY <2>8, FallIs
    <2> QED BY <1>s, <2>3, <2>4, <2>5, <2>6, <2>7, <2>8 DEF Sensors, Receiving
<1> QED BY <1>1, <1>2, <1>9

\* While the sensor does not move, nor does its place.
LEMMA SamePlace ==
    ASSUME sensor' = sensor, restarts' = restarts
    PROVE  /\ Gone' = Gone /\ \A n \in Nat : SendsAt(n)' = SendsAt(n)
           /\ since' = since => \A n \in Nat : Behind(n)' = Behind(n)
BY DEF Gone, SendsAt, Behind

\* A rising edge moves it nowhere.
LEMMA RisePlace ==
    ASSUME PinInv, Tame(sensor), Rises, restarts' = restarts, since' = since
    PROVE  /\ Gone => Gone'
           /\ \A n \in Nat : (SendsAt(n) => SendsAt(n)') /\ (Behind(n) => Behind(n)')
           /\ sensor'.phase = sensor.phase /\ sensor'.slot = sensor.slot /\ sensor'.drive = sensor.drive
           /\ sensor.phase \in Receiving /\ sensor.slot = "bits" => Len(sensor'.got) = Len(sensor.got) + 1
           /\ sensor.phase = "read" /\ sensor.slot = "ack" => sensor'.acked = (sda = 0)
<1>1. SensorOk(sensor) /\ sda \in Binary /\ Level(sda, sensor) \in Binary
    BY LevelIs DEF PinInv, LinesOk
<1>2. sensor' = OnRise(sensor, Level(sda, sensor))
    BY DEF Rises
<1>3. /\ sensor'.phase = sensor.phase /\ sensor'.slot = sensor.slot /\ sensor'.drive = sensor.drive
      /\ sensor'.left = sensor.left
    BY <1>1, <1>2, RiseIs
<1>4. sensor.phase \in Receiving /\ sensor.slot = "bits" => Len(sensor'.got) = Len(sensor.got) + 1
    <2>1. sensor.got \in Seq(Binary)
        BY <1>1 DEF SensorOk, Sensors
    <2>2. Len(Append(sensor.got, Level(sda, sensor))) = Len(sensor.got) + 1
        BY <1>1, <2>1, AppendProperties
    <2> QED BY <1>1, <1>2, <2>2, RiseIs
<1>5. Gone => Gone' /\ \A n \in Nat : SendsAt(n) => SendsAt(n)'
    BY <1>3 DEF Gone, SendsAt
<1>6. \A n \in Nat : (SendsAt(n) => SendsAt(n)') /\ (Behind(n) => Behind(n)')
    BY <1>3 DEF SendsAt, Behind
<1>7. sensor.phase = "read" /\ sensor.slot = "ack" => sensor'.acked = (sda = 0)
    <2>1. sensor.phase = "read" /\ sensor.slot = "ack" => Level(sda, sensor) = sda
        BY <1>1, LevelIs DEF Tame
    <2> QED BY <1>1, <1>2, <2>1, RiseIs
<1> QED BY <1>3, <1>4, <1>5, <1>6, <1>7

\* A falling edge takes it to its next clock, or ends what it was doing.
LEMMA FallSends ==
    ASSUME PinInv, Tame(sensor), Falls, NEW m \in 1..2 * Bits + 1, SendsAt(m)
    PROVE  /\ Gone' \/ SendsAt(m + 1)'
           /\ Turn(m) = Bits + 1 => IF sensor.acked THEN SendsAt(m + 1)' ELSE Gone'
<1>s. /\ SensorOk(sensor) /\ sensor \in Sensors /\ sensor.left \in Seq(Binary) /\ Len(sensor.left) \in Nat
      /\ sensor.slot \in {"bits", "ack"} /\ sensor.phase = "read"
    BY DEF PinInv, SensorOk, Sensors, SendsAt
<1>b. Bits \in Nat /\ Bits >= 2 /\ m \in Nat /\ 1 <= m /\ m <= 2 * Bits + 1
    BY BitsFact
<1>t. /\ Turn(m) \in 1..Bits + 1
      /\ Turn(m) <= Bits => Turn(m + 1) = Turn(m) + 1
      /\ Turn(m) = Bits + 1 => Turn(m + 1) = 1
    BY <1>b DEF Turn
<1>f. PICK willing \in BOOLEAN : sensor' = OnFall(sensor, willing)
    BY DEF Falls
<1>1. CASE Turn(m) = Bits + 1
    <2>1. sensor.slot = "ack"
        BY <1>1 DEF SendsAt
    <2>2. sensor' = IF sensor.acked THEN SendByte(sensor) ELSE OnStop(sensor)
        BY <1>s, <1>f, <2>1, FallIs
    <2>3. CASE sensor.acked
        <3>1. sensor.mem[sensor.ptr] \in Bytes
            BY <1>s DEF Sensors
        <3>2. Len(Tail(sensor.mem[sensor.ptr])) = Bits - 1
            BY <3>1, ByteIsSeq
        <3>3. sensor'.phase = "read" /\ sensor'.slot = "bits" /\ Len(sensor'.left) = Bits - 1
            BY <1>s, <2>2, <2>3, <3>2, SendByteIs
        <3> QED BY <1>1, <1>b, <1>t, <2>3, <3>3 DEF SendsAt
    <2>4. CASE ~sensor.acked
        BY <1>s, <2>2, <2>4, StartStop DEF Gone
    <2> QED BY <2>3, <2>4
<1>2. CASE Turn(m) # Bits + 1
    <2>1. sensor.slot = "bits" /\ Len(sensor.left) = Bits - Turn(m)
        BY <1>2 DEF SendsAt
    <2>2. CASE Turn(m) = Bits
        <3>1. sensor.left = <<>>
            BY <1>s, <1>b, <2>1, <2>2, EmptySeq
        <3>2. sensor' = [sensor EXCEPT !.slot = "ack", !.drive = 1]
            BY <1>s, <1>f, <2>1, <3>1, FallIs
        <3>3. sensor'.phase = "read" /\ sensor'.slot = "ack"
            BY <1>s, <3>2 DEF Sensors
        <3>4. Turn(m + 1) = Bits + 1
            BY <1>t, <1>b, <2>2
        <3> QED BY <1>2, <3>3, <3>4 DEF SendsAt
    <2>3. CASE Turn(m) # Bits
        <3>1. sensor.left # <<>>
            BY <1>s, <1>b, <1>t, <1>2, <2>1, <2>3
        <3>2. sensor' = [sensor EXCEPT !.drive = Head(sensor.left), !.left = Tail(sensor.left)]
            BY <1>s, <1>f, <2>1, <3>1, FallIs
        <3>3. Len(Tail(sensor.left)) = Len(sensor.left) - 1
            BY <1>s, <3>1, HeadTailProperties
        <3>4. sensor'.phase = "read" /\ sensor'.slot = "bits" /\ Len(sensor'.left) = Bits - Turn(m) - 1
            BY <1>s, <2>1, <3>2, <3>3 DEF Sensors
        <3>5. Turn(m + 1) = Turn(m) + 1 /\ Turn(m + 1) # Bits + 1 /\ Turn(m) \in Nat
            BY <1>t, <1>b, <1>2, <2>3
        <3> QED BY <1>2, <1>b, <3>4, <3>5 DEF SendsAt
    <2> QED BY <2>2, <2>3
<1> QED BY <1>1, <1>2

\* What a sensor behind does at a falling edge.
LEMMA FallBehind ==
    ASSUME PinInv, Tame(sensor), Falls, NEW n \in 0..Bits + 1, Behind(n), restarts' = restarts, since' = since
    PROVE  Gone' \/ Behind(n + 1)'
<1>1. PICK d \in 1..Bits : since < d /\ SendsAt(n + d)
    BY DEF Behind
<1>2. n + d \in 1..2 * Bits + 1 /\ (n + d) + 1 = (n + 1) + d
    BY BitsFact
<1>3. Gone' \/ SendsAt((n + d) + 1)'
    BY <1>1, <1>2, FallSends
<1>4. Gone' \/ SendsAt((n + 1) + d)'
    BY <1>2, <1>3
<1> QED BY <1>1, <1>4 DEF Behind

\* What an idle, a receiving and an acknowledging sensor does.
LEMMA FallOthers ==
    ASSUME PinInv, Tame(sensor), Falls
    PROVE  /\ Gone => Gone'
           /\ sensor.phase \in Receiving /\ sensor.slot = "bits" /\ Len(sensor.got) # Bits => sensor' = sensor
           /\ sensor.phase \in Receiving /\ sensor.slot = "bits" /\ Len(sensor.got) = Bits =>
                 \/ Gone'
                 \/ sensor'.phase = sensor.phase /\ sensor'.slot = "ack" /\ sensor'.drive = 0
           /\ sensor.phase \in Receiving /\ sensor.slot = "ack" =>
                 \/ /\ sensor'.phase \in {"pointer", "write"} /\ sensor'.slot = "bits" /\ Len(sensor'.got) = 0
                 \/ sensor.phase = "address" /\ SendsAt(1)'
<1>s. SensorOk(sensor) /\ sensor \in Sensors
    BY DEF PinInv, SensorOk
<1>f. PICK willing \in BOOLEAN : sensor' = OnFall(sensor, willing)
    BY DEF Falls
<1>1. /\ Gone => Gone'
      /\ sensor.phase \in Receiving /\ sensor.slot = "bits" /\ Len(sensor.got) # Bits => sensor' = sensor
    BY <1>s, <1>f, FallIs DEF Gone
<1>2. ASSUME sensor.phase \in Receiving, sensor.slot = "bits", Len(sensor.got) = Bits
      PROVE  Gone' \/ (sensor'.phase = sensor.phase /\ sensor'.slot = "ack" /\ sensor'.drive = 0)
    <2>1. \/ sensor' = OnStop(sensor)
          \/ sensor' = [sensor EXCEPT !.slot = "ack", !.drive = 0]
        BY <1>s, <1>f, <1>2, FallIs
    <2>2. CASE sensor' = OnStop(sensor)
        BY <1>s, <2>2, StartStop DEF Gone
    <2>3. CASE sensor' = [sensor EXCEPT !.slot = "ack", !.drive = 0]
        BY <1>s, <2>3 DEF Sensors
    <2> QED BY <2>1, <2>2, <2>3
<1>3. ASSUME sensor.phase \in Receiving, sensor.slot = "ack"
      PROVE  \/ sensor'.phase \in {"pointer", "write"} /\ sensor'.slot = "bits" /\ Len(sensor'.got) = 0
             \/ sensor.phase = "address" /\ SendsAt(1)'
    <2>1. sensor' = Accept(sensor)
        BY <1>s, <1>f, <1>3, FallIs
    <2>2. CASE sensor.phase = "address" /\ sensor.got[Bits] = Read
        <3>1. sensor' = SendByte(sensor)
            BY <1>s, <1>3, <2>1, <2>2, AcceptIs
        <3>2. sensor.mem[sensor.ptr] \in Bytes
            BY <1>s DEF Sensors
        <3>3. Len(Tail(sensor.mem[sensor.ptr])) = Bits - 1
            BY <3>2, ByteIsSeq
        <3>4. sensor'.phase = "read" /\ sensor'.slot = "bits" /\ Len(sensor'.left) = Bits - 1
            BY <1>s, <3>1, <3>3, SendByteIs
        <3>5. Turn(1) = 1 /\ Turn(1) # Bits + 1
            BY BitsFact DEF Turn
        <3> QED BY <2>2, <3>4, <3>5 DEF SendsAt
    <2>3. CASE ~(sensor.phase = "address" /\ sensor.got[Bits] = Read)
        <3>1. sensor'.phase \in {"pointer", "write"}
            BY <1>s, <1>3, <2>1, <2>3, AcceptPhase
        <3>2. sensor'.slot = "bits" /\ sensor'.got = <<>>
            BY <1>s, <1>3, <2>1, <2>3, AcceptIs
        <3>3. Len(<<>>) = 0
            OBVIOUS
        <3> QED BY <3>1, <3>2, <3>3
    <2> QED BY <2>2, <2>3
<1> QED BY <1>1, <1>2, <1>3

\* A sensor behind that a signal does not reach is one clock further on at the next start.
LEMMA UnseenBehind ==
    ASSUME PinInv, Tame(sensor), since \in Nat, Behind(1), sensor.drive = 0
    PROVE  \E d \in 1..Bits : since + 1 < d /\ SendsAt(d)
<1>1. PICK d \in 1..Bits : since < d /\ SendsAt(1 + d)
    BY DEF Behind
<1>2. sensor.slot = "bits"
    <2>1. sensor.slot \in {"bits", "ack"}
        BY DEF PinInv, SensorOk, Sensors
    <2> QED BY <1>1, <2>1 DEF Tame, SendsAt
<1>3. d # Bits
    <2>1. ASSUME d = Bits
          PROVE  Turn(1 + d) = Bits + 1
        BY <2>1, BitsFact DEF Turn
    <2> QED BY <1>1, <1>2, <2>1 DEF SendsAt
<1>4. d + 1 \in 1..Bits /\ 1 + d = d + 1
    BY <1>3, BitsFact
<1>5. since + 1 < d + 1
    BY <1>1
<1> QED BY <1>1, <1>4, <1>5

\* So is one that the restart has left in the middle of a byte.
LEMMA UnseenFresh ==
    ASSUME PinInv, Tame(sensor), Fresh, sensor.drive = 0
    PROVE  (sensor.phase \in Receiving /\ sensor.slot = "ack") \/ Behind(0)
<1>s. /\ sensor \in Sensors /\ Len(sensor.left) \in Nat /\ sensor.phase # "idle"
    BY DEF PinInv, SensorOk, Sensors
<1>1. CASE sensor.phase \in Receiving
    BY <1>s, <1>1 DEF Tame, Sensors
<1>2. CASE sensor.phase = "read"
    <2>1. sensor.slot = "bits" /\ Len(sensor.left) < Bits
        BY <1>s, <1>2 DEF Tame, Sensors
    <2> DEFINE d == Bits - Len(sensor.left)
    <2>2. \A k \in Nat : k < Bits => /\ Bits - k \in 1..Bits /\ Bits - k <= Bits + 1 /\ Bits - k # Bits + 1
                                    /\ k = Bits - (Bits - k) /\ 0 + (Bits - k) = Bits - k
        BY BitsFact
    <2>4. d \in 1..Bits /\ Turn(d) = d /\ d # Bits + 1 /\ Len(sensor.left) = Bits - d /\ 0 + d = d
        BY <1>s, <2>1, <2>2 DEF Turn
    <2>3. SendsAt(0 + d)
        BY <1>2, <2>1, <2>4 DEF SendsAt
    <2> QED BY <2>3, <2>4 DEF Behind, Fresh
<1> QED BY <1>s, <1>1, <1>2 DEF Sensors, Receiving
-----------------------------------------------------------------------------
(* The firmware goes on, unit by unit.                                     *)
LEMMA SinceIs ==
    ASSUME PinInv, Run, since \in Nat
    PROVE  since' \in Nat /\ (call' # 0 => since' = since) /\ since' <= since + 1
<1>1. Advance \/ \E err : OnNack(err)
    BY DEF Run, MoveScl, MoveSda, Sample, Keep, Store, CheckAck
<1>2. CASE Advance
    <2>1. (\E c, n, s : Goto(c, n, s)) \/ Return(ret)
        BY <1>2 DEF Advance
    <2> QED BY <2>1 DEF Goto, Return
<1>3. CASE \E err : OnNack(err)
    BY <1>3 DEF OnNack
<1> QED BY <1>1, <1>2, <1>3

LEMMA TameStep ==
    ASSUME PinInv, Run, Tame(sensor)
    PROVE  Tame(sensor')
<1>s. SensorOk(sensor) /\ Level(sda, sensor) \in Binary
    BY LevelIs DEF PinInv, LinesOk
<1>1. CASE \E willing \in BOOLEAN : MoveScl(willing)
    <2>1. PICK willing \in BOOLEAN : MoveScl(willing)
        BY <1>1
    <2>2. sensor' \in {OnRise(sensor, Level(sda, sensor)), OnFall(sensor, willing), sensor}
        BY <2>1 DEF MoveScl
    <2>3. Tame(OnRise(sensor, Level(sda, sensor))) /\ Tame(OnFall(sensor, willing))
        BY <1>s, TameStays
    <2> QED BY <2>2, <2>3
<1>2. CASE MoveSda
    <2>1. TRUE \in BOOLEAN /\ Tame(OnStart(sensor)) /\ Tame(OnStop(sensor))
        BY <1>s, TameStays
    <2> QED BY <1>2, <2>1 DEF MoveSda
<1>3. CASE Sample \/ Keep \/ Store \/ CheckAck
    BY <1>3 DEF Sample, Keep, Store, CheckAck
<1> QED BY <1>1, <1>2, <1>3 DEF Run

\* What every step of a unit has in common.
LEMMA GoesOn ==
    ASSUME PinInv, PaceInv, Run
    PROVE  /\ PlaceOk /\ LinesOk /\ call # 0 /\ UNCHANGED <<request, restarts>>
           /\ step \in Nat /\ 1 <= step /\ step <= Long[Unit] /\ Bits \in Nat /\ Bits >= 2 /\ nth \in Nat
           /\ Tame(sensor) /\ Pace /\ since \in Nat /\ SensorOk(sensor)
           /\ (call' # 0 => since' = since) /\ since' \in Nat /\ since' <= since + 1
<1>1. PlaceOk /\ LinesOk /\ call # 0 /\ UNCHANGED <<request, restarts>> /\ SensorOk(sensor)
    BY OpIs DEF PinInv
<1>2. nth \in Nat
    BY <1>1, PlaceIs, BitsFact
<1>3. step \in Nat /\ 1 <= step /\ step <= Long[Unit]
    BY <1>1 DEF PlaceOk
<1> QED BY <1>1, <1>2, <1>3, SinceIs, BitsFact DEF PaceInv

LEMMA IdlePace ==
    ASSUME PinInv, PaceInv, Run, Unit = "idle"
    PROVE  Pace'
<1>1. Advance /\ sensor' = sensor /\ step \in {1, 2} /\ Long[Unit] = 2
    BY GoesOn, SignalIs DEF Quiet, Long
<1>2. Waits
    BY GoesOn DEF Pace
<1>3. /\ step' = (IF step = 1 THEN 2 ELSE 1) /\ Unit' = (IF step = 1 THEN "idle" ELSE "start")
      /\ call' = (IF step = 1 THEN call ELSE 2)
    BY <1>1, GoesOn, Moves
<1>4. restarts' = restarts /\ since' = since
    BY <1>3, GoesOn
<1>5. Waits'
    BY <1>1, <1>2, <1>4, SamePlace DEF Waits, Fresh
<1> QED BY <1>3, <1>5 DEF Pace

LEMMA StartPace ==
    ASSUME PinInv, PaceInv, Run, Unit = "start"
    PROVE  Pace'
<1> DEFINE ready == IF call = 2 THEN Waits ELSE Due
<1>g. /\ PlaceOk /\ call # 0 /\ UNCHANGED <<request, restarts>> /\ Tame(sensor) /\ SensorOk(sensor)
      /\ sensor.drive \in {0, 1} /\ since \in Nat
    BY GoesOn DEF SensorOk, Sensors, Binary
<1>1. Advance /\ step \in {1, 2, 3, 4} /\ Long[Unit] = 4
    BY GoesOn, SignalIs DEF Long
<1>2. step < 4 => step' = step + 1 /\ Unit' = "start" /\ call' = call
    BY <1>1, <1>g, Moves
<1>3. step = 4 => step' = 1 /\ Unit' = "wbit" /\ call' = call + 1 /\ nth' = 1
    BY <1>1, <1>g, Moves
<1>4. since' = since
    <2>1. call' # 0
        BY <1>1, <1>2, <1>3, <1>g DEF PlaceOk
    <2> QED BY <2>1, GoesOn
<1>5. IF step < 4 THEN ready ELSE Begun \/ (sensor.drive = 0 /\ ready)
    BY GoesOn DEF Pace
<1>6. CASE step = 1 \/ (step = 2 /\ call = 2)
    <2>1. sensor' = sensor
        BY <1>6, SignalIs DEF Quiet
    <2>2. ready'
        BY <1>2, <1>4, <1>5, <1>6, <1>g, <2>1, SamePlace DEF Waits, Fresh, Due
    <2> QED BY <1>2, <1>6, <2>2 DEF Pace
<1>7. CASE step = 2 /\ call # 2
    <2>1. Rises
        BY <1>7, SignalIs
    <2>2. Due
        BY <1>5, <1>7
    <2>3. Due'
        BY <1>4, <1>g, <2>1, <2>2, RisePlace DEF Due
    <2> QED BY <1>2, <1>7, <2>3 DEF Pace
<1>8. CASE step = 3
    <2>1. sensor' = IF sensor.drive = 1 THEN OnStart(sensor) ELSE sensor
        BY <1>8, SignalIs
    <2>2. CASE sensor.drive = 1
        <3>1. Begun'
            BY <1>g, <2>1, <2>2, StartStop DEF Begun
        <3> QED BY <1>2, <1>8, <3>1 DEF Pace
    <2>3. CASE sensor.drive = 0
        <3>1. sensor' = sensor
            BY <2>1, <2>3
        <3>2. ready'
            BY <1>2, <1>4, <1>5, <1>8, <1>g, <3>1, SamePlace DEF Waits, Fresh, Due
        <3> QED BY <1>2, <1>8, <2>3, <3>1, <3>2 DEF Pace
    <2> QED BY <1>g, <2>2, <2>3
<1>9. CASE step = 4
    <2>f. Falls
        BY <1>9, SignalIs
    <2>1. call' \in {3, 6} /\ Unit' = "wbit" /\ step' = 1 /\ nth' = 1 /\ 1 <= Bits
        BY <1>3, <1>9, <1>g, PlaceIs, BitsFact
    <2>2. Follows(1)' => Pace'
        BY <2>1 DEF Pace
    <2>3. CASE Begun
        <3>1. sensor' = sensor
            <4>1. Len(sensor.got) # Bits /\ sensor.phase \in Receiving /\ sensor.slot = "bits"
                BY <2>3, BitsFact DEF Begun, Receiving
            <4> QED BY <1>g, <2>f, <4>1, FallOthers
        <3>2. Takes(0)'
            <4>1. sensor.phase \in Receiving /\ Len(sensor.got) = 0
                BY <2>3 DEF Begun, Receiving
            <4> QED BY <2>1, <2>3, <3>1, <4>1 DEF Takes, Begun, AddressCall
        <3> QED BY <2>1, <2>2, <3>2 DEF Follows
    <2>4. ASSUME Behind(0)
          PROVE  Pace'
        <3>1. Gone' \/ Behind(0 + 1)'
            BY <1>4, <1>g, <2>f, <2>4, FallBehind, BitsFact
        <3>2. Gone' \/ Behind(1)'
            BY <3>1
        <3> QED BY <2>2, <3>2 DEF Follows
    <2>5. CASE sensor.drive = 0 /\ call = 2 /\ ~Begun
        <3>1. Gone \/ Fresh \/ Behind(0)
            BY <1>5, <1>9, <2>5 DEF Waits
        <3>2. ASSUME sensor.phase \in Receiving, sensor.slot = "ack"
              PROVE  Pace'
            <4>1. \/ sensor'.phase \in {"pointer", "write"} /\ sensor'.slot = "bits" /\ Len(sensor'.got) = 0
                  \/ SendsAt(1)'
                BY <1>g, <2>f, <3>2, FallOthers
            <4>2. Takes(0)' \/ SendsAt(1)'
                BY <4>1 DEF Takes, AddressCall, Receiving
            <4> QED BY <2>1, <2>2, <4>2 DEF Follows
        <3>3. ~Gone
            BY <1>g, <2>5 DEF Gone, SensorOk
        <3> QED BY <1>g, <2>4, <2>5, <3>1, <3>2, <3>3, UnseenFresh
    <2>6. CASE sensor.drive = 0 /\ call # 2 /\ ~Begun
        <3>1. Behind(1)
            BY <1>5, <1>9, <2>6 DEF Due
        <3>2. PICK d \in 1..Bits : since + 1 < d /\ SendsAt(d)
            BY <1>g, <2>6, <3>1, UnseenBehind
        <3>3. since < d /\ 0 + d = d
            BY <1>g, <3>2
        <3>4. Behind(0)
            BY <3>1, <3>2, <3>3 DEF Behind
        <3> QED BY <2>4, <3>4
    <2> QED BY <1>5, <1>9, <2>3, <2>5, <2>6
<1> QED BY <1>1, <1>6, <1>7, <1>8, <1>9

LEMMA StopPace ==
    ASSUME PinInv, PaceInv, Run, Unit = "stop"
    PROVE  Pace'
<1>g. /\ PlaceOk /\ call # 0 /\ UNCHANGED <<request, restarts>> /\ Tame(sensor) /\ SensorOk(sensor)
      /\ sensor.drive \in {0, 1} /\ since \in Nat
    BY GoesOn DEF SensorOk, Sensors, Binary
<1>1. Advance /\ step \in {1, 2, 3} /\ Long[Unit] = 3
    BY GoesOn, SignalIs DEF Long
<1>2. step < 3 => step' = step + 1 /\ Unit' = "stop" /\ call' = call
    BY <1>1, <1>g, Moves
<1>3. step = 3 => Unit' = "none"
    BY <1>1, <1>g, Moves
<1>4. Due /\ (step < 3 => since' = since)
    BY <1>2, <1>g, GoesOn DEF Pace
<1>5. CASE step = 1
    <2>1. sensor' = sensor
        BY <1>5, SignalIs DEF Quiet
    <2>2. Due'
        BY <1>4, <1>5, <1>g, <2>1, SamePlace DEF Due
    <2> QED BY <1>2, <1>5, <2>2 DEF Pace
<1>6. CASE step = 2
    <2>1. Rises
        BY <1>6, SignalIs
    <2>2. Due'
        BY <1>4, <1>6, <1>g, <2>1, RisePlace DEF Due
    <2> QED BY <1>2, <1>6, <2>2 DEF Pace
<1>7. CASE step = 3
    <2>1. sensor' = IF sensor.drive = 1 THEN OnStop(sensor) ELSE sensor
        BY <1>7, SignalIs
    <2>2. CASE sensor.drive = 1
        BY <1>3, <1>7, <1>g, <2>1, <2>2, StartStop DEF Pace, Waits, Gone
    <2>3. CASE sensor.drive = 0
        <3>1. sensor' = sensor /\ Behind(1)
            BY <1>4, <2>1, <2>3 DEF Due
        <3>2. PICK d \in 1..Bits : since + 1 < d /\ SendsAt(d)
            BY <1>g, <2>3, <3>1, UnseenBehind
        <3>3. since' < d /\ 0 + d = d /\ d \in Nat
            BY <1>g, <3>2, GoesOn
        <3>4. SendsAt(0 + d)'
            BY <3>1, <3>2, <3>3, <1>g, SamePlace
        <3>5. Behind(0)'
            BY <1>g, <3>1, <3>3, <3>4 DEF Behind
        <3> QED BY <1>3, <1>7, <3>5 DEF Pace, Waits
    <2> QED BY <1>g, <2>2, <2>3
<1> QED BY <1>1, <1>5, <1>6, <1>7
-----------------------------------------------------------------------------
(* The clocks of a byte.                                                   *)

\* The places repeat with every byte.
LEMMA Around ==
    /\ Turn(Bits + 1) = Bits + 1 /\ (SendsAt(Bits + 2) <=> SendsAt(1))
    /\ (Behind(Bits + 2) <=> Behind(1))
<1>b. Bits \in Nat /\ Bits >= 2
    BY BitsFact
<1>1. Turn(Bits + 1) = Bits + 1 /\ Turn(Bits + 2) = 1 /\ Turn(1) = 1
    BY <1>b DEF Turn
<1>2. \A d \in 1..Bits : Turn((Bits + 2) + d) = Turn(1 + d)
    BY <1>b DEF Turn
<1>3. SendsAt(Bits + 2) <=> SendsAt(1)
    BY <1>1 DEF SendsAt
<1>4. \A d \in 1..Bits : SendsAt((Bits + 2) + d) = SendsAt(1 + d)
    BY <1>2 DEF SendsAt
<1> QED BY <1>1, <1>3, <1>4 DEF Behind

LEMMA KeepsPace ==
    ASSUME sensor' = sensor, restarts' = restarts, since' = since, call' = call, NEW n \in Nat
    PROVE  Follows(n)' = Follows(n) /\ (sda' = sda => Risen(n)' = Risen(n))
<1>1. /\ Gone' = Gone /\ SendsAt(n)' = SendsAt(n) /\ Behind(n)' = Behind(n)
    BY SamePlace
<1> QED BY <1>1 DEF Follows, Risen, Takes, Acks, AddressCall

LEMMA RiseFollows ==
    ASSUME PinInv, Tame(sensor), Rises, restarts' = restarts, since' = since, call' = call,
           NEW n \in 1..Bits + 1, Follows(n)
    PROVE  Risen(n)'
<1>b. Bits \in Nat /\ Bits >= 2 /\ n \in Nat /\ 1 <= n /\ n <= Bits + 1 /\ n - 1 \in Nat
    BY BitsFact
<1>1. CASE Gone \/ Behind(n)
    BY <1>b, <1>1, RisePlace DEF Risen
<1>2. CASE SendsAt(n)
    <2>1. SendsAt(n)'
        BY <1>b, <1>2, RisePlace
    <2>2. ASSUME n = Bits + 1
          PROVE  (sensor.acked = (sda = 0))'
        <3>1. sensor.phase = "read" /\ sensor.slot = "ack"
            BY <1>2, <2>2, Around DEF SendsAt
        <3> QED BY <3>1, RisePlace DEF Rises
    <2> QED BY <2>1, <2>2 DEF Risen
<1>3. CASE n <= Bits /\ Takes(n - 1)
    <2>1. Len(sensor'.got) = n
        BY <1>b, <1>3, RisePlace DEF Takes
    <2>2. Takes(n)'
        BY <1>3, <2>1, RisePlace DEF Takes, AddressCall
    <2> QED BY <1>3, <2>2 DEF Risen
<1>4. CASE ~(n <= Bits) /\ Acks
    <2>1. Acks'
        BY <1>4, RisePlace DEF Acks, AddressCall
    <2> QED BY <1>4, <2>1 DEF Risen
<1> QED BY <1>1, <1>2, <1>3, <1>4 DEF Follows

LEMMA FallRisen ==
    ASSUME PinInv, Tame(sensor), Falls, restarts' = restarts, since' = since, call' = call,
           NEW n \in 1..Bits, Risen(n)
    PROVE  Follows(n + 1)'
<1>b. /\ Bits \in Nat /\ Bits >= 2 /\ n \in Nat /\ n <= Bits /\ n \in 1..2 * Bits + 1 /\ n \in 0..Bits + 1
      /\ n # Bits + 1 /\ (n + 1) - 1 = n
    BY BitsFact
<1>1. CASE Gone
    BY <1>1, FallOthers DEF Follows
<1>2. CASE Behind(n)
    BY <1>b, <1>2, FallBehind DEF Follows
<1>3. CASE SendsAt(n)
    BY <1>b, <1>3, FallSends DEF Follows
<1>4. CASE Takes(n) /\ n # Bits
    <2>1. sensor' = sensor
        BY <1>4, FallOthers DEF Takes
    <2>2. Takes((n + 1) - 1)' /\ n + 1 <= Bits
        BY <1>b, <1>4, <2>1 DEF Takes, AddressCall
    <2> QED BY <2>2 DEF Follows
<1>5. CASE Takes(n) /\ n = Bits
    <2>1. Gone' \/ (sensor'.phase = sensor.phase /\ sensor'.slot = "ack" /\ sensor'.drive = 0)
        BY <1>5, FallOthers DEF Takes
    <2>2. Gone' \/ Acks'
        BY <1>5, <2>1 DEF Takes, Acks, AddressCall
    <2>3. ~(n + 1 <= Bits)
        BY <1>b, <1>5
    <2> QED BY <2>2, <2>3 DEF Follows
<1> QED BY <1>b, <1>1, <1>2, <1>3, <1>4, <1>5 DEF Risen

\* The acknowledgement ends.
LEMMA FallAck ==
    ASSUME PinInv, Tame(sensor), Falls, restarts' = restarts, since' = since, Risen(Bits + 1)
    PROVE  \/ Gone' \/ Behind(1)'
           \/ Acks /\ (Takes(0) /\ sensor.phase # "address")'
           \/ Acks /\ sensor.phase = "address" /\ SendsAt(1)'
           \/ sda = 0 /\ SendsAt(1)'
<1>b. /\ Bits \in Nat /\ Bits >= 2 /\ Bits + 1 \in 1..2 * Bits + 1 /\ Bits + 1 \in 0..Bits + 1
      /\ (Bits + 1) + 1 = Bits + 2 /\ ~(Bits + 1 <= Bits)
    BY BitsFact
<1>a. (SendsAt(Bits + 2) <=> SendsAt(1))' /\ (Behind(Bits + 2) <=> Behind(1))'
    BY Around, PTL
<1>1. CASE Gone
    BY <1>1, FallOthers
<1>2. CASE Behind(Bits + 1)
    <2>1. Gone' \/ Behind((Bits + 1) + 1)'
        BY <1>b, <1>2, FallBehind
    <2> QED BY <1>a, <1>b, <2>1
<1>3. CASE SendsAt(Bits + 1) /\ sensor.acked = (sda = 0)
    <2>1. IF sensor.acked THEN SendsAt((Bits + 1) + 1)' ELSE Gone'
        BY <1>b, <1>3, Around, FallSends
    <2> QED BY <1>a, <1>b, <1>3, <2>1
<1>4. CASE Acks
    <2>1. \/ /\ sensor'.phase \in {"pointer", "write"} /\ sensor'.slot = "bits" /\ Len(sensor'.got) = 0
          \/ sensor.phase = "address" /\ SendsAt(1)'
        BY <1>4, FallOthers DEF Acks
    <2> QED BY <1>4, <2>1 DEF Takes, AddressCall, Receiving
<1> QED BY <1>b, <1>1, <1>2, <1>3, <1>4 DEF Risen
LEMMA WriteBitPace ==
    ASSUME PinInv, PaceInv, Run, Unit = "wbit"
    PROVE  Pace'
<1>g. /\ PlaceOk /\ call # 0 /\ UNCHANGED <<request, restarts>> /\ Tame(sensor) /\ nth \in 1..Bits
    BY GoesOn, PlaceIs
<1>1. Advance /\ step \in {1, 2, 3} /\ Long[Unit] = 3
    BY GoesOn, SentBitIs DEF Long
<1>2. step < 3 => step' = step + 1 /\ Unit' = "wbit" /\ call' = call /\ nth' = nth
    BY <1>1, <1>g, Moves
<1>3. step = 3 => step' = 1 /\ Unit' \in {"wbit", "wack"} /\ call' = call /\ nth' = nth + 1
    BY <1>1, <1>g, Moves
<1>4. since' = since /\ call' = call /\ (IF step < 3 THEN Follows(nth) ELSE Risen(nth))
    BY <1>1, <1>2, <1>3, <1>g, GoesOn DEF Pace
<1>n. PICK n \in 1..Bits : n = nth
    BY <1>g
<1>m. n \in 1..Bits + 1 /\ n \in Nat
    BY BitsFact
<1>5. CASE step = 1
    <2>1. sensor' = sensor
        BY <1>5, SentBitIs DEF Quiet
    <2>2. Follows(n)'
        BY <1>4, <1>5, <1>g, <1>n, <1>m, <2>1, KeepsPace
    <2>3. Follows(nth)'
        BY <1>2, <1>5, <1>n, <2>2
    <2> QED BY <1>2, <1>5, <2>3 DEF Pace
<1>6. CASE step = 2
    <2>1. Rises
        BY <1>6, SentBitIs
    <2>2. Risen(n)'
        BY <1>4, <1>6, <1>g, <1>n, <1>m, <2>1, RiseFollows
    <2>3. Risen(nth)'
        BY <1>2, <1>6, <1>n, <2>2
    <2> QED BY <1>2, <1>6, <2>3 DEF Pace
<1>7. CASE step = 3
    <2>1. Falls
        BY <1>7, SentBitIs
    <2>2. Follows(n + 1)'
        BY <1>4, <1>7, <1>g, <1>n, <2>1, FallRisen
    <2>3. Follows(nth)'
        BY <1>3, <1>7, <1>n, <2>2
    <2> QED BY <1>3, <1>7, <2>3 DEF Pace
<1> QED BY <1>1, <1>5, <1>6, <1>7

LEMMA ReadBitPace ==
    ASSUME PinInv, PaceInv, Run, Unit = "rbit"
    PROVE  Pace'
<1>g. /\ PlaceOk /\ call # 0 /\ UNCHANGED <<request, restarts>> /\ Tame(sensor) /\ nth \in 1..Bits
    BY GoesOn, PlaceIs
<1>1. Advance /\ step \in {1, 2, 3, 4, 5} /\ Long[Unit] = 5
    BY GoesOn, SampledBitIs DEF Long
<1>2. step < 5 => step' = step + 1 /\ Unit' = "rbit" /\ call' = call /\ nth' = nth
    BY <1>1, <1>g, Moves
<1>3. step = 5 => step' = 1 /\ Unit' \in {"rbit", "rack"} /\ call' = call /\ nth' = nth + 1
    BY <1>1, <1>g, Moves
<1>4. /\ since' = since /\ call' = call
      /\ IF step < 3 THEN Follows(nth) ELSE IF step < 5 THEN Risen(nth) ELSE Follows(nth + 1)
    BY <1>1, <1>2, <1>3, <1>g, GoesOn DEF Pace
<1>n. PICK n \in 1..Bits : n = nth
    BY <1>g
<1>m. n \in 1..Bits + 1 /\ n \in Nat /\ n + 1 \in Nat
    BY BitsFact
<1>5. CASE step = 1
    <2>1. sensor' = sensor
        BY <1>5, SampledBitIs DEF Quiet
    <2>2. Follows(n)'
        BY <1>4, <1>5, <1>g, <1>n, <1>m, <2>1, KeepsPace
    <2>3. Follows(nth)'
        BY <1>2, <1>5, <1>n, <2>2
    <2> QED BY <1>2, <1>5, <2>3 DEF Pace
<1>6. CASE step = 2
    <2>1. Rises
        BY <1>6, SampledBitIs
    <2>2. Risen(n)'
        BY <1>4, <1>6, <1>g, <1>n, <1>m, <2>1, RiseFollows
    <2>3. Risen(nth)'
        BY <1>2, <1>6, <1>n, <2>2
    <2> QED BY <1>2, <1>6, <2>3 DEF Pace
<1>7. CASE step = 3
    <2>1. sensor' = sensor /\ sda' = sda
        BY <1>7, SampledBitIs DEF Stays
    <2>2. Risen(n)'
        BY <1>4, <1>7, <1>g, <1>n, <1>m, <2>1, KeepsPace
    <2>3. Risen(nth)'
        BY <1>2, <1>7, <1>n, <2>2
    <2> QED BY <1>2, <1>7, <2>3 DEF Pace
<1>8. CASE step = 4
    <2>1. Falls
        BY <1>8, SampledBitIs
    <2>2. Follows(n + 1)'
        BY <1>4, <1>8, <1>g, <1>n, <2>1, FallRisen
    <2>3. Follows(nth + 1)'
        BY <1>2, <1>8, <1>n, <2>2
    <2> QED BY <1>2, <1>8, <2>3 DEF Pace
<1>9. CASE step = 5
    <2>1. sensor' = sensor
        BY <1>9, SampledBitIs DEF Stays
    <2>2. Follows(n + 1)'
        BY <1>4, <1>9, <1>g, <1>n, <1>m, <2>1, KeepsPace
    <2>3. Follows(nth)'
        BY <1>3, <1>9, <1>n, <2>2
    <2> QED BY <1>3, <1>9, <2>3 DEF Pace
<1> QED BY <1>1, <1>5, <1>6, <1>7, <1>8, <1>9

\* After a byte: the next one, a start or a stop.
LEMMA AfterByte ==
    ASSUME PinInv, PaceInv, Run, NEW more \in BOOLEAN, Through(more), call # 0,
           sensor' = sensor, since' = since, restarts' = restarts, step' = 1,
           \/ Unit' \in {"wbit", "rbit"} /\ nth' = 1
           \/ ~more /\ (Unit' = "stop" \/ (Unit' = "start" /\ call' # 2))
    PROVE  Pace'
<1>g. Tame(sensor) /\ SensorOk(sensor) /\ 1 <= Bits
    BY GoesOn, BitsFact
<1>s. (Gone <=> Gone') /\ (Behind(1) <=> Behind(1)') /\ (SendsAt(1) <=> SendsAt(1)')
    BY SamePlace
<1>1. CASE Unit' \in {"wbit", "rbit"} /\ nth' = 1
    <2>1. Gone' \/ Behind(1)' \/ SendsAt(1)' \/ Takes(0)'
        BY <1>s DEF Through, Takes, AddressCall
    <2>2. Follows(1)'
        BY <1>g, <2>1 DEF Follows
    <2>3. Follows(nth)'
        BY <1>1, <2>2
    <2> QED BY <1>1, <2>3 DEF Pace
<1>2. CASE ~more /\ (Unit' = "stop" \/ (Unit' = "start" /\ call' # 2))
    <2>1. Due
        BY <1>2, <1>g DEF Through, Takes, Due, Tame, SensorOk, Gone
    <2>2. Due'
        BY <1>s, <2>1 DEF Due
    <2> QED BY <1>2, <2>2 DEF Pace
<1> QED BY <1>1, <1>2

LEMMA WriteAckPace ==
    ASSUME PinInv, PaceInv, Run, Unit = "wack"
    PROVE  Pace'
<1>g. /\ PlaceOk /\ LinesOk /\ call # 0 /\ UNCHANGED <<request, restarts>> /\ Tame(sensor) /\ nth = Bits + 1
      /\ call \in {3, 4} \/ (call = 5 /\ request.kind = Write) \/ (call = 6 /\ request.kind = Read)
    BY GoesOn, PlaceIs
<1>m. Bits + 1 \in 1..Bits + 1 /\ Bits + 1 \in Nat
    BY BitsFact
<1>1. step \in {1, 2, 3, 4, 5} /\ Long[Unit] = 5 /\ (step < 5 => Advance)
    BY SampledBitIs DEF Long
<1>2. step < 5 => step' = step + 1 /\ Unit' = "wack" /\ call' = call /\ nth' = Bits + 1 /\ since' = since
    BY <1>1, <1>g, Moves, GoesOn
<1>4. /\ step < 3 => Follows(Bits + 1)
      /\ step \in {3, 4} => Risen(Bits + 1)
      /\ step = 4 /\ Acks => bit = 0
      /\ step = 5 => Through(call \in {3, 6} /\ bit = 0)
    BY <1>g, GoesOn DEF Pace
<1>5. CASE step = 1
    <2>1. sensor' = sensor
        BY <1>5, SampledBitIs DEF Quiet
    <2>2. Follows(Bits + 1)'
        BY <1>2, <1>4, <1>5, <1>g, <1>m, <2>1, KeepsPace
    <2>3. Follows(nth)'
        BY <1>2, <1>5, <2>2
    <2> QED BY <1>2, <1>5, <2>3 DEF Pace
<1>6. CASE step = 2
    <2>1. Rises
        BY <1>6, SampledBitIs
    <2>2. Risen(Bits + 1)'
        BY <1>2, <1>4, <1>6, <1>g, <1>m, <2>1, RiseFollows
    <2>3. Risen(nth)'
        BY <1>2, <1>6, <2>2
    <2> QED BY <1>2, <1>6, <2>3 DEF Pace
<1>7. CASE step = 3
    <2>1. sensor' = sensor /\ sda' = sda /\ bit' = sensor.drive
        BY <1>7, SampledBitIs DEF Stays
    <2>2. Risen(Bits + 1)'
        BY <1>2, <1>4, <1>7, <1>g, <1>m, <2>1, KeepsPace
    <2>3. Risen(nth)' /\ (Acks' => bit' = 0)
        BY <1>2, <1>7, <2>1, <2>2 DEF Acks
    <2> QED BY <1>2, <1>7, <2>3 DEF Pace
<1>8. CASE step = 4
    <2>1. Falls /\ bit' = bit /\ call' = call
        BY <1>2, <1>8, SampledBitIs DEF Falls
    <2>2. sda = 1
        BY <1>8, <1>g DEF LinesOk
    <2>3. \/ Gone' \/ Behind(1)'
          \/ Acks /\ (Takes(0) /\ sensor.phase # "address")'
          \/ Acks /\ sensor.phase = "address" /\ SendsAt(1)'
        BY <1>2, <1>4, <1>8, <1>g, <2>1, <2>2, FallAck
    <2>4. Acks => bit = 0 /\ (sensor.phase = "address" => call \in {3, 6})
        BY <1>4, <1>8 DEF Acks, AddressCall
    <2>5. Through(call \in {3, 6} /\ bit = 0)'
        BY <2>1, <2>3, <2>4 DEF Through
    <2> QED BY <1>2, <1>8, <2>5 DEF Pace
<1>9. CASE step = 5
    <2>1. sensor' = sensor /\ IF bit = 0 THEN Advance ELSE OnNack(Error)
        BY <1>9, SampledBitIs DEF Quiet
    <2>2. CASE bit = 0
        <3>1. Advance
            BY <2>1, <2>2
        <3>2. /\ step' = 1 /\ since' = since /\ call' = call + 1 /\ nth' = 1
              /\ call \in {3, 6} => Unit' \in {"wbit", "rbit"}
              /\ call = 4 => Unit' \in {"start", "wbit"}
              /\ call = 5 => Unit' = "stop"
            BY <1>9, <1>1, <1>g, <3>1, Moves
        <3>3. \/ Unit' \in {"wbit", "rbit"} /\ nth' = 1
              \/ ~(call \in {3, 6} /\ bit = 0) /\ (Unit' = "stop" \/ (Unit' = "start" /\ call' # 2))
            BY <1>g, <3>2
        <3> QED BY <1>4, <1>9, <1>g, <2>1, <3>2, <3>3, AfterByte
    <2>3. CASE bit # 0
        <3>1. OnNack(Error)
            BY <2>1, <2>3
        <3>2. Unit' = "stop" /\ step' = 1 /\ since' = since
            BY <1>g, <3>1, NackIs DEF OnNack
        <3>3. ~(call \in {3, 6} /\ bit = 0)
            BY <2>3
        <3> QED BY <1>4, <1>9, <1>g, <2>1, <3>2, <3>3, AfterByte
    <2> QED BY <2>2, <2>3
<1> QED BY <1>1, <1>5, <1>6, <1>7, <1>8, <1>9

LEMMA ReadAckPace ==
    ASSUME PinInv, PaceInv, Run, Unit = "rack"
    PROVE  Pace'
<1>g. /\ PlaceOk /\ LinesOk /\ call # 0 /\ UNCHANGED <<request, restarts>> /\ Tame(sensor) /\ nth = Bits + 1
      /\ 7 <= call /\ call \in Nat /\ Value = IF call = Last - 1 THEN 1 ELSE 0
    BY GoesOn, PlaceIs DEF PlaceOk, RequestOk, Requests, Last
<1>m. Bits + 1 \in 1..Bits + 1 /\ Bits + 1 \in Nat
    BY BitsFact
<1>1. Advance /\ step \in {1, 2, 3, 4} /\ Long[Unit] = 4
    BY GoesOn, SentBitIs DEF Long
<1>2. step < 4 => /\ step' = step + 1 /\ Unit' = "rack" /\ call' = call /\ nth' = Bits + 1 /\ since' = since
                  /\ Value' = Value
    BY <1>1, <1>g, Moves, GoesOn
<1>4. IF step < 3 THEN Follows(Bits + 1) ELSE IF step = 3 THEN Risen(Bits + 1) ELSE Through(Value = 0)
    BY <1>g, GoesOn DEF Pace
<1>5. CASE step = 1
    <2>1. sensor' = sensor
        BY <1>5, SentBitIs DEF Quiet
    <2>2. Follows(Bits + 1)'
        BY <1>2, <1>4, <1>5, <1>g, <1>m, <2>1, KeepsPace
    <2>3. Follows(nth)'
        BY <1>2, <1>5, <2>2
    <2> QED BY <1>2, <1>5, <2>3 DEF Pace
<1>6. CASE step = 2
    <2>1. Rises
        BY <1>6, SentBitIs
    <2>2. Risen(Bits + 1)'
        BY <1>2, <1>4, <1>6, <1>g, <1>m, <2>1, RiseFollows
    <2>3. Risen(nth)'
        BY <1>2, <1>6, <2>2
    <2> QED BY <1>2, <1>6, <2>3 DEF Pace
<1>7. CASE step = 3
    <2>1. Falls
        BY <1>7, SentBitIs
    <2>2. sda = Value
        BY <1>7, <1>g DEF LinesOk
    <2>3. \/ Gone' \/ Behind(1)'
          \/ Acks /\ (Takes(0) /\ sensor.phase # "address")'
          \/ Acks /\ sensor.phase = "address" /\ SendsAt(1)'
          \/ sda = 0 /\ SendsAt(1)'
        BY <1>2, <1>4, <1>7, <1>g, <2>1, FallAck
    <2>4. ~(Acks /\ sensor.phase = "address")
        BY <1>g DEF Acks, AddressCall
    <2>5. Through(Value = 0)'
        BY <1>2, <1>7, <2>2, <2>3, <2>4 DEF Through
    <2> QED BY <1>2, <1>7, <2>5 DEF Pace
<1>8. CASE step = 4
    <2>1. sensor' = sensor
        BY <1>8, SentBitIs DEF Stays
    <2>2. /\ step' = 1 /\ since' = since /\ nth' = 1
          /\ Unit' = IF call = Last - 1 THEN "stop" ELSE "rbit"
        BY <1>1, <1>8, <1>g, Moves
    <2>3. (Unit' \in {"wbit", "rbit"} /\ nth' = 1) \/ (~(Value = 0) /\ Unit' = "stop")
        BY <1>g, <2>2
    <2>4. Through(Value = 0) /\ (Value = 0) \in BOOLEAN
        BY <1>4, <1>8
    <2>5. UNCHANGED <<since, restarts>> /\ call # 0 /\ step' = 1
        BY <1>g, <2>2
    <2> QED BY <2>1, <2>3, <2>4, <2>5, AfterByte
<1> QED BY <1>1, <1>5, <1>6, <1>7, <1>8
-----------------------------------------------------------------------------
LEMMA RunPace ==
    ASSUME PinInv, PaceInv, Run
    PROVE  PaceInv'
<1>1. Unit \in {"idle", "start", "stop", "wbit", "wack", "rbit", "rack"}
    BY GoesOn, DoIs
<1>2. Pace'
    BY <1>1, IdlePace, StartPace, StopPace, WriteBitPace, WriteAckPace, ReadBitPace, ReadAckPace
<1>3. Tame(sensor)' /\ since' \in Nat
    BY GoesOn, TameStep DEF Tame
<1> QED BY <1>2, <1>3 DEF PaceInv

LEMMA BeginPace ==
    ASSUME Inv, PaceInv, NEW kind, NEW dev, NEW reg, NEW val, NEW len,
           Begin(kind, dev, reg, val, len), PlaceOk'
    PROVE  PaceInv'
<1>1. call = 0 /\ call' = 1 /\ UNCHANGED <<sensor, restarts, since>>
    BY DEF Begin
<1>2. Unit' = "idle"
    <2>1. (PlaceOk => (call = 1 <=> Unit = "idle"))'
        BY PlaceIs, PTL
    <2> QED BY <1>1, <2>1
<1>3. Waits
    BY <1>1 DEF PaceInv, Pace, Unit
<1>4. Waits'
    BY <1>1, <1>3, SamePlace DEF Waits, Fresh
<1> QED BY <1>1, <1>2, <1>4 DEF PaceInv, Pace, Tame

LEMMA RestartPace ==
    ASSUME Inv, PaceInv, Restart
    PROVE  PaceInv'
<1>1. SensorOk(sensor) /\ Tame(sensor) /\ sda \in Binary /\ restarts \in Nat
    BY DEF Inv, PinInv, LinesOk, PaceInv
<1>2. restarts' = restarts + 1 /\ since' = 0 /\ call' = 0
    BY DEF Restart
<1>3. Tame(sensor')
    <2>1. Level(sda, sensor) \in Binary
        BY <1>1, LevelIs
    <2> DEFINE up == IF scl = 0 THEN OnRise(sensor, Level(sda, sensor)) ELSE sensor
    <2>2. SensorOk(up) /\ Tame(up)
        BY <1>1, <2>1, RiseIs, TameStays
    <2>3. sensor' = OnStop(up) \/ sensor' = up
        BY DEF Restart
    <2> HIDE DEF up
    <2> QED BY <2>2, <2>3, TameStays DEF Binary
<1>4. Unit' = "none" /\ Fresh'
    BY <1>1, <1>2 DEF Unit, Fresh
<1> QED BY <1>2, <1>3, <1>4 DEF PaceInv, Pace, Waits, Tame

LEMMA InitPace == Init => PaceInv
<1> SUFFICES ASSUME Init PROVE PaceInv
    OBVIOUS
<1>1. sensor.phase = "idle" /\ sensor.drive = 1 /\ since = 0 /\ call = 0
    BY DEF Init
<1>2. Unit = "none"
    BY <1>1 DEF Unit
<1> QED BY <1>1, <1>2 DEF PaceInv, Pace, Waits, Gone, Tame, Receiving

LEMMA NextPace == Inv /\ PaceInv /\ [Next]_vars => PaceInv'
<1> SUFFICES ASSUME Inv, PaceInv, [Next]_vars PROVE PaceInv'
    OBVIOUS
<1>p. PlaceOk' /\ PinInv
    BY NextInv DEF Inv, PinInv
<1>1. CASE Run
    BY <1>1, <1>p, RunPace
<1>2. CASE Restart
    BY <1>2, RestartPace
<1>3. ASSUME NEW dev \in Addresses, NEW reg \in Registers, NEW len \in Lengths, BeginRead(dev, reg, len)
      PROVE  PaceInv'
    BY <1>p, <1>3, BeginPace DEF BeginRead
<1>4. ASSUME NEW dev \in Addresses, NEW reg \in Registers, NEW val \in Data, BeginWrite(dev, reg, val)
      PROVE  PaceInv'
    BY <1>p, <1>4, BeginPace DEF BeginWrite
<1>5. CASE UNCHANGED vars
    <2>1. UNCHANGED vars /\ Unit' = Unit /\ Value' = Value
        BY <1>5 DEF vars, Unit, Value, Calls
    <2>2. /\ \A n \in Nat : /\ (SendsAt(n) <=> SendsAt(n)') /\ (Behind(n) <=> Behind(n)')
                            /\ (Follows(n) <=> Follows(n)') /\ (Risen(n) <=> Risen(n)')
          /\ Gone' = Gone
        BY <2>1, SamePlace, KeepsPace DEF vars
    <2>3. nth \in Nat /\ nth + 1 \in Nat
        BY <1>p, PlaceIs, BitsFact DEF PinInv
    <2>4. UNCHANGED <<nth, step, call, bit, since, restarts, sensor>>
        BY <2>1 DEF vars
    <2>5. (Waits => Waits') /\ (Due => Due') /\ (Begun => Begun') /\ (Acks' => Acks)
        BY <2>2, <2>4 DEF Waits, Due, Begun, Acks, AddressCall, Fresh
    <2>6. /\ Through(call \in {3, 6} /\ bit = 0) => Through(call \in {3, 6} /\ bit = 0)'
          /\ Through(Value = 0) => Through(Value = 0)'
        BY <2>1, <2>2, <2>4 DEF Through, Takes, AddressCall
    <2>7. Pace'
        BY <2>1, <2>2, <2>3, <2>4, <2>5, <2>6 DEF PaceInv, Pace
    <2> QED BY <2>4, <2>7 DEF PaceInv, Tame
<1> QED BY <1>1, <1>2, <1>3, <1>4, <1>5 DEF Next, Run

(* Every way out of a transaction stops: with both lines released the      *)
(* sensor waits for a start, as long as the firmware has not restarted.    *)
(* After a restart, which leaves the sensor anywhere in a byte, the same   *)
(* holds again at the end of as many transactions as a byte has bits,      *)
(* whatever these transactions are and whatever the sensor sends.          *)
THEOREM BusIsReleased == Spec => []BusReleased
<1>1. Inv /\ PaceInv => BusReleased
    <2> SUFFICES ASSUME Inv, PaceInv, call = 0, restarts = 0 \/ since = Recovery
                 PROVE  scl = 1 /\ sda = 1 /\ Gone /\ sensor.drive = 1
        BY DEF BusReleased, Gone
    <2>1. Unit = "none" /\ Waits
        BY DEF Unit, PaceInv, Pace
    <2>2. scl = 1 /\ sda = 1 /\ (Gone => sensor.drive = 1)
        BY <2>1 DEF Inv, PinInv, LinesOk, SensorOk, Gone
    <2>3. ~Fresh /\ ~Behind(0)
        BY BitsFact DEF Fresh, Behind, Recovery, Inv, PinInv
    <2> QED BY <2>1, <2>2, <2>3 DEF Waits
<1>2. Init => Inv /\ PaceInv
    BY InitInv, InitPace
<1>3. Inv /\ PaceInv /\ [Next]_vars => Inv' /\ PaceInv'
    BY NextInv, NextPace
<1> QED BY <1>1, <1>2, <1>3, PTL DEF Spec
=============================================================================
