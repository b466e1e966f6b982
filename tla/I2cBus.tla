------------------------------- MODULE I2cBus -------------------------------
(***************************************************************************)
(* The bit-banged I2C of the bring-up firmware, pin by pin, against a      *)
(* sensor on the bus.  A transaction of the firmware is a sequence of      *)
(* calls, a call moves one bit after the other, and a bit takes a few      *)
(* pin operations; one step executes one of them, and the sensor           *)
(* (external) reacts to the edges it sees.  SDA is low when either side    *)
(* pulls it; SCL belongs to the firmware, which never waits for it.        *)
(* A byte has Bits bits, the first is sent first; an address byte is the   *)
(* address and the direction.  The firmware may restart at any pin         *)
(* operation, with the sensor in the middle of whatever it was doing.      *)
(***************************************************************************)
EXTENDS Integers, Sequences

CONSTANTS Bits,           \* bits in a byte
          Device,         \* the sensor's address
          Addresses,      \* the addresses the firmware tries
          Registers,      \* the first registers it asks for
          Lengths,        \* how many it reads
          Data,           \* the bytes it writes
          MaxRestarts     \* bound on restarts of the firmware

ASSUME I2cBusAssumption ==
    /\ Bits \in Nat \ {0, 1}
    /\ Device \in {0, 1} /\ Addresses \subseteq {0, 1}
    /\ Registers \subseteq 0..3
    /\ Data \subseteq [1..Bits -> {0, 1}]
    /\ Lengths \subseteq Nat \ {0}
    /\ MaxRestarts \in Nat

VARIABLES
    call,       \* the call of the transaction, 0 between transactions
    nth,        \* the bit of this call
    step,       \* the pin operation of this bit
    scl, sda,   \* 0 where the firmware pulls the line low
    bit,        \* the bit sampled last
    byte,       \* the bits of a byte read so far
    buf,        \* the bytes read so far
    request,    \* the transaction: kind, address, register, byte or length
    ret,        \* what it returns; 1 while it runs
    sensor,     \* the sensor
    restarts,
    since,      \* history: transactions ended since the last restart, up to Recovery
    in_sync     \* history: the sensor was idle when the transaction began

vars == <<call, nth, step, scl, sda, bit, byte, buf, request, ret, sensor, restarts, since, in_sync>>

Bytes == [1..Bits -> {0, 1}]
Read == 1
Write == 0
\* Registers and addresses are numbers below 4 and 2.
RegByte(n) == [i \in 1..Bits |-> IF i = Bits THEN n % 2 ELSE IF i = Bits - 1 THEN n \div 2 ELSE 0]
AddressByte(dev, rw) == RegByte(2 * dev + rw)
Number(v) == 2 * v[Bits - 1] + v[Bits]
\* Transactions after which a restart is forgotten.
Recovery == Bits
-----------------------------------------------------------------------------
(* The firmware, bb_*: the pin operations of a bit, the bits of a call and *)
(* the calls of a transaction.                                             *)
Op(k, v) == [k |-> k, v |-> v]
Scl(v) == Op("scl", v)
Sda(v) == Op("sda", v)

Idle == <<Sda(1), Scl(1)>>
Start == <<Sda(1), Scl(1), Sda(0), Scl(0)>>
Stop == <<Sda(0), Scl(1), Sda(1)>>
WriteBit(b) == <<Sda(b), Scl(1), Scl(0)>>
\* Mutant: SDA is not released before it is read.
ReadBitHeld == <<Scl(1), Op("sample", 0), Scl(0)>>

ReadBit == <<Sda(1), Scl(1), Op("sample", 0), Scl(0)>>

\* A byte, and its acknowledgement: without one the transaction stops and returns err.
WriteByte(v, err, n) == IF n <= Bits THEN WriteBit(v[n]) ELSE Append(ReadBit, Op("ack", err))

\* A byte into the buffer, and the bit that refuses or acknowledges it.
ReadByte(refuse, n) ==
    IF n <= Bits THEN Append(ReadBit, Op("keep", 0)) ELSE Append(WriteBit(refuse), Op("store", 0))

Call(do, v, err) == [do |-> do, v |-> v, err |-> err]
Sends(v, err) == Call("write", v, err)
Pins(c, n) ==
    CASE c.do = "idle" -> Idle
      [] c.do = "start" -> Start
      [] c.do = "stop" -> Stop
      [] c.do = "write" -> WriteByte(c.v, c.err, n)
      [] c.do = "read" -> ReadByte(c.v, n)
BitsOf(c) == IF c.do \in {"write", "read"} THEN Bits + 1 ELSE 1

\* bb_i2c_read_regs, which refuses the last byte; bb_i2c_read_reg is the case of one.
ReadRegs(dev, reg, len) ==
    <<Call("idle", 0, 0), Call("start", 0, 0), Sends(AddressByte(dev, Write), -1), Sends(RegByte(reg), -2),
      Call("start", 0, 0), Sends(AddressByte(dev, Read), -3)>>
    \o [i \in 1..len |-> Call("read", IF i = len THEN 1 ELSE 0, 0)] \o <<Call("stop", 0, 0)>>

\* bb_i2c_write_reg.
WriteReg(dev, reg, val) ==
    <<Call("idle", 0, 0), Call("start", 0, 0), Sends(AddressByte(dev, Write), -1), Sends(RegByte(reg), -2),
      Sends(val, -3), Call("stop", 0, 0)>>

Calls ==
    IF request.kind = Read THEN ReadRegs(request.dev, request.reg, request.len)
                           ELSE WriteReg(request.dev, request.reg, request.val)
-----------------------------------------------------------------------------
(* The sensor.  It samples SDA when SCL rises and changes what it drives   *)
(* when SCL falls.                                                         *)
NextReg(r) == (r + 1) % 4

Sleeping == [phase |-> "idle", slot |-> "bits", got |-> <<>>, left |-> <<>>, drive |-> 1, acked |-> FALSE]
WithBus(s, b) == [s EXCEPT !.phase = b.phase, !.slot = b.slot, !.got = b.got, !.left = b.left,
                           !.drive = b.drive, !.acked = b.acked]

OnStart(s) == WithBus(s, [Sleeping EXCEPT !.phase = "address"])
OnStop(s) == WithBus(s, Sleeping)

OnRise(s, level) ==
    CASE s.phase \in {"address", "pointer", "write"} /\ s.slot = "bits" -> [s EXCEPT !.got = Append(@, level)]
      [] s.phase = "read" /\ s.slot = "ack" -> [s EXCEPT !.acked = (level = 0)]
      [] OTHER -> s

\* Drive the first bit of the register it points at.
SendByte(s) ==
    [s EXCEPT !.phase = "read", !.slot = "bits", !.got = <<>>, !.acked = FALSE,
              !.drive = Head(s.mem[s.ptr]), !.left = Tail(s.mem[s.ptr]), !.ptr = NextReg(@)]

\* What it makes of a byte it has acknowledged.
NextByte(s, phase, ptr) == [s EXCEPT !.phase = phase, !.slot = "bits", !.got = <<>>, !.drive = 1, !.ptr = ptr]
Stored(s) == [s EXCEPT !.mem = [@ EXCEPT ![s.ptr] = s.got]]
Accept(s) ==
    CASE s.phase = "address" /\ s.got[Bits] = Read -> SendByte(s)
      [] s.phase = "address" /\ s.got[Bits] = Write -> NextByte(s, "pointer", s.ptr)
      [] s.phase = "pointer" -> NextByte(s, "write", Number(s.got))
      [] s.phase = "write" -> NextByte(Stored(s), "write", NextReg(s.ptr))

\* It may refuse a byte, and ignores other addresses.
OnFall(s, willing) ==
    CASE s.phase \in {"address", "pointer", "write"} /\ s.slot = "bits" /\ Len(s.got) = Bits ->
            IF willing /\ (s.phase = "address" => Number(s.got) \div 2 = Device)
            THEN [s EXCEPT !.slot = "ack", !.drive = 0]
            ELSE OnStop(s)
      [] s.phase \in {"address", "pointer", "write"} /\ s.slot = "ack" -> Accept(s)
      [] s.phase = "read" /\ s.slot = "bits" /\ s.left # <<>> ->
            [s EXCEPT !.drive = Head(s.left), !.left = Tail(s.left)]
      [] s.phase = "read" /\ s.slot = "bits" /\ s.left = <<>> -> [s EXCEPT !.slot = "ack", !.drive = 1]
      [] s.phase = "read" /\ s.slot = "ack" -> IF s.acked THEN SendByte(s) ELSE OnStop(s)
      [] OTHER -> s

Level(m, s) == IF m = 0 \/ s.drive = 0 THEN 0 ELSE 1
-----------------------------------------------------------------------------
Init ==
    /\ call = 0 /\ nth = 1 /\ step = 1 /\ scl = 1 /\ sda = 1 /\ bit = 1 /\ byte = <<>> /\ buf = <<>>
    /\ request = [kind |-> Read, dev |-> Device, reg |-> 0, val |-> RegByte(0), len |-> 0]
    /\ ret = 0
    /\ sensor \in {[phase |-> "idle", slot |-> "bits", got |-> <<>>, left |-> <<>>, drive |-> 1,
                    acked |-> FALSE, ptr |-> 0, mem |-> m] : m \in {[r \in 0..3 |-> RegByte(0)],
                                                                    [r \in 0..3 |-> RegByte(r)]}}
    /\ restarts = 0 /\ since = 0 /\ in_sync = TRUE

\* A transaction begins with its first call.
Begin(kind, dev, reg, val, len) ==
    /\ call = 0
    /\ call' = 1 /\ nth' = 1 /\ step' = 1
    /\ request' = [kind |-> kind, dev |-> dev, reg |-> reg, val |-> val, len |-> len]
    /\ ret' = 1 /\ byte' = <<>> /\ buf' = <<>>
    /\ in_sync' = (sensor.phase = "idle")
    /\ UNCHANGED <<scl, sda, bit, sensor, restarts, since>>

BeginRead(dev, reg, len) == Begin(Read, dev, reg, RegByte(0), len)
BeginWrite(dev, reg, val) == Begin(Write, dev, reg, val, 0)

Doing(k) == call # 0 /\ Pins(Calls[call], nth)[step].k = k
Arg == Pins(Calls[call], nth)[step].v

\* The transaction returns, 0 if it met no error.
Return(r) ==
    /\ call' = 0 /\ nth' = 1 /\ step' = 1
    /\ ret' = IF r = 1 THEN 0 ELSE r
    /\ since' = IF restarts > 0 /\ since < Recovery THEN since + 1 ELSE since

\* The operation is done: on to the next one of the bit, to the next bit of the call,
\* to the next call.
Goto(c, n, s) == call' = c /\ nth' = n /\ step' = s /\ UNCHANGED <<ret, since>>
Advance ==
    LET c == Calls[call]
    IN CASE step < Len(Pins(c, nth)) -> Goto(call, nth, step + 1)
         [] step = Len(Pins(c, nth)) /\ nth < BitsOf(c) -> Goto(call, nth + 1, 1)
         [] step = Len(Pins(c, nth)) /\ nth = BitsOf(c) /\ call < Len(Calls) -> Goto(call + 1, 1, 1)
         [] OTHER -> Return(ret)

\* SCL goes up or down.
MoveScl(willing) ==
    /\ Doing("scl")
    /\ scl' = Arg
    /\ sensor' = CASE scl = 0 /\ scl' = 1 -> OnRise(sensor, Level(sda, sensor))
                   [] scl = 1 /\ scl' = 0 -> OnFall(sensor, willing)
                   [] OTHER -> sensor
    /\ Advance
    /\ UNCHANGED <<sda, bit, byte, buf, request, restarts, in_sync>>

\* SDA changes; while SCL is high the sensor takes it for a start or a stop.
MoveSda ==
    /\ Doing("sda")
    /\ sda' = Arg
    /\ LET before == Level(sda, sensor)
           after == Level(sda', sensor)
       IN sensor' = CASE scl = 1 /\ before = 1 /\ after = 0 -> OnStart(sensor)
                      [] scl = 1 /\ before = 0 /\ after = 1 -> OnStop(sensor)
                      [] OTHER -> sensor
    /\ Advance
    /\ UNCHANGED <<scl, bit, byte, buf, request, restarts, in_sync>>

Sample ==
    /\ Doing("sample")
    /\ bit' = Level(sda, sensor)
    /\ Advance
    /\ UNCHANGED <<scl, sda, byte, buf, request, sensor, restarts, in_sync>>

Keep ==
    /\ Doing("keep")
    /\ byte' = Append(byte, bit)
    /\ Advance
    /\ UNCHANGED <<scl, sda, bit, buf, request, sensor, restarts, in_sync>>

Store ==
    /\ Doing("store")
    /\ buf' = Append(buf, byte) /\ byte' = <<>>
    /\ Advance
    /\ UNCHANGED <<scl, sda, bit, request, sensor, restarts, in_sync>>

\* Mutant: the error returns leave the bus as it is.
OnNackNoStop(err) == Return(err)

\* No acknowledgement: stop, which is the last call of all, and return the error.
OnNack(err) == call' = Len(Calls) /\ nth' = 1 /\ step' = 1 /\ ret' = err /\ UNCHANGED since

CheckAck ==
    /\ Doing("ack")
    /\ IF bit = 0 THEN Advance ELSE OnNack(Arg)
    /\ UNCHANGED <<scl, sda, bit, byte, buf, request, sensor, restarts, in_sync>>

\* The firmware restarts: its pins are inputs again, the sensor notices the levels only.
Restart ==
    /\ restarts < MaxRestarts
    /\ call # 0
    /\ restarts' = restarts + 1
    /\ since' = 0
    /\ call' = 0 /\ nth' = 1 /\ step' = 1 /\ ret' = -10
    /\ scl' = 1 /\ sda' = 1 /\ bit' = 1 /\ byte' = <<>> /\ buf' = <<>>
    /\ sensor' = LET up == IF scl = 0 THEN OnRise(sensor, Level(sda, sensor)) ELSE sensor
                 IN IF Level(sda, up) = 0 /\ Level(1, up) = 1 THEN OnStop(up) ELSE up
    /\ UNCHANGED <<request, in_sync>>

Next ==
    \/ \E dev \in Addresses, reg \in Registers :
          \/ \E len \in Lengths : BeginRead(dev, reg, len)
          \/ \E val \in Data : BeginWrite(dev, reg, val)
    \/ \E willing \in BOOLEAN : MoveScl(willing)
    \/ MoveSda \/ Sample \/ Keep \/ Store \/ CheckAck
    \/ Restart

Spec == Init /\ [][Next]_vars
-----------------------------------------------------------------------------
(* Whatever a transaction met, a refused byte at any point included, it    *)
(* ends with both lines released and the sensor back to waiting for a      *)
(* start.  After a restart in the middle of a transaction, which the       *)
(* sensor cannot notice and bb_i2c_idle does not repair, the same holds    *)
(* again after Recovery transactions.                                      *)
BusReleased ==
    call = 0 /\ (restarts = 0 \/ since = Recovery)
        => scl = 1 /\ sda = 1 /\ sensor.phase = "idle" /\ sensor.drive = 1

(* A transaction that began with an idle sensor and returns 0 has moved    *)
(* the bytes it was asked to: they are in the sensor's registers, or the   *)
(* sensor's registers are in the buffer, all of them and in order.         *)
Asked == [i \in 1..request.len |-> sensor.mem[(request.reg + i - 1) % 4]]
TransferGenuine ==
    call = 0 /\ ret = 0 /\ in_sync
        => IF request.kind = Write THEN sensor.mem[request.reg] = request.val ELSE buf = Asked
=============================================================================
