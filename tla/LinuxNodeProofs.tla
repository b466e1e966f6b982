--------------------------- MODULE LinuxNodeProofs ---------------------------
(***************************************************************************)
(* Theorems about the Linux process against the command path of the        *)
(* bring-up firmware, for every mailbox and queue size, range of config    *)
(* values, set of inputs and environments, timeout and loop period.        *)
(***************************************************************************)
EXTENDS LinuxNode, SequenceTheorems, TLAPS

Messages == {Free} \cup ({"rt", "linux"} \X Cmds)

\* The parts of TypeOK: the shared memory, the mailbox, the firmware's task,
\* the run of the Linux process, and its clocks.
SharedType ==
    /\ shared_backend \in {"Fallback", "Ion", "DevMem", "Shm"} /\ fallback_mode \in BOOLEAN
    /\ emergency \in [seq: Nat, reason: 0..1]
    /\ config \in [seq: Nat, update_seq: Nat, value: Values \cup {0}]

MailType ==
    /\ mailbox \in [Slots -> Messages]
    /\ queue \in Seq(Cmds) /\ Len(queue) <= QueueLength

TaskType ==
    /\ rt \in {"idle", "poll", "reason", "config", "update", "value", "serve"}
    /\ cmd \in Cmds \cup {NoCmd}
    /\ seq \in Nat /\ last_emergency_seq \in Nat
    /\ shm_ready \in BOOLEAN /\ latched \in BOOLEAN
    /\ last_config \in Nat \X Nat /\ applied \in Values \cup {0}

SendType ==
    /\ linux \in DOMAIN After \cup {"start", "announce", "cycle", "failed"}
    /\ op \in Cmds \cup {NoCmd} /\ stage \in {"none", "store", "ring", "wait"}
    /\ todo \subseteq Words(op)
    /\ wait_left \in Nat
    /\ candidate \in [value: Values \cup {0}, update_seq: Nat]
    /\ active_config \in [value: Values, update_seq: Nat]
    /\ config_sent \in BOOLEAN /\ clean \in BOOLEAN
    /\ ini_cache \in Texts /\ inputs \in Nat

RcType ==
    /\ rc_seen \in BOOLEAN /\ failsafe_sent \in BOOLEAN /\ rc_late \in BOOLEAN
    /\ stop_owed \in BOOLEAN /\ losses \in Nat
    /\ rc_age \in 0..MaxAge(stop_owed)
    /\ sleep_left \in Int /\ sleep_left <= Period

\* The parts make up TypeOK.
LEMMA TypeParts == TypeOK <=> SharedType /\ MailType /\ TaskType /\ SendType /\ RcType
BY DEF TypeOK, SharedType, MailType, TaskType, SendType, RcType, Messages
-----------------------------------------------------------------------------
\* What the constants give the proofs.
LEMMA ConstantTypes ==
    /\ AckTimeout \in [Cmds -> Nat] /\ AckTimeout["config"] \in Nat
    /\ Period \in Nat \ {0} /\ RcTimeout \in Nat /\ MaxValue \in Nat \ {0}
    /\ StopDelay \in Nat
    /\ \A owed \in BOOLEAN : MaxAge(owed) \in Nat /\ MaxAge(owed) > RcTimeout
<1>1. AckTimeout \in [Cmds -> Nat] /\ AckTimeout["config"] \in Nat /\ Period \in Nat \ {0}
      /\ RcTimeout \in Nat /\ MaxValue \in Nat \ {0}
    BY LinuxNodeAssumption DEF Cmds
<1>2. StopDelay \in Nat /\ StopDelay >= RcTimeout
    BY <1>1 DEF StopDelay
<1> QED BY <1>1, <1>2 DEF MaxAge

\* A clamped value is a config value.
LEMMA ClampType ==
    ASSUME NEW v \in Nat
    PROVE  Clamp(v) \in Values
BY LinuxNodeAssumption DEF Clamp

\* The words of a slot.
LEMMA WordsOf ==
    /\ Words("config") = {"value", "update_seq"} /\ Words("emergency") = {"reason"}
    /\ Words("init") = {} /\ Words("arm") = {} /\ Words(NoCmd) = {}
BY DEF Words, NoCmd

\* A message in a mailbox slot names its receiver and a command.
LEMMA MessageType ==
    ASSUME MailType, NEW i \in Slots, mailbox[i][1] \in {"rt", "linux"}
    PROVE  mailbox[i][2] \in Cmds /\ mailbox[i] = Message(mailbox[i][1], mailbox[i][2])
<1>1. mailbox[i] \in Messages
    BY DEF MailType
<1>2. mailbox[i] # Free
    BY DEF Free
<1> QED BY <1>1, <1>2 DEF Messages, Message
-----------------------------------------------------------------------------
\* Where Linux is tells what it sends, and how far the sending is.
SendInv ==
    /\ stage = "none" <=> op = NoCmd
    /\ stage = "store" => op \in {"config", "emergency"}
    /\ stage # "store" => todo = {}
    /\ op = "init" <=> linux = "announce"
    /\ op = "config" => linux \in {"boot", "cli", "ini"} /\ candidate.value \in Values
    /\ op = "emergency" => linux = "stop"
    /\ op = "arm" => linux = "arm"
    /\ linux = "start" => shared_backend = "Fallback" /\ ~config_sent /\ ~failsafe_sent
    /\ rt = "serve" => cmd # NoCmd
    /\ ~fallback_mode => shared_backend # "Shm"

\* What the local steps of run() leave alone.
LEMMA LocalEffect ==
    ASSUME LoopNext
    PROVE  /\ op = NoCmd /\ linux \in DOMAIN After \cup {"start", "cycle"}
           /\ UNCHANGED <<regionVars, mailbox, queue, rtVars, active_config, config_sent, clean>>
           /\ linux # "start" => UNCHANGED <<shared_backend, fallback_mode>>
BY DEF LoopNext, Open, Boot, BeginCycle, CliNothing, CliSet, IniNothing, LoadIni, CheckRc,
       SendFailsafe, At, otherVars, cmdquVars, configVars, After

\* Starting to send: what the slot's words demand.
LEMMA SendEffect ==
    ASSUME NEW c \in Cmds, Send(c)
    PROVE  /\ op' = c /\ todo' = Words(c) /\ wait_left' = wait_left
           /\ stage' = IF c \in {"config", "emergency"} THEN "store" ELSE "ring"
BY WordsOf DEF Send, Cmds

\* pushConfig: nothing to do, or a clamped candidate with the next number.
LEMMA PushEffect ==
    ASSUME TypeOK, SendInv, op = NoCmd, NEW v \in Nat, PushConfig(v),
           linux \in {"boot", "cli", "ini"}
    PROVE  \/ linux' = After[linux] /\ UNCHANGED sendVars
           \/ /\ linux' = linux /\ op' = "config" /\ stage' = "store"
              /\ todo' = Words("config") /\ wait_left' = wait_left
              /\ candidate' \in [value: Values, update_seq: Nat]
              /\ candidate'.update_seq =
                    active_config.update_seq + (IF config_sent THEN 1 ELSE 0)
<1>1. CASE Clamp(v) = active_config.value /\ config_sent
    BY <1>1 DEF PushConfig
<1>2. CASE ~(Clamp(v) = active_config.value /\ config_sent)
    <2>1. /\ Send("config") /\ UNCHANGED linux
          /\ candidate' = [value |-> Clamp(v),
                           update_seq |-> active_config.update_seq + (IF config_sent THEN 1 ELSE 0)]
        BY <1>2 DEF PushConfig
    <2>2. op' = "config" /\ stage' = "store" /\ todo' = Words("config") /\ wait_left' = wait_left
        BY <2>1, SendEffect DEF Cmds
    <2>3. active_config.update_seq \in Nat /\ config_sent \in BOOLEAN
        BY DEF TypeOK
    <2>4. active_config.update_seq + (IF config_sent THEN 1 ELSE 0) \in Nat
        BY <2>3
    <2>5. candidate' \in [value: Values, update_seq: Nat]
        BY <2>1, <2>4, ClampType
    <2>6. candidate'.update_seq = active_config.update_seq + (IF config_sent THEN 1 ELSE 0)
        BY <2>1
    <2> QED BY <2>1, <2>2, <2>5, <2>6
<1> QED BY <1>1, <1>2

\* What the answer, the failure or the timeout of a command changes.
LEMMA ReturnEffect ==
    ASSUME TypeOK, SendInv, op # NoCmd, stage # "store", NEW ok \in BOOLEAN, Return(ok)
    PROVE  /\ op' = NoCmd /\ stage' = "none" /\ todo' = {} /\ candidate' = NoConfig /\ wait_left' = 0
           /\ linux' = IF op = "init" THEN IF ok THEN "boot" ELSE "failed" ELSE After[linux]
           /\ op # "init" => linux \in DOMAIN After
           /\ clean' = (clean /\ ok)
           /\ failsafe_sent' = (failsafe_sent \/ op = "arm")
           /\ shared_backend' = IF op = "init" /\ ~ok THEN "Fallback" ELSE shared_backend
           /\ UNCHANGED <<fallback_mode, ini_cache, inputs, rc_seen, rc_late, losses, stop_owed>>
           /\ active_config' = IF op = "config" /\ ok THEN candidate ELSE active_config
           /\ config_sent' = (config_sent \/ (op = "config" /\ ok))
<1>1. op # "init" => linux \in DOMAIN After
    BY DEF SendInv, TypeOK, Cmds, After
<1> QED BY <1>1 DEF Return, SendInv, TypeOK, iniVars, configVars

\* The steps that end a command.
Returns ==
    /\ op # NoCmd /\ stage \in {"ring", "wait"} /\ todo = {}
    /\ UNCHANGED <<regionVars, queue, rtVars, clockVars>>
    /\ \/ Return(FALSE) /\ UNCHANGED mailbox
       \/ Return(TRUE) /\ UNCHANGED mailbox /\ stage = "ring" /\ fallback_mode
       \/ /\ Return(TRUE) /\ stage = "wait"
          /\ \E i \in Slots : mailbox[i] = Message("linux", op) /\ mailbox' = [mailbox EXCEPT ![i] = Free]

\* An answer that nobody waits for.
Discards ==
    /\ \E i \in Slots : /\ mailbox[i][1] = "linux"
                        /\ ~(stage = "wait" /\ op = mailbox[i][2])
                        /\ mailbox' = [mailbox EXCEPT ![i] = Free]
    /\ UNCHANGED <<regionVars, queue, rtVars, shared_backend, linuxVars, clockVars>>

\* Every step of the system is one of these.
LEMMA Steps ==
    ASSUME TypeOK, SendInv, [Next]_vars
    PROVE  \/ LoopNext
           \/ \E w \in {"value", "update_seq", "reason"} : StoreWord(w)
           \/ StoreSeq
           \/ \E i \in Slots : Ring(i)
           \/ Returns
           \/ Discards
           \/ TaskNext /\ UNCHANGED <<linuxVars, clockVars>>
           \/ (\E i \in Slots : Isr(i)) /\ UNCHANGED <<linuxVars, clockVars>>
           \/ Tick
           \/ UNCHANGED vars
<1>m. MailType
    BY TypeParts
<1>1. RingNothing \/ RingFails \/ WaitTimesOut => Returns
    BY DEF RingNothing, RingFails, WaitTimesOut, Returns, SendInv
<1>2. ASSUME NEW i \in Slots, DriverIsr(i) PROVE Returns \/ Discards
    <2>1. mailbox[i] = Message("linux", mailbox[i][2])
        BY <1>2, <1>m, MessageType DEF DriverIsr
    <2>2. CASE stage = "wait" /\ op = mailbox[i][2]
        BY <1>2, <2>1, <2>2 DEF DriverIsr, Returns, SendInv
    <2>3. CASE ~(stage = "wait" /\ op = mailbox[i][2])
        BY <1>2, <2>3 DEF DriverIsr, Discards
    <2> QED BY <2>2, <2>3
<1> QED BY <1>1, <1>2 DEF Next, SendNext, Task, Interrupts

\* What storing a word of the payload changes.
LEMMA StoreEffect ==
    ASSUME TypeOK, SendInv, NEW w, StoreWord(w)
    PROVE  /\ stage = "store" /\ w \in todo /\ todo' = todo \ {w}
           /\ \/ /\ op = "config" /\ w \in {"value", "update_seq"} /\ emergency' = emergency
                 /\ config' = [config EXCEPT ![w] = candidate[w]]
              \/ /\ op = "emergency" /\ w = "reason" /\ config' = config
                 /\ emergency' = [emergency EXCEPT !.reason = 1]
<1>1. stage = "store" /\ op \in {"config", "emergency"} /\ todo \subseteq Words(op)
    BY DEF StoreWord, SendInv, TypeOK
<1> QED BY <1>1, WordsOf DEF StoreWord
-----------------------------------------------------------------------------
\* The local steps of run() keep the types.
LEMMA LocalType ==
    ASSUME TypeOK, SendInv, LoopNext
    PROVE  TypeOK' /\ SendInv'
<1>p. SharedType /\ MailType /\ TaskType /\ SendType /\ RcType
    BY TypeParts
<1>q. SharedType' /\ MailType' /\ TaskType' /\ SendType' /\ RcType' => TypeOK'
    BY TypeParts, PTL
<1>a. rc_age \in Nat /\ RcTimeout \in Nat /\ Period \in Nat \ {0}
      /\ \A owed \in BOOLEAN : 0..MaxAge(owed) \subseteq Nat /\ 0 \in 0..MaxAge(owed)
    BY <1>p, ConstantTypes DEF RcType
<1>i. Inputs \subseteq Nat /\ DefaultValue \in Values
    BY LinuxNodeAssumption
<1>l. op = NoCmd /\ stage = "none" /\ todo = {} /\ UNCHANGED <<regionVars, mailbox, queue, rtVars, clean, active_config, config_sent>>
    BY LocalEffect DEF SendInv
<1>m. MailType' /\ TaskType'
    BY <1>p, <1>l DEF MailType, TaskType, rtVars, readerVars
<1>u. ASSUME UNCHANGED <<shared_backend, fallback_mode>> PROVE SharedType'
    BY <1>p, <1>l, <1>u DEF SharedType, regionVars
<1>r. ASSUME UNCHANGED <<rcVars, clockVars>> PROVE RcType'
    BY <1>p, <1>r DEF RcType, rcVars, clockVars, MaxAge
<1>s. ASSUME UNCHANGED sendVars, linux' \in {"boot", "cli", "ini", "stop", "arm", "cycle"},
             UNCHANGED <<shared_backend, fallback_mode>>, ini_cache' \in Texts, inputs' \in Nat
      PROVE  SendType' /\ SendInv'
    <2>1. SendType'
        BY <1>p, <1>l, <1>s DEF sendVars, SendType, After
    <2>2. SendInv'
        BY <1>l, <1>s DEF sendVars, rtVars, SendInv, NoCmd
    <2> QED BY <2>1, <2>2
<1>1. ASSUME NEW e \in Environments, Open(e) PROVE TypeOK' /\ SendInv'
    <2>1. e \in AllEnvironments
        BY LinuxNodeAssumption
    <2>2. e.device \in BOOLEAN /\ (e.device /\ HasAddress(e) => Backend(e) # "Shm")
          /\ Backend(e) \in {"Fallback", "Ion", "DevMem", "Shm"}
        BY <2>1 DEF AllEnvironments, HasAddress, Backend
    <2>3. SharedType'
        BY <1>p, <1>l, <1>1, <2>2 DEF Open, SharedType, regionVars
    <2>4. RcType'
        BY <1>1, <1>r DEF Open
    <2>5. SendType' /\ SendInv'
        <3>1. linux = "start" /\ fallback_mode' = ~e.device
              /\ UNCHANGED <<candidate, ini_cache, inputs, failsafe_sent>>
            BY <1>1 DEF Open, At, sendVars, iniVars, rcVars
        <3>2. CASE e.device /\ ~HasAddress(e)
            <4>1. linux' = "failed" /\ UNCHANGED <<shared_backend, op, stage, todo, wait_left>>
                BY <1>1, <3>2 DEF Open, sendVars
            <4>2. SendType'
                BY <1>p, <1>l, <3>1, <4>1 DEF SendType
            <4>3. SendInv'
                BY <1>p, <1>l, <3>1, <3>2, <4>1 DEF SendInv, rtVars, NoCmd
            <4> QED BY <4>2, <4>3
        <3>3. CASE ~(e.device /\ ~HasAddress(e)) /\ e.device
            <4>1. linux' = "announce" /\ shared_backend' = Backend(e) /\ op' = "init" /\ todo' = {}
                  /\ stage' = "ring" /\ wait_left' = wait_left
                BY <1>1, <3>3, SendEffect, WordsOf DEF Open, Cmds
            <4>2. SendType'
                BY <1>p, <1>l, <3>1, <4>1 DEF SendType, Cmds
            <4>3. SendInv'
                BY <1>p, <1>l, <2>2, <3>1, <3>3, <4>1 DEF SendInv, rtVars, NoCmd
            <4> QED BY <4>2, <4>3
        <3>4. CASE ~e.device
            <4>1. linux' = "boot" /\ UNCHANGED <<op, stage, todo, wait_left>>
                BY <1>1, <3>4 DEF Open
            <4>2. SendType'
                BY <1>p, <1>l, <3>1, <4>1 DEF SendType, After
            <4>3. SendInv'
                BY <1>p, <1>l, <3>1, <3>4, <4>1 DEF SendInv, rtVars, NoCmd
            <4> QED BY <4>2, <4>3
        <3> QED BY <3>2, <3>3, <3>4
    <2> QED BY <1>m, <2>3, <2>4, <2>5, <1>q
<1>2. ASSUME NEW v \in Nat, PushConfig(v), linux \in {"boot", "cli", "ini"},
             UNCHANGED <<otherVars, configVars, rcVars, clockVars>>,
             ini_cache' \in Texts, inputs' \in Nat
      PROVE  TypeOK' /\ SendInv'
    <2>1. SharedType' /\ RcType'
        BY <1>2, <1>u, <1>r DEF otherVars, cmdquVars
    <2>2. SendType' /\ SendInv'
        BY <1>p, <1>l, <1>2, PushEffect, WordsOf
        DEF otherVars, cmdquVars, configVars, rcVars, sendVars, rtVars, SendType, SendInv, Cmds, After, NoCmd
    <2> QED BY <1>m, <2>1, <2>2, <1>q
<1>3. CASE Boot
    BY <1>2, <1>3, <1>p, <1>i, LinuxNodeAssumption DEF Boot, At, iniVars, SendType
<1>4. ASSUME NEW ok \in BOOLEAN, BeginCycle(ok) PROVE TypeOK' /\ SendInv'
    <2>1. rc_seen' \in BOOLEAN /\ failsafe_sent' \in BOOLEAN /\ rc_late' \in BOOLEAN
          /\ stop_owed' \in BOOLEAN /\ losses' \in Nat
        BY <1>4, <1>p DEF BeginCycle, ReadRc, RcType
    <2>2. rc_age' \in 0..MaxAge(stop_owed')
        <3>1. CASE ok
            BY <1>4, <1>a, <2>1, <3>1 DEF BeginCycle, ReadRc
        <3>2. CASE ~ok
            BY <1>4, <1>p, <3>2 DEF BeginCycle, ReadRc, RcType
        <3> QED BY <3>1, <3>2
    <2>3. sleep_left' \in Int /\ sleep_left' <= Period
        BY <1>4, <1>a, <1>p DEF BeginCycle, RcType
    <2>4. RcType'
        BY <2>1, <2>2, <2>3 DEF RcType
    <2>5. SharedType'
        BY <1>4, <1>u DEF BeginCycle, otherVars, cmdquVars
    <2>6. SendType' /\ SendInv'
        BY <1>p, <1>l, <1>4
        DEF BeginCycle, At, otherVars, cmdquVars, configVars, sendVars, iniVars, rtVars, SendType, SendInv, After
    <2> QED BY <1>m, <2>4, <2>5, <2>6, <1>q
<1>5. CASE CliNothing \/ IniNothing
    <2>1. SharedType' /\ RcType'
        BY <1>5, <1>u, <1>r DEF CliNothing, IniNothing, otherVars, cmdquVars
    <2>2. SendType' /\ SendInv'
        BY <1>p, <1>s, <1>5
        DEF CliNothing, IniNothing, otherVars, cmdquVars, iniVars, SendType
    <2> QED BY <1>m, <2>1, <2>2, <1>q
<1>6. ASSUME NEW v \in Inputs, CliSet(v) PROVE TypeOK' /\ SendInv'
    BY <1>2, <1>6, <1>p, <1>i DEF CliSet, At, SendType
<1>7. ASSUME NEW text \in Texts, LoadIni(text) PROVE TypeOK' /\ SendInv'
    <2>1. ini_cache' \in Texts /\ inputs' \in Nat
        BY <1>7, <1>p DEF LoadIni, SendType
    <2>2. CASE text = NoText
        <3>1. SharedType' /\ RcType'
            BY <1>7, <1>u, <1>r DEF LoadIni, otherVars, cmdquVars
        <3>2. SendType' /\ SendInv'
            BY <1>s, <1>7, <2>1, <2>2 DEF LoadIni, At, otherVars, cmdquVars, After
        <3> QED BY <1>m, <3>1, <3>2, <1>q
    <2>3. CASE text # NoText
        <3>1. Head(text) \in Nat
            BY <1>i, <2>3 DEF Texts, NoText
        <3> QED BY <1>2, <1>7, <2>1, <2>3, <3>1 DEF LoadIni, At
    <2> QED BY <2>2, <2>3
<1>8. CASE CheckRc
    <2>1. SharedType'
        BY <1>8, <1>u DEF CheckRc, otherVars, cmdquVars
    <2>2. RcType'
        BY <1>8, <1>p DEF CheckRc, RcType, clockVars, MaxAge
    <2>3. SendType' /\ SendInv'
        BY <1>p, <1>l, <1>8, SendEffect, WordsOf
        DEF CheckRc, At, otherVars, cmdquVars, configVars, sendVars, iniVars, rtVars, SendType, SendInv, Cmds, After, NoCmd
    <2> QED BY <1>m, <2>1, <2>2, <2>3, <1>q
<1>9. CASE SendFailsafe
    <2>1. SharedType' /\ RcType'
        BY <1>9, <1>u, <1>r DEF SendFailsafe, otherVars, cmdquVars
    <2>2. SendType' /\ SendInv'
        BY <1>p, <1>l, <1>9, SendEffect, WordsOf
        DEF SendFailsafe, At, otherVars, cmdquVars, configVars, iniVars, rcVars, rtVars, SendType, SendInv, Cmds, After, NoCmd
    <2> QED BY <1>m, <2>1, <2>2, <1>q
<1> QED BY <1>1, <1>3, <1>4, <1>5, <1>6, <1>7, <1>8, <1>9 DEF LoopNext

\* The steps of sending, from the slot to the answer, keep the types.
LEMMA SendingType ==
    ASSUME TypeOK, SendInv,
           \/ \E w \in {"value", "update_seq", "reason"} : StoreWord(w)
           \/ StoreSeq
           \/ \E i \in Slots : Ring(i)
           \/ Returns
           \/ Discards
    PROVE  TypeOK' /\ SendInv'
<1>p. SharedType /\ MailType /\ TaskType /\ SendType /\ RcType
    BY TypeParts
<1>q. SharedType' /\ MailType' /\ TaskType' /\ SendType' /\ RcType' => TypeOK'
    BY TypeParts, PTL
<1>t. ASSUME UNCHANGED rtVars PROVE TaskType'
    BY <1>p, <1>t DEF TaskType, rtVars, readerVars
<1>f. ASSUME NEW i \in Slots, mailbox' = [mailbox EXCEPT ![i] = Free], queue' = queue PROVE MailType'
    BY <1>p, <1>f DEF MailType, Messages
<1>1. ASSUME NEW w \in {"value", "update_seq", "reason"}, StoreWord(w) PROVE TypeOK' /\ SendInv'
    <2>1. SharedType'
        BY <1>1, <1>p, StoreEffect DEF SharedType, SendType, StoreWord
    <2>2. SendType' /\ SendInv'
        BY <1>1, <1>p, StoreEffect
        DEF SendType, SendInv, StoreWord, rtVars, configVars, iniVars, rcVars
    <2>3. MailType' /\ TaskType' /\ RcType'
        BY <1>1, <1>p, <1>t DEF StoreWord, MailType, RcType, rcVars, clockVars, MaxAge
    <2> QED BY <1>q, <2>1, <2>2, <2>3
<1>2. CASE StoreSeq
    <2>1. SharedType'
        <3>1. op \in {"config", "emergency"} /\ UNCHANGED <<shared_backend, fallback_mode>>
            BY <1>2 DEF StoreSeq, SendInv
        <3>2. CASE op = "config"
            BY <1>2, <1>p, <3>1, <3>2 DEF StoreSeq, SharedType, SendType
        <3>3. CASE op # "config"
            BY <1>2, <1>p, <3>1, <3>3 DEF StoreSeq, SharedType
        <3> QED BY <3>2, <3>3
    <2>2. SendType' /\ SendInv'
        BY <1>2, <1>p DEF StoreSeq, PayloadStored, SendType, SendInv, configVars, iniVars, rtVars
    <2>3. MailType' /\ TaskType'
        BY <1>2, <1>p, <1>t DEF StoreSeq, MailType
    <2>4. RcType'
        <3>1. CASE op = "config"
            BY <1>2, <1>p, <3>1 DEF StoreSeq, RcType, MaxAge
        <3>2. CASE op # "config"
            <4>1. stop_owed' = FALSE /\ rc_age' = IF rc_age > MaxAge(FALSE) THEN MaxAge(FALSE) ELSE rc_age
                BY <1>2, <3>2 DEF StoreSeq
            <4>2. MaxAge(FALSE) \in Nat /\ MaxAge(stop_owed) \in Nat
                BY <1>p, ConstantTypes DEF RcType
            <4>3. rc_age' \in 0..MaxAge(stop_owed')
                <5>1. rc_age \in Nat
                    BY <1>p, <4>2 DEF RcType
                <5>2. ASSUME NEW m \in Nat, rc_age' = IF rc_age > m THEN m ELSE rc_age
                      PROVE  rc_age' \in 0..m
                    BY <5>1, <5>2
                <5>3. rc_age' \in 0..MaxAge(FALSE)
                    BY <4>1, <4>2, <5>2
                <5> QED BY <4>1, <5>3
            <4> QED BY <1>2, <1>p, <4>1, <4>3 DEF StoreSeq, RcType
        <3> QED BY <3>1, <3>2
    <2> QED BY <1>q, <2>1, <2>2, <2>3, <2>4
<1>3. ASSUME NEW i \in Slots, Ring(i) PROVE TypeOK' /\ SendInv'
    <2>1. op \in Cmds
        BY <1>3, <1>p DEF Ring, SendType, SendInv
    <2>2. MailType'
        BY <1>3, <1>p, <2>1 DEF Ring, MailType, Messages, Message
    <2>3. SendType' /\ SendInv'
        BY <1>3, <1>p, <2>1, ConstantTypes DEF Ring, SendType, SendInv, configVars, iniVars, rcVars, rtVars
    <2>4. SharedType' /\ TaskType' /\ RcType'
        BY <1>3, <1>p, <1>t DEF Ring, SharedType, regionVars, RcType, rcVars, clockVars, MaxAge
    <2> QED BY <1>q, <2>2, <2>3, <2>4
<1>4. CASE Returns
    <2> PICK ok \in BOOLEAN : Return(ok)
        BY <1>4 DEF Returns
    <2>1. MailType' /\ TaskType'
        BY <1>4, <1>p, <1>f, <1>t DEF Returns, MailType
    <2>2. op # NoCmd /\ stage # "store"
        BY <1>4 DEF Returns
    <2>3. SharedType' /\ RcType'
        <3>1. shared_backend' \in {shared_backend, "Fallback"} /\ fallback_mode' = fallback_mode
              /\ UNCHANGED <<rc_seen, rc_late, losses, stop_owed>> /\ failsafe_sent' = (failsafe_sent \/ op = "arm")
            BY <2>2, ReturnEffect
        <3>2. SharedType'
            BY <1>4, <1>p, <3>1 DEF Returns, SharedType, regionVars
        <3> QED BY <1>4, <1>p, <3>1, <3>2 DEF Returns, RcType, clockVars, MaxAge
    <2>4. active_config' \in [value: Values, update_seq: Nat]
        BY <1>p, <2>2, ReturnEffect DEF SendType, SendInv
    <2>5. linux' \in {"boot", "failed", "cycle", "ini", "stop", "arm"}
        BY <2>2, ReturnEffect DEF After
    <2>6. SendType'
        BY <1>p, <2>2, <2>4, <2>5, ReturnEffect, WordsOf, LinuxNodeAssumption DEF SendType, NoConfig, After
    <2>7. SendInv'
        BY <1>4, <1>p, <2>2, <2>5, ReturnEffect DEF SendInv, Returns, rtVars, NoCmd
    <2> QED BY <1>q, <2>1, <2>3, <2>6, <2>7
<1>5. CASE Discards
    <2>1. MailType' /\ TaskType' /\ SharedType'
        BY <1>5, <1>p, <1>f, <1>t DEF Discards, SharedType, linuxVars, regionVars
    <2>2. SendType' /\ RcType'
        BY <1>5, <1>p DEF Discards, SendType, RcType, linuxVars, sendVars, configVars, iniVars, rcVars,
            clockVars, MaxAge
    <2>3. SendInv'
        BY <1>5 DEF Discards, SendInv, linuxVars, sendVars, configVars, rcVars, rtVars
    <2> QED BY <1>q, <2>1, <2>2, <2>3
<1> QED BY <1>1, <1>2, <1>3, <1>4, <1>5

\* The firmware's task and interrupt and the passing of time keep the types.
LEMMA OtherType ==
    ASSUME TypeOK, SendInv,
           \/ TaskNext /\ UNCHANGED <<linuxVars, clockVars>>
           \/ (\E i \in Slots : Isr(i)) /\ UNCHANGED <<linuxVars, clockVars>>
           \/ Tick
           \/ UNCHANGED vars
    PROVE  TypeOK' /\ SendInv'
<1>p. SharedType /\ MailType /\ TaskType /\ SendType /\ RcType
    BY TypeParts
<1>q. SharedType' /\ MailType' /\ TaskType' /\ SendType' /\ RcType' => TypeOK'
    BY TypeParts, PTL
<1>u. ASSUME UNCHANGED <<linuxVars, clockVars>> PROVE SendType' /\ RcType' /\ fallback_mode' = fallback_mode
    BY <1>p, <1>u DEF linuxVars, sendVars, configVars, iniVars, rcVars, clockVars, SendType, RcType, MaxAge
<1>s. ASSUME UNCHANGED <<shared_backend, fallback_mode, regionVars>> PROVE SharedType'
    BY <1>p, <1>s DEF SharedType, regionVars
<1>i. ASSUME UNCHANGED <<linuxVars, shared_backend>>, rt' = "serve" => cmd' # NoCmd PROVE SendInv'
    BY <1>i DEF linuxVars, sendVars, configVars, rcVars, SendInv
<1>1. ASSUME TaskNext, UNCHANGED <<linuxVars, clockVars>> PROVE TypeOK' /\ SendInv'
    <2>1. UNCHANGED <<shared_backend, regionVars>>
        BY <1>1 DEF TaskNext, TaskReceive, TaskTimeout, PollSkip, PollEmergency, PollReason, PollConfigSeq,
            PollUpdateSeq, PollValue, Serve, ServeUnanswered
    <2>2. MailType' /\ cmd' \in Cmds \cup {NoCmd} /\ (rt' = "serve" => cmd' # NoCmd)
        <3>1. CASE TaskReceive
            <4>1. queue \in Seq(Cmds) /\ queue # <<>> /\ Len(queue) <= QueueLength
                BY <1>p, <3>1 DEF MailType, TaskReceive
            <4>2. Head(queue) \in Cmds /\ Tail(queue) \in Seq(Cmds) /\ Len(Tail(queue)) = Len(queue) - 1
                BY <4>1, HeadTailProperties
            <4>3. Len(Tail(queue)) <= QueueLength
                BY <4>1, <4>2, LenProperties, CmdquAssumption
            <4> QED BY <1>p, <3>1, <4>2, <4>3 DEF TaskReceive, MailType
        <3>2. ASSUME NEW i \in Slots, Serve(i) PROVE MailType' /\ rt' # "serve" /\ cmd' = NoCmd
            <4>1. cmd \in Cmds
                BY <1>p, <3>2 DEF Serve, TaskType, SendInv
            <4> QED BY <1>p, <3>2, <4>1 DEF Serve, MailType, Messages, Message
        <3>3. CASE TaskTimeout \/ PollSkip \/ PollEmergency \/ PollReason \/ PollConfigSeq
                   \/ PollUpdateSeq \/ PollValue \/ ServeUnanswered
            BY <1>p, <3>3 DEF TaskTimeout, PollSkip, PollEmergency, PollReason, PollConfigSeq,
                PollUpdateSeq, PollValue, ServeUnanswered, PollEnd, MailType, TaskType
        <3> QED BY <1>1, <3>1, <3>2, <3>3 DEF TaskNext
    <2>3. TaskType'
        <3>1. CASE TaskReceive \/ TaskTimeout \/ PollSkip \/ ServeUnanswered \/ \E i \in Slots : Serve(i)
            BY <1>p, <2>2, <3>1 DEF TaskReceive, TaskTimeout, PollSkip, ServeUnanswered, Serve, PollEnd,
                TaskType, readerVars
        <3>2. CASE PollEmergency \/ PollReason \/ PollConfigSeq \/ PollUpdateSeq \/ PollValue
            <4>1. PollEnd \in {"idle", "serve"} /\ emergency.seq \in Nat /\ config.seq \in Nat
                  /\ config.update_seq \in Nat /\ config.value \in Values \cup {0}
                BY <1>p DEF PollEnd, SharedType
            <4>2. CASE PollEmergency \/ PollReason \/ PollConfigSeq
                BY <1>p, <2>2, <4>1, <4>2 DEF PollEmergency, PollReason, PollConfigSeq, TaskType
            <4>3. CASE PollUpdateSeq
                BY <1>p, <2>2, <4>1, <4>3 DEF PollUpdateSeq, TaskType
            <4>4. CASE PollValue
                BY <1>p, <2>2, <4>1, <4>4 DEF PollValue, TaskType
            <4> QED BY <3>2, <4>2, <4>3, <4>4
        <3> QED BY <1>1, <3>1, <3>2 DEF TaskNext
    <2> QED BY <1>1, <1>q, <1>u, <1>s, <1>i, <2>1, <2>2, <2>3
<1>2. ASSUME NEW i \in Slots, Isr(i), UNCHANGED <<linuxVars, clockVars>> PROVE TypeOK' /\ SendInv'
    <2>1. mailbox[i][2] \in Cmds
        BY <1>2, <1>p, MessageType DEF Isr
    <2>2. mailbox' \in [Slots -> Messages]
        BY <1>2, <1>p DEF Isr, MailType, Messages
    <2>3. queue' \in Seq(Cmds) /\ Len(queue') <= QueueLength
        <3>1. CASE Len(queue) < QueueLength
            BY <1>2, <1>p, <2>1, <3>1, AppendProperties, CmdquAssumption DEF Isr, MailType
        <3>2. CASE ~(Len(queue) < QueueLength)
            BY <1>2, <1>p, <3>2 DEF Isr, MailType
        <3> QED BY <3>1, <3>2
    <2> QED BY <1>2, <1>p, <1>q, <1>u, <1>s, <1>i, <2>2, <2>3 DEF Isr, MailType, TaskType, rtVars, readerVars, SendInv
<1>3. CASE Tick
    <2>1. SharedType' /\ MailType' /\ TaskType'
        BY <1>3, <1>p DEF Tick, cmdquVars, regionVars, rtVars, readerVars, SharedType, MailType, TaskType
    <2>2. SendType' /\ SendInv'
        <3>1. wait_left' \in Nat
            BY <1>3, <1>p DEF Tick, SendType, SendInv, At
        <3>2. SendType'
            BY <1>3, <1>p, <3>1 DEF Tick, configVars, iniVars, SendType
        <3> QED BY <1>3, <3>2 DEF Tick, cmdquVars, rtVars, configVars, rcVars, SendInv
    <2>3. RcType'
        BY <1>3, <1>p, ConstantTypes DEF Tick, rcVars, RcType
    <2> QED BY <1>q, <2>1, <2>2, <2>3
<1>4. CASE UNCHANGED vars
    BY <1>4, <1>p, <1>q, <1>u DEF vars, cmdquVars, regionVars, rtVars, readerVars, SharedType, MailType,
        TaskType, linuxVars, sendVars, configVars, rcVars, SendInv
<1> QED BY <1>1, <1>2, <1>3, <1>4

\* The types, and what Linux is sending, at every step.
LEMMA TypeStep == TypeOK /\ SendInv /\ [Next]_vars => TypeOK' /\ SendInv'
<1> SUFFICES ASSUME TypeOK, SendInv, [Next]_vars PROVE TypeOK' /\ SendInv'
    OBVIOUS
<1> QED BY Steps, LocalType, SendingType, OtherType

\* TypeOK and SendInv hold in every reachable state.
LEMMA SendingHolds == Spec => [](TypeOK /\ SendInv)
<1>1. Init => TypeOK /\ SendInv
    <2> SUFFICES ASSUME Init PROVE TypeOK /\ SendInv
        OBVIOUS
    <2>1. SharedType /\ MailType /\ TaskType
        <3>1. queue \in Seq(Cmds) /\ Len(queue) <= QueueLength
            BY CmdquAssumption, EmptySeq DEF Init, CmdquInit
        <3>2. MailType /\ TaskType
            BY <3>1 DEF Init, CmdquInit, MailType, TaskType, Messages
        <3>3. emergency = [seq |-> 0, reason |-> 0] /\ config = [seq |-> 0, update_seq |-> 0, value |-> 0]
              /\ shared_backend = "Fallback" /\ fallback_mode \in BOOLEAN
            BY DEF Init, CmdquInit
        <3>4. SharedType
            BY <3>3 DEF SharedType
        <3> QED BY <3>2, <3>4
    <2>2. SendType
        BY LinuxNodeAssumption, WordsOf DEF Init, SendType, NoConfig, Texts, After
    <2>3. RcType
        <3>1. MaxAge(FALSE) \in Nat
            BY ConstantTypes
        <3>n. \A m \in Nat : 0 \in 0..m
            OBVIOUS
        <3>2. 0 \in 0..MaxAge(FALSE)
            BY <3>1, <3>n
        <3>3. rc_seen \in BOOLEAN /\ failsafe_sent \in BOOLEAN /\ rc_late \in BOOLEAN
              /\ stop_owed \in BOOLEAN /\ rc_age \in 0..MaxAge(stop_owed)
            BY <3>2 DEF Init
        <3>4. losses \in Nat /\ sleep_left \in Int /\ sleep_left <= Period
            BY ConstantTypes DEF Init
        <3> QED BY <3>3, <3>4 DEF RcType
    <2>4. SendInv
        BY DEF Init, CmdquInit, SendInv, NoCmd
    <2> QED BY <2>1, <2>2, <2>3, <2>4, TypeParts
<1> QED BY <1>1, TypeStep, PTL DEF Spec

\* Every variable of the region, the mailbox, the firmware's task and the
\* Linux process keeps its type, and what Linux clamps stays clamped.
THEOREM LinuxTypeCorrect == Spec => []TypeOK
BY SendingHolds, PTL
-----------------------------------------------------------------------------
\* The reason of the stop is in the slot before its number is, and the
\* firmware looks at the reason only after it has seen a number.
EmergencyInv ==
    /\ op = "emergency" /\ todo = {} => emergency.reason = 1
    /\ op = "emergency" /\ stage # "store" => emergency.seq # 0
    /\ emergency.seq # 0 => emergency.reason = 1
    /\ last_emergency_seq # 0 => emergency.seq # 0
    /\ rt = "reason" => last_emergency_seq # 0
    /\ StopNeverReadAsClear

\* What the steps of the firmware's task do with the emergency slot.
LEMMA TaskReadsStop ==
    ASSUME TypeOK, EmergencyInv, TaskNext
    PROVE  /\ UNCHANGED <<shared_backend, regionVars>>
           /\ last_emergency_seq' # 0 => emergency.seq # 0
           /\ rt' = "reason" => last_emergency_seq' # 0
           /\ last_emergency_seq' # 0 /\ rt' # "reason" => latched'
           /\ latched => latched'
<1> USE DEF EmergencyInv, StopNeverReadAsClear
<1>1. CASE PollEmergency
    BY <1>1 DEF PollEmergency, regionVars
<1>2. CASE PollReason
    <2>1. last_emergency_seq # 0 /\ emergency.reason # 0
        BY <1>2 DEF PollReason
    <2>2. latched'
        BY <1>2, <2>1 DEF PollReason
    <2> QED BY <1>2, <2>1, <2>2 DEF PollReason, regionVars
<1>3. CASE TaskReceive \/ TaskTimeout \/ PollSkip \/ ServeUnanswered \/ \E i \in Slots : Serve(i)
    BY <1>3 DEF TaskReceive, TaskTimeout, PollSkip, ServeUnanswered, Serve, readerVars, regionVars, PollEnd
<1>4. CASE PollConfigSeq \/ PollUpdateSeq \/ PollValue
    BY <1>4 DEF PollConfigSeq, PollUpdateSeq, PollValue, regionVars, PollEnd
<1> QED BY <1>1, <1>2, <1>3, <1>4 DEF TaskNext

\* Every step keeps the order of reason, number and latch.
LEMMA EmergencyStep == TypeOK /\ SendInv /\ EmergencyInv /\ [Next]_vars => EmergencyInv'
<1> SUFFICES ASSUME TypeOK, SendInv, EmergencyInv, [Next]_vars PROVE EmergencyInv'
    OBVIOUS
<1> USE DEF StopNeverReadAsClear
<1>p. emergency \in [seq: Nat, reason: 0..1] /\ todo \subseteq Words(op)
    BY DEF TypeOK
<1>1. ASSUME LoopNext PROVE EmergencyInv'
    <2>1. op = NoCmd /\ UNCHANGED <<emergency, last_emergency_seq, rt, latched>>
        BY <1>1, LocalEffect DEF regionVars, rtVars, readerVars
    <2>2. op' = "emergency" => CheckRc
        BY <1>1, <2>1, SendEffect DEF LoopNext, Open, Boot, BeginCycle, CliNothing, CliSet, IniNothing, LoadIni,
            SendFailsafe, PushConfig, sendVars, NoCmd, Cmds
    <2>3. CheckRc /\ op' = "emergency" => todo' # {} /\ stage' = "store"
        BY <2>1, SendEffect, WordsOf DEF CheckRc, Cmds, sendVars, NoCmd
    <2> QED BY <2>1, <2>2, <2>3 DEF EmergencyInv
<1>2. ASSUME NEW w \in {"value", "update_seq", "reason"}, StoreWord(w) PROVE EmergencyInv'
    <2>1. UNCHANGED <<op, stage, last_emergency_seq, rt, latched>>
        BY <1>2 DEF StoreWord, rtVars, readerVars
    <2>2. CASE op = "config"
        BY <1>2, <2>1, <2>2, StoreEffect DEF EmergencyInv
    <2>3. CASE op = "emergency"
        <3>1. emergency'.reason = 1 /\ emergency'.seq = emergency.seq
            BY <1>2, <1>p, <2>3, StoreEffect
        <3> QED BY <1>2, <2>1, <2>3, <3>1, StoreEffect DEF EmergencyInv
    <2> QED BY <1>2, <2>2, <2>3, StoreEffect
<1>3. CASE StoreSeq
    <2>1. stage = "store" /\ todo = {} /\ todo' = todo
          /\ UNCHANGED <<op, last_emergency_seq, rt, latched>>
        BY <1>3 DEF StoreSeq, PayloadStored, rtVars, readerVars
    <2>2. CASE op = "config"
        BY <1>3, <2>1, <2>2 DEF StoreSeq, EmergencyInv
    <2>3. CASE op = "emergency"
        <3>1. emergency'.reason = 1 /\ emergency'.seq # 0
            BY <1>3, <1>p, <2>1, <2>3 DEF StoreSeq, EmergencyInv
        <3> QED BY <2>1, <2>3, <3>1 DEF EmergencyInv
    <2> QED BY <2>1, <2>2, <2>3 DEF SendInv
<1>4. CASE Returns
    BY <1>4, ReturnEffect DEF Returns, regionVars, rtVars, readerVars, EmergencyInv, NoCmd
<1>5. CASE (\E i \in Slots : Ring(i)) \/ Tick \/ UNCHANGED vars
    BY <1>5 DEF Ring, Tick, vars, cmdquVars, linuxVars, sendVars, regionVars, rtVars, readerVars, EmergencyInv,
        SendInv
<1>6. CASE Discards \/ ((\E i \in Slots : Isr(i)) /\ UNCHANGED <<linuxVars, clockVars>>)
    BY <1>6 DEF Discards, Isr, linuxVars, sendVars, regionVars, rtVars, readerVars, EmergencyInv
<1>7. CASE TaskNext /\ UNCHANGED <<linuxVars, clockVars>>
    BY <1>7, TaskReadsStop DEF linuxVars, sendVars, regionVars, EmergencyInv
<1> QED BY <1>1, <1>2, <1>3, <1>4, <1>5, <1>6, <1>7, Steps

\* EmergencyInv holds in every reachable state.
LEMMA EmergencyHolds == Spec => []EmergencyInv
<1>1. Init => EmergencyInv
    BY DEF Init, CmdquInit, EmergencyInv, StopNeverReadAsClear, NoCmd
<1> QED BY <1>1, SendingHolds, EmergencyStep, PTL DEF Spec

\* A stop is never taken for a clear, wherever the firmware's reads of number
\* and reason fall among the stores of Linux.
THEOREM StopNeverReadAsClearHolds == Spec => []StopNeverReadAsClear
<1>1. EmergencyInv => StopNeverReadAsClear
    BY DEF EmergencyInv
<1> QED BY <1>1, EmergencyHolds, PTL
-----------------------------------------------------------------------------
\* How long one config command may block, how late the next cycle may start,
\* and how long the commands still ahead in this cycle may block.
Block == AckTimeout["config"]
Longer == IF 2 * Block > Period THEN 2 * Block ELSE Period
Ahead ==
    CASE linux = "cli" -> IF stage = "wait" THEN wait_left + Block ELSE 2 * Block
      [] linux = "ini" -> IF stage = "wait" THEN wait_left ELSE Block
      [] OTHER -> 0

\* A cycle that found the link young ends before the next one is due or after
\* two blocking commands; the first cycle that finds it old sends the stop.
OwedInv ==
    /\ linux \in {"start", "announce", "boot", "failed"} => ~rc_seen
    /\ rc_seen \/ ~stop_owed
    /\ stop_owed =>
        /\ ~failsafe_sent /\ linux \in {"cycle", "cli", "ini", "stop"}
        /\ op = "emergency" => stage = "store"
        /\ linux # "cycle" => rc_age + Ahead <= RcTimeout + Longer + 2 * Block
        /\ linux # "cycle" /\ ~rc_late /\ op # "emergency" =>
              /\ rc_age + Ahead <= RcTimeout + 2 * Block
              /\ rc_age + sleep_left <= RcTimeout + Period
        /\ linux = "cycle" => /\ rc_age <= RcTimeout + Longer
                              /\ rc_age + sleep_left <= RcTimeout + Longer

\* The numbers of OwedInv.
LEMMA OwedTypes ==
    ASSUME TypeOK
    PROVE  /\ Block \in Nat /\ Longer \in Nat /\ RcTimeout \in Nat /\ Period \in Nat
           /\ Longer >= Period /\ Longer >= 2 * Block
           /\ StopDelay = RcTimeout + Longer + 2 * Block
           /\ wait_left \in Nat /\ rc_age \in Nat /\ sleep_left \in Int /\ sleep_left <= Period
           /\ Ahead \in Nat
<1>1. Block \in Nat /\ RcTimeout \in Nat /\ Period \in Nat
    BY ConstantTypes DEF Block
<1>2. Longer \in Nat /\ Longer >= Period /\ Longer >= 2 * Block
      /\ StopDelay = RcTimeout + Longer + 2 * Block
    BY <1>1 DEF Longer, StopDelay, Block
<1>3. wait_left \in Nat /\ stop_owed \in BOOLEAN /\ rc_age \in 0..MaxAge(stop_owed)
      /\ sleep_left \in Int /\ sleep_left <= Period
    BY TypeParts DEF SendType, RcType
<1>4. rc_age \in Nat
    BY <1>3, ConstantTypes
<1>5. Ahead \in Nat
    BY <1>1, <1>3 DEF Ahead
<1> QED BY <1>1, <1>2, <1>3, <1>4, <1>5

\* The local steps of run() keep OwedInv: only the start of a cycle and the
\* check of the link touch what it is about.
LEMMA OwedLocal ==
    ASSUME TypeOK, SendInv, OwedInv, LoopNext
    PROVE  OwedInv'
<1>t. TypeOK'
    BY LocalType
<1>n. /\ Block \in Nat /\ Longer \in Nat /\ RcTimeout \in Nat /\ Period \in Nat
      /\ Longer >= Period /\ Longer >= 2 * Block
      /\ wait_left \in Nat /\ rc_age \in Nat /\ sleep_left \in Int /\ sleep_left <= Period
    BY OwedTypes
<1>o. op = NoCmd /\ stage = "none"
    BY LocalEffect DEF SendInv
<1>1. CASE \E e \in Environments : Open(e)
    BY <1>1 DEF Open, At, rcVars, OwedInv
<1>2. ASSUME UNCHANGED <<rcVars, clockVars>>,
             op' \in {NoCmd, "config"} /\ stage' \in {"none", "store"},
             \/ linux' = linux
             \/ linux = "boot" /\ linux' = "cycle"
             \/ linux = "cli" /\ linux' = "ini"
             \/ linux = "ini" /\ linux' = "stop"
      PROVE  OwedInv'
    <2>1. UNCHANGED <<rc_seen, failsafe_sent, rc_late, losses, stop_owed, rc_age, sleep_left>>
        BY <1>2 DEF rcVars, clockVars
    <2>2. CASE ~stop_owed
        BY <1>2, <2>1, <2>2 DEF OwedInv
    <2>3. CASE stop_owed
        <3>1. linux \in {"cycle", "cli", "ini", "stop"} /\ rc_seen /\ ~failsafe_sent
            BY <2>3 DEF OwedInv
        <3>2. Ahead' <= Ahead /\ Ahead' \in Nat /\ Ahead \in Nat
            BY <1>n, <1>o, <1>2, <3>1 DEF Ahead, Block
        <3>3. linux' \in {"cycle", "cli", "ini", "stop"} /\ (linux' = "cycle" <=> linux = "cycle")
            BY <1>2, <3>1
        <3>4. op # "emergency" /\ op' # "emergency"
            BY <1>o, <1>2 DEF NoCmd
        <3>5. /\ linux # "cycle" => rc_age + Ahead <= RcTimeout + Longer + 2 * Block
              /\ linux # "cycle" /\ ~rc_late => /\ rc_age + Ahead <= RcTimeout + 2 * Block
                                                /\ rc_age + sleep_left <= RcTimeout + Period
              /\ linux = "cycle" => /\ rc_age <= RcTimeout + Longer
                                    /\ rc_age + sleep_left <= RcTimeout + Longer
            BY <2>3, <3>4 DEF OwedInv
        <3>6. ASSUME NEW a \in Nat, NEW b \in Nat, a <= b, NEW c \in Nat, rc_age + b <= c
              PROVE  rc_age' + a <= c
            BY <1>n, <2>1, <3>6
        <3>7. RcTimeout + Longer + 2 * Block \in Nat /\ RcTimeout + 2 * Block \in Nat
            BY <1>n
        <3>8. /\ linux' # "cycle" => rc_age' + Ahead' <= RcTimeout + Longer + 2 * Block
              /\ linux' # "cycle" /\ ~rc_late' => rc_age' + Ahead' <= RcTimeout + 2 * Block
            BY <3>2, <3>3, <3>5, <3>6, <3>7, <2>1
        <3> QED BY <2>1, <2>3, <3>1, <3>3, <3>4, <3>5, <3>8 DEF OwedInv
    <2> QED BY <2>2, <2>3
<1>3. ASSUME NEW v \in Nat, PushConfig(v), linux \in {"boot", "cli", "ini"},
             UNCHANGED <<rcVars, clockVars>>
      PROVE  OwedInv'
    BY <1>2, <1>3, <1>o, PushEffect DEF sendVars, After
<1>4. CASE Boot
    <2>1. active_config.value \in Nat
        BY TypeParts, LinuxNodeAssumption DEF SendType
    <2> QED BY <1>3, <1>4, <2>1 DEF Boot, At
<1>5. ASSUME NEW ok \in BOOLEAN, BeginCycle(ok) PROVE OwedInv'
    <2>1. linux = "cycle" /\ sleep_left <= 0 /\ linux' = "cli" /\ sleep_left' = sleep_left + Period
          /\ UNCHANGED <<op, stage, wait_left>>
        BY <1>5 DEF BeginCycle, At, sendVars
    <2>2. /\ rc_seen' = (rc_seen \/ ok) /\ stop_owed' = (stop_owed \/ ok)
          /\ failsafe_sent' = (failsafe_sent /\ ~ok)
          /\ rc_age' = (IF ok THEN 0 ELSE rc_age)
          /\ rc_late' = (rc_age' > RcTimeout)
        BY <1>5 DEF BeginCycle, ReadRc
    <2>3. Ahead' = 2 * Block
        BY <1>o, <2>1 DEF Ahead, Block
    <2>4. rc_seen' \/ ~stop_owed'
        BY <2>2 DEF OwedInv
    <2>5. ASSUME stop_owed' PROVE ~failsafe_sent'
        BY <2>2, <2>5 DEF OwedInv
    <2>6. ASSUME stop_owed' PROVE rc_age' \in Nat /\ rc_age' <= RcTimeout + Longer
        BY <1>n, <2>1, <2>2, <2>6 DEF OwedInv
    <2>7. ~rc_late' => rc_age' <= RcTimeout
        <3>1. ~rc_late' => ~(rc_age' > RcTimeout)
            BY <2>2
        <3>2. rc_age' \in Nat
            BY <1>n, <2>2
        <3> QED BY <1>n, <3>1, <3>2
    <2>8. op' # "emergency"
        BY <1>o, <2>1 DEF NoCmd
    <2>9. linux' = "cli" /\ sleep_left' <= Period /\ sleep_left' \in Int
        BY <1>n, <2>1
    <2> QED BY <1>n, <2>3, <2>4, <2>5, <2>6, <2>7, <2>8, <2>9 DEF OwedInv
<1>6. CASE CliNothing \/ IniNothing
    BY <1>2, <1>6, <1>o DEF CliNothing, IniNothing, At, sendVars
<1>7. ASSUME NEW v \in Inputs, CliSet(v) PROVE OwedInv'
    BY <1>3, <1>7, LinuxNodeAssumption DEF CliSet, At
<1>8. ASSUME NEW text \in Texts, LoadIni(text) PROVE OwedInv'
    <2>1. CASE text = NoText
        BY <1>2, <1>8, <1>o, <2>1 DEF LoadIni, At, sendVars, After
    <2>2. CASE text # NoText
        <3>1. Head(text) \in Nat
            BY <2>2, LinuxNodeAssumption DEF Texts, NoText
        <3> QED BY <1>3, <1>8, <2>2, <3>1 DEF LoadIni, At
    <2> QED BY <2>1, <2>2
<1>9. CASE CheckRc
    <2>1. linux = "stop" /\ UNCHANGED <<rc_seen, failsafe_sent, stop_owed, rc_age, sleep_left>>
        BY <1>9 DEF CheckRc, At, clockVars
    <2>2. CASE rc_seen /\ rc_late /\ ~failsafe_sent
        <3>1. linux' = "stop" /\ op' = "emergency" /\ stage' = "store"
            BY <1>9, <2>1, <2>2, SendEffect DEF CheckRc, Cmds
        <3>2. Ahead' = 0 /\ Ahead = 0
            BY <2>1, <3>1 DEF Ahead
        <3> QED BY <1>n, <2>1, <3>1, <3>2 DEF OwedInv
    <2>3. CASE ~(rc_seen /\ rc_late /\ ~failsafe_sent)
        <3>1. linux' = "cycle" /\ op' = op
            BY <1>9, <2>3 DEF CheckRc, sendVars
        <3>2. Ahead = 0 /\ op # "emergency"
            BY <1>o, <2>1 DEF Ahead, NoCmd
        <3>3. stop_owed => ~rc_late
            BY <2>3 DEF OwedInv
        <3> QED BY <1>n, <2>1, <3>1, <3>2, <3>3 DEF OwedInv
    <2> QED BY <2>2, <2>3
<1>10. CASE SendFailsafe
    BY <1>10 DEF SendFailsafe, At, rcVars, OwedInv
<1> QED BY <1>1, <1>4, <1>5, <1>6, <1>7, <1>8, <1>9, <1>10 DEF LoopNext

\* Every step keeps what OwedInv says of a link that was up.
LEMMA OwedStep == TypeOK /\ SendInv /\ OwedInv /\ [Next]_vars => OwedInv'
<1> SUFFICES ASSUME TypeOK, SendInv, OwedInv, [Next]_vars PROVE OwedInv'
    OBVIOUS
<1>n. /\ Block \in Nat /\ Longer \in Nat /\ RcTimeout \in Nat /\ Period \in Nat
      /\ Longer >= Period /\ Longer >= 2 * Block
      /\ wait_left \in Nat /\ rc_age \in Nat /\ sleep_left \in Int /\ sleep_left <= Period
      /\ StopDelay = RcTimeout + Longer + 2 * Block
    BY OwedTypes
<1>a. rc_age \in Nat /\ sleep_left \in Int
    BY <1>n
<1>b. RcTimeout + Longer \in Nat /\ RcTimeout + Period \in Nat /\ RcTimeout + 2 * Block \in Nat
      /\ RcTimeout + Longer + 2 * Block \in Nat
    BY <1>n
<1>k. ASSUME NEW a \in Nat, NEW b \in {a, a + 1}, NEW l \in Int, NEW c \in Nat, a + l <= c
      PROVE  b \in Nat /\ b + (l - 1) <= c /\ (l > 0 => b <= c)
    BY <1>k
<1>s. ASSUME UNCHANGED <<linux, op, stage, wait_left, rcVars, clockVars>> PROVE OwedInv'
    <2>1. Ahead' = Ahead
        BY <1>s DEF Ahead
    <2> QED BY <1>s, <2>1 DEF rcVars, clockVars, OwedInv
<1>1. CASE LoopNext
    BY <1>1, OwedLocal
<1>2. CASE \E w \in {"value", "update_seq", "reason"} : StoreWord(w)
    BY <1>2, <1>s DEF StoreWord
<1>3. CASE StoreSeq
    <2>1. stage = "store" /\ stage' = "ring"
          /\ UNCHANGED <<linux, op, wait_left, rc_seen, failsafe_sent, rc_late, sleep_left>>
        BY <1>3 DEF StoreSeq
    <2>2. CASE op = "config"
        <3>1. Ahead' = Ahead /\ UNCHANGED <<stop_owed, rc_age>>
            BY <1>3, <2>1, <2>2 DEF StoreSeq, Ahead
        <3>2. op' # "emergency"
            BY <2>1, <2>2
        <3> QED BY <2>1, <2>2, <3>1, <3>2 DEF OwedInv
    <2>3. CASE op # "config"
        BY <1>3, <2>1, <2>3 DEF StoreSeq, OwedInv
    <2> QED BY <2>2, <2>3
<1>4. ASSUME NEW i \in Slots, Ring(i) PROVE OwedInv'
    <2>1. stage = "ring" /\ stage' = "wait" /\ wait_left' = AckTimeout[op]
          /\ UNCHANGED <<linux, op, rcVars, clockVars>>
        BY <1>4 DEF Ring
    <2>2. UNCHANGED <<rc_seen, failsafe_sent, rc_late, stop_owed, rc_age, sleep_left>>
        BY <2>1 DEF rcVars, clockVars
    <2>3. stop_owed => op # "emergency"
        BY <2>1 DEF OwedInv
    <2>4. op \in Cmds /\ (linux \in {"cli", "ini"} => op = "config")
        BY <2>1, TypeParts DEF SendInv, SendType, Cmds
    <2>5. Ahead' = Ahead
        BY <1>n, <2>1, <2>4 DEF Ahead, Block
    <2> QED BY <2>1, <2>2, <2>3, <2>5 DEF OwedInv
<1>5. CASE Returns
    <2> PICK ok \in BOOLEAN : Return(ok)
        BY <1>5 DEF Returns
    <2>1. op # NoCmd /\ stage \in {"ring", "wait"} /\ UNCHANGED <<rc_age, sleep_left>>
        BY <1>5 DEF Returns, clockVars
    <2>2. /\ op' = NoCmd /\ stage' = "none"
          /\ linux' = (IF op = "init" THEN IF ok THEN "boot" ELSE "failed" ELSE After[linux])
          /\ failsafe_sent' = (failsafe_sent \/ op = "arm")
          /\ UNCHANGED <<rc_seen, rc_late, stop_owed>>
        BY <2>1, ReturnEffect
    <2>3. CASE ~stop_owed
        <3>1. op = "init" => ~rc_seen
            BY DEF SendInv, OwedInv
        <3>2. op # "init" => linux' \in {"cycle", "ini", "stop", "arm"}
            BY <2>1, <2>2, ReturnEffect DEF After
        <3> QED BY <2>2, <2>3, <3>1, <3>2 DEF OwedInv
    <2>4. CASE stop_owed
        <3>1. op = "config" /\ linux \in {"cli", "ini"}
            BY <2>1, <2>4, TypeParts DEF OwedInv, SendInv, SendType, Cmds
        <3>2. /\ linux = "cli" => linux' = "ini"
              /\ linux = "ini" => linux' = "stop"
            BY <2>2, <3>1 DEF After
        <3>3. Ahead' <= Ahead /\ Ahead' \in Nat /\ Ahead \in Nat
            BY <1>n, <2>1, <2>2, <3>1, <3>2 DEF Ahead
        <3>4. ~failsafe_sent' /\ linux' \in {"ini", "stop"} /\ op' # "emergency" /\ op # "emergency"
              /\ rc_seen
            BY <2>2, <2>4, <3>1, <3>2 DEF OwedInv, NoCmd
        <3>5. /\ rc_age + Ahead <= RcTimeout + Longer + 2 * Block
              /\ ~rc_late => /\ rc_age + Ahead <= RcTimeout + 2 * Block
                             /\ rc_age + sleep_left <= RcTimeout + Period
            BY <2>4, <3>1 DEF OwedInv
        <3>6. ASSUME NEW a \in Nat, NEW b \in Nat, a <= b, NEW c \in Nat, rc_age + b <= c
              PROVE  rc_age' + a <= c
            BY <1>n, <2>1, <3>6
        <3>7. RcTimeout + Longer + 2 * Block \in Nat /\ RcTimeout + 2 * Block \in Nat
            BY <1>n
        <3>8. /\ rc_age' + Ahead' <= RcTimeout + Longer + 2 * Block
              /\ ~rc_late => rc_age' + Ahead' <= RcTimeout + 2 * Block
            BY <3>3, <3>5, <3>6, <3>7
        <3> QED BY <2>1, <2>2, <2>4, <3>4, <3>5, <3>8 DEF OwedInv
    <2> QED BY <2>3, <2>4
<1>6. ASSUME UNCHANGED <<linuxVars, clockVars>> PROVE OwedInv'
    BY <1>6, <1>s DEF linuxVars, sendVars
<1>7. Discards \/ UNCHANGED vars => UNCHANGED <<linuxVars, clockVars>>
    BY DEF Discards, vars
<1>8. CASE Tick
    <2>1. UNCHANGED <<linux, op, stage, rc_seen, failsafe_sent, rc_late, stop_owed>>
        BY <1>8 DEF Tick, rcVars
    <2>2. \/ stage = "wait" /\ wait_left > 0 /\ wait_left' = wait_left - 1
          \/ linux = "cycle" /\ stage # "wait" /\ sleep_left > 0
        BY <1>8 DEF Tick, At, SendInv
    <2>3. CASE ~stop_owed
        BY <2>1, <2>3 DEF OwedInv
    <2>4. CASE stop_owed
        <3>1. linux \in {"cycle", "cli", "ini", "stop"} /\ rc_seen /\ ~failsafe_sent
              /\ (op = "emergency" => stage = "store")
            BY <2>4 DEF OwedInv
        <3>2. sleep_left' = sleep_left - 1
            BY <1>8, <3>1 DEF Tick
        <3>3. rc_age' \in {rc_age, rc_age + 1}
            BY <1>8 DEF Tick
        <3>4. CASE linux = "cycle"
            <4>1. stage # "wait"
                BY <3>4, TypeParts DEF SendInv, SendType, Cmds
            <4>2. rc_age + sleep_left <= RcTimeout + Longer /\ sleep_left > 0
                BY <2>2, <2>4, <3>4, <4>1 DEF OwedInv
            <4>3. rc_age' <= RcTimeout + Longer /\ rc_age' + sleep_left' <= RcTimeout + Longer
                BY <1>a, <1>b, <1>k, <3>2, <3>3, <4>2
            <4> QED BY <2>1, <2>4, <3>1, <3>4, <4>3 DEF OwedInv
        <3>5. CASE linux # "cycle"
            <4>1. stage = "wait" /\ wait_left > 0 /\ wait_left' = wait_left - 1
                BY <2>2, <3>5
            <4>2. op = "config" /\ linux \in {"cli", "ini"}
                BY <3>1, <3>5, <4>1, TypeParts DEF SendInv, SendType, Cmds
            <4>3. Ahead' = Ahead - 1 /\ Ahead \in Nat
                BY <1>n, <2>1, <4>1, <4>2 DEF Ahead
            <4>4. /\ rc_age + Ahead <= RcTimeout + Longer + 2 * Block
                  /\ ~rc_late => /\ rc_age + Ahead <= RcTimeout + 2 * Block
                                 /\ rc_age + sleep_left <= RcTimeout + Period
                BY <2>4, <3>5, <4>2 DEF OwedInv
            <4>5. /\ rc_age' + Ahead' <= RcTimeout + Longer + 2 * Block
                  /\ ~rc_late => /\ rc_age' + Ahead' <= RcTimeout + 2 * Block
                                 /\ rc_age' + sleep_left' <= RcTimeout + Period
                BY <1>a, <1>b, <1>k, <3>2, <3>3, <4>3, <4>4
            <4> QED BY <2>1, <2>4, <3>1, <3>5, <4>2, <4>5 DEF OwedInv
        <3> QED BY <3>4, <3>5
    <2> QED BY <2>3, <2>4
<1> QED BY <1>1, <1>2, <1>3, <1>4, <1>5, <1>6, <1>7, <1>8, Steps

\* When the link is lost, a stop is in the region at most StopDelay ticks after
\* the last good sample, though each cycle may block in two config commands
\* between reading the clock and acting on it.
THEOREM StopPublishedInTimeHolds == Spec => []StopPublishedInTime
<1>1. Init => OwedInv
    BY DEF Init, OwedInv
<1>2. TypeOK /\ OwedInv => StopPublishedInTime
    <2> SUFFICES ASSUME TypeOK, OwedInv, stop_owed PROVE rc_age <= StopDelay
        BY DEF StopPublishedInTime
    <2>1. /\ linux # "cycle" => rc_age + Ahead <= RcTimeout + Longer + 2 * Block
          /\ linux = "cycle" => rc_age <= RcTimeout + Longer
        BY DEF OwedInv
    <2> QED BY <2>1, OwedTypes
<1> QED BY <1>1, <1>2, SendingHolds, OwedStep, PTL DEF Spec
-----------------------------------------------------------------------------
\* Where the one command that Linux waits for is, as long as all was answered
\* in time: in the mailbox, in the firmware's queue, in its hands, answered,
\* or lost.
AllFree == \A i \in Slots : mailbox[i] = Free
Only(m) == \E i \in Slots : mailbox[i] = m /\ \A j \in Slots \ {i} : mailbox[j] = Free
Quiet == AllFree /\ queue = <<>> /\ cmd = NoCmd
Asked == Only(Message("rt", op)) /\ queue = <<>> /\ cmd = NoCmd
Queued == AllFree /\ queue = <<op>> /\ cmd = NoCmd
Served == AllFree /\ queue = <<>> /\ cmd = op
Answered == Only(Message("linux", op)) /\ queue = <<>> /\ cmd = NoCmd

TokenInv ==
    clean => IF stage = "wait" THEN Quiet \/ Asked \/ Queued \/ Served \/ Answered ELSE Quiet

\* The message is the only one.
LEMMA OnlyIs ==
    ASSUME NEW m, Only(m), NEW i \in Slots, mailbox[i] # Free
    PROVE  mailbox[i] = m /\ \A j \in Slots \ {i} : mailbox[j] = Free
BY DEF Only

\* Taking the only message leaves none.
LEMMA OnlyTaken ==
    ASSUME MailType, NEW m, Only(m), NEW i \in Slots, mailbox[i] # Free,
           mailbox' = [mailbox EXCEPT ![i] = Free]
    PROVE  AllFree'
BY OnlyIs DEF MailType, AllFree

\* A message put into an empty mailbox is the only one.
LEMMA OnlyPut ==
    ASSUME MailType, AllFree, NEW m, NEW i \in Slots, mailbox' = [mailbox EXCEPT ![i] = m]
    PROVE  Only(m)'
BY DEF MailType, AllFree, Only

\* How the firmware moves the command on, and what it leaves alone.
LEMMA TokenFirmware ==
    ASSUME TypeOK, SendInv, UNCHANGED <<op, stage>>, stage = "wait",
           Quiet \/ Asked \/ Queued \/ Served \/ Answered,
           TaskNext \/ \E i \in Slots : Isr(i)
    PROVE  \/ Quiet' /\ (Quiet \/ Served)
           \/ Asked /\ UNCHANGED <<mailbox, queue, cmd>>
           \/ Queued' /\ (Asked \/ Queued)
           \/ Served' /\ Queued /\ TaskReceive
           \/ Served /\ UNCHANGED <<mailbox, queue, cmd>>
           \/ Answered' /\ Served /\ \E i \in Slots : Serve(i)
           \/ Answered /\ UNCHANGED <<mailbox, queue, cmd>>
<1>m. MailType /\ cmd \in Cmds \cup {NoCmd}
    BY TypeParts DEF TaskType
<1>o. op \in Cmds /\ op # NoCmd
    BY TypeParts DEF SendInv, SendType
<1>1. ASSUME NEW i \in Slots, Isr(i) PROVE Asked /\ Queued'
    <2>1. mailbox[i][1] = "rt" /\ mailbox[i] # Free /\ cmd' = cmd
        BY <1>1 DEF Isr, Free, rtVars
    <2>2. Asked
        <3>1. ~AllFree
            BY <2>1 DEF AllFree
        <3>2. ~Answered
            BY <2>1, OnlyIs DEF Answered, Message
        <3> QED BY <3>1, <3>2 DEF Quiet, Queued, Served
    <2>3. mailbox[i] = Message("rt", op) /\ queue = <<>> /\ cmd = NoCmd
        BY <2>1, <2>2, OnlyIs DEF Asked
    <2>4. AllFree'
        BY <1>1, <1>m, <2>1, <2>2, OnlyTaken DEF Isr, Asked
    <2>5. queue' = <<op>>
        BY <1>1, <2>3, CmdquAssumption DEF Isr, Message
    <2> QED BY <2>1, <2>2, <2>3, <2>4, <2>5 DEF Queued
<1>2. CASE TaskReceive
    <2>1. queue # <<>>
        BY <1>2 DEF TaskReceive
    <2>2. Queued
        BY <2>1 DEF Quiet, Asked, Served, Answered
    <2>3. cmd' = op /\ queue' = <<>>
        BY <1>2, <2>2 DEF TaskReceive, Queued
    <2>4. Served'
        BY <1>2, <2>2, <2>3 DEF TaskReceive, Queued, Served, AllFree
    <2> QED BY <1>2, <2>2, <2>4
<1>3. ASSUME NEW i \in Slots, Serve(i) PROVE Answered' /\ Served /\ Serve(i)
    <2>1. cmd # NoCmd /\ Served
        BY <1>3 DEF Serve, SendInv, Quiet, Asked, Queued, Served, Answered
    <2>2. mailbox' = [mailbox EXCEPT ![i] = Message("linux", op)] /\ cmd' = NoCmd /\ queue' = <<>>
        BY <1>3, <2>1 DEF Serve, Served
    <2>3. Only(Message("linux", op))'
        BY <1>m, <2>1, <2>2, OnlyPut DEF Served, Only
    <2> QED BY <1>3, <2>1, <2>2, <2>3 DEF Answered
<1>4. CASE ServeUnanswered
    <2>1. Served
        BY <1>4 DEF ServeUnanswered, SendInv, Quiet, Asked, Queued, Served, Answered
    <2>2. Quiet'
        BY <1>4, <2>1 DEF ServeUnanswered, Quiet, Served, AllFree
    <2> QED BY <2>1, <2>2
<1>5. ASSUME UNCHANGED <<mailbox, queue, cmd>>
      PROVE  (Quiet /\ Quiet') \/ (Queued /\ Queued') \/ Asked \/ Served \/ Answered
    <2>1. AllFree => AllFree'
        BY <1>5 DEF AllFree
    <2>2. Quiet => Quiet'
        BY <1>5, <2>1 DEF Quiet
    <2>3. Queued => Queued'
        BY <1>5, <2>1 DEF Queued
    <2> QED BY <2>2, <2>3
<1>6. CASE TaskTimeout \/ PollSkip \/ PollEmergency \/ PollReason \/ PollConfigSeq \/ PollUpdateSeq
           \/ PollValue
    <2>1. UNCHANGED <<mailbox, queue, cmd>>
        BY <1>6 DEF TaskTimeout, PollSkip, PollEmergency, PollReason, PollConfigSeq, PollUpdateSeq, PollValue
    <2> QED BY <1>5, <2>1
<1> QED BY <1>1, <1>2, <1>3, <1>4, <1>6 DEF TaskNext

\* Every step keeps at most one command in flight while all is answered.
LEMMA TokenStep == TypeOK /\ SendInv /\ TokenInv /\ [Next]_vars => TokenInv'
<1> SUFFICES ASSUME TypeOK, SendInv, TokenInv, [Next]_vars, clean' PROVE TokenInv'
    BY DEF TokenInv
<1>m. MailType /\ cmd \in Cmds \cup {NoCmd}
    BY TypeParts DEF TaskType
<1>q. ASSUME Quiet, stage # "wait" \/ stage' = "wait", UNCHANGED <<mailbox, queue, cmd>> PROVE TokenInv'
    BY <1>q DEF Quiet, AllFree, TokenInv
<1>u. ASSUME UNCHANGED <<op, stage, clean, mailbox, queue, cmd>> PROVE TokenInv'
    BY <1>u DEF TokenInv, Quiet, Asked, Queued, Served, Answered, AllFree, Only
<1>1. CASE LoopNext
    <2>1. stage = "none" /\ UNCHANGED <<mailbox, queue, cmd, clean>>
        BY <1>1, LocalEffect DEF SendInv, rtVars
    <2> QED BY <1>q, <2>1 DEF TokenInv
<1>2. CASE (\E w \in {"value", "update_seq", "reason"} : StoreWord(w)) \/ StoreSeq
    <2>1. stage = "store" /\ stage' # "wait" /\ UNCHANGED <<mailbox, queue, cmd, clean>>
        BY <1>2, StoreEffect DEF StoreWord, StoreSeq, rtVars
    <2> QED BY <1>q, <2>1 DEF TokenInv
<1>3. ASSUME NEW i \in Slots, Ring(i) PROVE TokenInv'
    <2>1. stage = "ring" /\ stage' = "wait" /\ UNCHANGED <<op, queue, cmd, clean>>
          /\ mailbox' = [mailbox EXCEPT ![i] = Message("rt", op)]
        BY <1>3 DEF Ring, rtVars
    <2>2. Quiet
        BY <2>1 DEF TokenInv
    <2>3. Only(Message("rt", op))'
        BY <1>m, <2>1, <2>2, OnlyPut DEF Quiet, Only
    <2> QED BY <2>1, <2>2, <2>3 DEF Quiet, Asked, TokenInv
<1>4. CASE Returns
    <2>1. op # NoCmd /\ stage \in {"ring", "wait"} /\ UNCHANGED <<queue, cmd>>
        BY <1>4 DEF Returns, rtVars
    <2>2. Return(FALSE) => ~clean'
        BY <2>1, ReturnEffect
    <2>3. Return(TRUE) => clean /\ stage' = "none"
        BY <2>1, ReturnEffect
    <2>4. CASE Return(TRUE) /\ UNCHANGED mailbox /\ stage = "ring"
        BY <2>1, <2>3, <2>4 DEF TokenInv, Quiet, AllFree
    <2>5. ASSUME NEW i \in Slots, mailbox[i] = Message("linux", op), stage = "wait", Return(TRUE),
                 mailbox' = [mailbox EXCEPT ![i] = Free]
          PROVE  TokenInv'
        <3>1. mailbox[i] # Free /\ mailbox[i] # Message("rt", op)
            BY <2>5 DEF Message, Free
        <3>2. Answered
            BY <2>3, <2>5, <3>1, OnlyIs DEF TokenInv, Quiet, AllFree, Asked, Queued, Served
        <3>3. AllFree'
            BY <1>m, <2>5, <3>1, <3>2, OnlyTaken DEF Answered
        <3> QED BY <2>1, <2>3, <2>5, <3>2, <3>3 DEF Answered, Quiet, TokenInv
    <2> QED BY <1>4, <2>2, <2>4, <2>5 DEF Returns
<1>5. CASE Discards
    <2>1. PICK i \in Slots : mailbox[i][1] = "linux" /\ ~(stage = "wait" /\ op = mailbox[i][2])
        BY <1>5 DEF Discards
    <2>2. mailbox[i] = Message("linux", mailbox[i][2]) /\ mailbox[i] # Free
        BY <1>m, <2>1, MessageType DEF Free
    <2>3. clean
        BY <1>5 DEF Discards, linuxVars
    <2>4. ~AllFree /\ ~Asked /\ (stage = "wait" => ~Answered)
        BY <2>1, <2>2, OnlyIs DEF AllFree, Asked, Answered, Message
    <2> QED BY <2>3, <2>4 DEF TokenInv, Quiet, Queued, Served
<1>6. CASE (TaskNext \/ \E i \in Slots : Isr(i)) /\ UNCHANGED <<linuxVars, clockVars>>
    <2>1. UNCHANGED <<op, stage, clean>> /\ clean
        BY <1>6 DEF linuxVars, sendVars
    <2>2. CASE stage = "wait"
        <3>1. Quiet \/ Asked \/ Queued \/ Served \/ Answered
            BY <2>1, <2>2 DEF TokenInv
        <3>2. ASSUME UNCHANGED <<mailbox, queue, cmd>> PROVE TokenInv'
            BY <1>u, <2>1, <3>2
        <3>3. Quiet' \/ Queued' \/ Served' \/ Answered' \/ UNCHANGED <<mailbox, queue, cmd>>
            BY <1>6, <2>1, <2>2, <3>1, TokenFirmware
        <3> QED BY <2>1, <2>2, <3>2, <3>3 DEF TokenInv
    <2>3. CASE stage # "wait"
        <3>1. Quiet
            BY <2>1, <2>3 DEF TokenInv
        <3>2. UNCHANGED <<mailbox, queue, cmd>>
            BY <1>6, <3>1 DEF Quiet, AllFree, TaskNext, TaskReceive, TaskTimeout, PollSkip, PollEmergency,
                PollReason, PollConfigSeq, PollUpdateSeq, PollValue, Serve, ServeUnanswered, Isr, Free, SendInv
        <3> QED BY <1>q, <2>1, <2>3, <3>1, <3>2
    <2> QED BY <2>2, <2>3
<1>7. CASE Tick \/ UNCHANGED vars
    BY <1>7, <1>u DEF Tick, vars, cmdquVars, rtVars, linuxVars, sendVars
<1> QED BY <1>1, <1>2, <1>3, <1>4, <1>5, <1>6, <1>7, Steps

\* While all is answered in time there is no answer that nobody waits for.
LEMMA NoDiscard ==
    ASSUME TypeOK, SendInv, TokenInv, Discards
    PROVE  ~clean
<1> SUFFICES ASSUME clean PROVE FALSE
    OBVIOUS
<1>1. PICK i \in Slots : mailbox[i][1] = "linux" /\ ~(stage = "wait" /\ op = mailbox[i][2])
    BY DEF Discards
<1>2. mailbox[i] = Message("linux", mailbox[i][2]) /\ mailbox[i] # Free
    BY <1>1, TypeParts, MessageType DEF Free
<1>3. ~AllFree /\ ~Asked /\ (stage = "wait" => ~Answered)
    BY <1>1, <1>2, OnlyIs DEF AllFree, Asked, Answered, Message
<1> QED BY <1>3 DEF TokenInv, Quiet, Queued, Served
-----------------------------------------------------------------------------
\* The config that was in force before the one being sent.
Prev == IF config_sent THEN active_config ELSE NoConfig

\* A config that is sent has the next number.
NumberInv ==
    /\ active_config.update_seq # 0
    /\ ~config_sent => active_config.update_seq = 1
    /\ op = "config" => candidate.update_seq = Prev.update_seq + 1

\* Whether the store of a word of the config is done, or was done before.
Stored(w) == op = "config" /\ w \notin todo

\* What the config slot holds, and how far the firmware has followed, as long
\* as every command was answered in time.
RegionInv ==
    /\ config.seq = (IF op = "config" /\ stage # "store" THEN candidate ELSE Prev).update_seq
    /\ config.update_seq = (IF Stored("update_seq") THEN candidate ELSE Prev).update_seq
    /\ config.value = (IF Stored("value") THEN candidate ELSE Prev).value
    /\ last_config[1] <= config.seq
    /\ rt = "update" => seq <= config.seq
    /\ ~(op = "config" /\ stage = "store") /\ rt # "value"
            /\ last_config = <<config.seq, config.update_seq>>
          => applied = config.value

\* What the local steps of run() start to send.
LEMMA LocalSends ==
    ASSUME TypeOK, SendInv, LoopNext
    PROVE  /\ \/ op' = NoCmd /\ stage' = "none"
              \/ /\ op' = "config" /\ stage' = "store" /\ todo' = {"value", "update_seq"}
                 /\ candidate'.update_seq = active_config.update_seq + (IF config_sent THEN 1 ELSE 0)
              \/ op' \in {"init", "arm", "emergency"} /\ stage' \in {"store", "ring"}
           /\ linux' = "arm" => linux = "arm"
           /\ failsafe_sent' => failsafe_sent
           /\ linux = "start" => linux' \in {"announce", "failed"} \/ fallback_mode'
           /\ linux \notin {"announce", "failed"}
<1>o. op = NoCmd /\ stage = "none" /\ linux \in {"start", "boot", "cycle", "cli", "ini", "stop", "arm"}
    BY LocalEffect DEF SendInv, After
<1>p. ASSUME NEW v \in Nat, PushConfig(v), linux \in {"boot", "cli", "ini"}
      PROVE  /\ \/ op' = NoCmd /\ stage' = "none"
                \/ /\ op' = "config" /\ stage' = "store" /\ todo' = {"value", "update_seq"}
                   /\ candidate'.update_seq = active_config.update_seq + (IF config_sent THEN 1 ELSE 0)
             /\ linux' # "arm"
    BY <1>o, <1>p, PushEffect, WordsOf DEF sendVars, After
<1>i. Inputs \subseteq Nat /\ active_config.value \in Nat
    BY LinuxNodeAssumption, TypeParts DEF SendType
<1>1. ASSUME NEW e \in Environments, Open(e)
      PROVE  /\ (op' = NoCmd /\ stage' = "none") \/ (op' = "init" /\ stage' = "ring")
             /\ linux' \in {"announce", "failed"} \/ fallback_mode'
             /\ linux' # "arm" /\ linux = "start" /\ failsafe_sent' = failsafe_sent
    BY <1>1, <1>o, SendEffect DEF Open, At, sendVars, rcVars, Cmds
<1>2. CASE Boot
    BY <1>2, <1>o, <1>p, <1>i DEF Boot, At, rcVars
<1>3. ASSUME NEW ok \in BOOLEAN, BeginCycle(ok)
      PROVE  /\ op' = NoCmd /\ stage' = "none" /\ linux = "cycle" /\ linux' = "cli"
             /\ failsafe_sent' => failsafe_sent
    BY <1>3, <1>o DEF BeginCycle, At, ReadRc, sendVars
<1>4. CASE CliNothing \/ IniNothing
    BY <1>4, <1>o DEF CliNothing, IniNothing, At, sendVars, rcVars
<1>5. ASSUME NEW v \in Inputs, CliSet(v)
      PROVE  PushConfig(v) /\ v \in Nat /\ linux = "cli" /\ failsafe_sent' = failsafe_sent
    BY <1>5, <1>i DEF CliSet, At, rcVars
<1>6. ASSUME NEW text \in Texts, LoadIni(text)
      PROVE  /\ linux = "ini" /\ failsafe_sent' = failsafe_sent
             /\ \/ op' = NoCmd /\ stage' = "none" /\ linux' = "stop"
                \/ \E v \in Nat : PushConfig(v)
    <2>1. linux = "ini" /\ failsafe_sent' = failsafe_sent
        BY <1>6 DEF LoadIni, At, rcVars
    <2>2. CASE text = NoText
        BY <1>6, <1>o, <2>1, <2>2 DEF LoadIni, sendVars, After
    <2>3. CASE text # NoText
        <3>1. Head(text) \in Nat
            BY <2>3, <1>i DEF Texts, NoText
        <3> QED BY <1>6, <2>1, <2>3, <3>1 DEF LoadIni
    <2> QED BY <2>2, <2>3
<1>7. CASE CheckRc
    BY <1>7, <1>o, SendEffect DEF CheckRc, At, sendVars, Cmds
<1>8. CASE SendFailsafe
    BY <1>8, <1>o, SendEffect DEF SendFailsafe, At, rcVars, Cmds
<1> QED BY <1>o, <1>p, <1>1, <1>2, <1>3, <1>4, <1>5, <1>6, <1>7, <1>8 DEF LoopNext

\* Every step keeps the numbering.
LEMMA NumberStep == TypeOK /\ SendInv /\ NumberInv /\ [Next]_vars => NumberInv'
<1> SUFFICES ASSUME TypeOK, SendInv, NumberInv, [Next]_vars PROVE NumberInv'
    OBVIOUS
<1>p. active_config.update_seq \in Nat /\ candidate.update_seq \in Nat /\ config_sent \in BOOLEAN
    BY TypeParts DEF SendType
<1>1. CASE LoopNext
    <2>1. UNCHANGED <<active_config, config_sent>>
        BY <1>1, LocalEffect
    <2>2. op' = "config" =>
              candidate'.update_seq = active_config.update_seq + (IF config_sent THEN 1 ELSE 0)
        BY <1>1, LocalSends DEF NoCmd
    <2> QED BY <1>p, <2>1, <2>2 DEF NumberInv, Prev, NoConfig
<1>2. ASSUME UNCHANGED <<active_config, config_sent, op, candidate>> PROVE NumberInv'
    BY <1>2 DEF NumberInv, Prev
<1>3. CASE Returns
    <2> PICK ok \in BOOLEAN : Return(ok)
        BY <1>3 DEF Returns
    <2>1. op' = NoCmd /\ active_config' = (IF op = "config" /\ ok THEN candidate ELSE active_config)
          /\ config_sent' = (config_sent \/ (op = "config" /\ ok))
        BY <1>3, ReturnEffect DEF Returns
    <2>2. op = "config" => candidate.update_seq # 0
        BY <1>p DEF NumberInv, Prev, NoConfig
    <2> QED BY <2>1, <2>2 DEF NumberInv, NoCmd
<1>4. ASSUME NEW w, StoreWord(w) PROVE NumberInv'
    BY <1>4, <1>2 DEF StoreWord, configVars
<1>5. CASE StoreSeq \/ (\E i \in Slots : Ring(i)) \/ Tick
    BY <1>5, <1>2 DEF StoreSeq, Ring, Tick, configVars
<1>6. ASSUME UNCHANGED linuxVars PROVE NumberInv'
    BY <1>6, <1>2 DEF linuxVars, sendVars, configVars
<1>7. Discards \/ UNCHANGED vars => UNCHANGED linuxVars
    BY DEF Discards, vars
<1> QED BY <1>1, <1>3, <1>4, <1>5, <1>6, <1>7, Steps

\* Every step that leaves all answered in time keeps the config slot in step.
LEMMA RegionStep ==
    ASSUME TypeOK, SendInv, NumberInv, RegionInv, [Next]_vars, clean'
    PROVE  RegionInv'
<1>p. /\ active_config.update_seq \in Nat /\ candidate.update_seq \in Nat /\ config_sent \in BOOLEAN
      /\ config \in [seq: Nat, update_seq: Nat, value: Values \cup {0}]
      /\ last_config \in Nat \X Nat /\ seq \in Nat /\ last_config[1] \in Nat
      /\ op \in Cmds \cup {NoCmd}
    BY TypeParts DEF SendType, SharedType, TaskType
<1>u. ASSUME UNCHANGED <<config, last_config, applied, rt, seq, op, todo, active_config, config_sent, candidate>>,
             stage' = stage \/ op # "config" \/ (stage # "store" /\ stage' # "store")
      PROVE  RegionInv'
    BY <1>u DEF RegionInv, Stored, Prev
<1>1. CASE LoopNext
    <2>1. op = NoCmd /\ UNCHANGED <<config, last_config, applied, rt, seq, active_config, config_sent>>
        BY <1>1, LocalEffect DEF regionVars, rtVars, readerVars
    <2>2. Prev' = Prev
        BY <2>1 DEF Prev
    <2>3. op' # "config" \/ (stage' = "store" /\ todo' = {"value", "update_seq"})
        BY <1>1, LocalSends DEF NoCmd
    <2> QED BY <2>1, <2>2, <2>3 DEF RegionInv, Stored, NoCmd
<1>2. ASSUME NEW w, StoreWord(w) PROVE RegionInv'
    <2>1. stage = "store" /\ w \in todo /\ todo' = todo \ {w}
          /\ UNCHANGED <<op, stage, candidate, active_config, config_sent, last_config, applied, rt, seq>>
        BY <1>2, StoreEffect DEF StoreWord, configVars, rtVars, readerVars
    <2>2. CASE op = "config"
        <3>1. w \in {"value", "update_seq"} /\ config' = [config EXCEPT ![w] = candidate[w]]
            BY <1>2, <2>2, StoreEffect
        <3>2. Prev' = Prev
            BY <2>1 DEF Prev
        <3>3. CASE w = "value"
            BY <1>p, <2>1, <2>2, <3>1, <3>2, <3>3 DEF RegionInv, Stored
        <3>4. CASE w = "update_seq"
            BY <1>p, <2>1, <2>2, <3>1, <3>2, <3>4 DEF RegionInv, Stored
        <3> QED BY <3>1, <3>3, <3>4
    <2>3. CASE op # "config"
        BY <1>2, <2>1, <2>3, StoreEffect DEF RegionInv, Stored, Prev
    <2> QED BY <2>2, <2>3
<1>3. CASE StoreSeq
    <2>1. stage = "store" /\ todo = {} /\ stage' = "ring"
          /\ UNCHANGED <<op, todo, candidate, active_config, config_sent, last_config, applied, rt, seq>>
        BY <1>3 DEF StoreSeq, PayloadStored, configVars, rtVars, readerVars
    <2>2. CASE op = "config"
        <3>1. config' = [config EXCEPT !.seq = candidate.update_seq] /\ Prev' = Prev
            BY <1>3, <2>1, <2>2 DEF StoreSeq, Prev
        <3>2. config.seq < candidate.update_seq
            BY <1>p, <2>1, <2>2 DEF RegionInv, NumberInv
        <3>3. config'.seq = candidate.update_seq /\ config'.update_seq = candidate.update_seq
              /\ config'.value = candidate.value
            BY <1>p, <2>1, <2>2, <3>1 DEF RegionInv, Stored
        <3>4. last_config[1] < candidate.update_seq /\ (rt = "update" => seq < candidate.update_seq)
            BY <1>p, <3>2 DEF RegionInv
        <3> QED BY <1>p, <2>1, <2>2, <3>1, <3>3, <3>4 DEF RegionInv, Stored
    <2>3. CASE op # "config"
        <3>1. config' = config
            BY <1>3, <2>3 DEF StoreSeq
        <3> QED BY <1>u, <2>1, <2>3, <3>1
    <2> QED BY <2>2, <2>3
<1>4. CASE \E i \in Slots : Ring(i)
    BY <1>4, <1>u DEF Ring, regionVars, rtVars, readerVars, configVars
<1>5. CASE Returns
    <2>1. op # NoCmd /\ stage # "store" /\ todo = {} /\ UNCHANGED <<config, last_config, applied, rt, seq>>
        BY <1>5 DEF Returns, regionVars, rtVars, readerVars
    <2>2. Return(TRUE)
        BY <1>5, <2>1, ReturnEffect DEF Returns
    <2>3. op' = NoCmd /\ stage' = "none" /\ todo' = {}
          /\ active_config' = (IF op = "config" THEN candidate ELSE active_config)
          /\ config_sent' = (config_sent \/ op = "config")
        BY <2>1, <2>2, ReturnEffect
    <2>4. CASE op = "config"
        <3>1. Prev' = candidate
            BY <2>3, <2>4 DEF Prev
        <3> QED BY <2>1, <2>3, <2>4, <3>1 DEF RegionInv, Stored, NoCmd
    <2>5. CASE op # "config"
        <3>1. Prev' = Prev
            BY <2>3, <2>5 DEF Prev
        <3> QED BY <2>1, <2>3, <2>5, <3>1 DEF RegionInv, Stored, NoCmd
    <2> QED BY <2>4, <2>5
<1>6. CASE Discards \/ UNCHANGED vars
    BY <1>6, <1>u DEF Discards, vars, cmdquVars, linuxVars, sendVars, configVars, regionVars, rtVars, readerVars
<1>7. CASE Tick
    BY <1>7, <1>u DEF Tick, cmdquVars, configVars, regionVars, rtVars, readerVars
<1>8. ASSUME NEW i \in Slots, Isr(i), UNCHANGED <<linuxVars, clockVars>> PROVE RegionInv'
    BY <1>8, <1>u DEF Isr, linuxVars, sendVars, configVars, regionVars, rtVars, readerVars
<1>9. ASSUME TaskNext, UNCHANGED <<linuxVars, clockVars>> PROVE RegionInv'
    <2>1. UNCHANGED <<op, stage, todo, candidate, active_config, config_sent>>
        BY <1>9 DEF linuxVars, sendVars, configVars
    <2>2. /\ config' = config
          /\ last_config'[1] <= config.seq
          /\ rt' = "update" => seq' <= config.seq
          /\ \/ rt' = "value"
             \/ applied' = config.value
             \/ UNCHANGED <<last_config, applied>> /\ rt # "value"
        <3>1. CASE PollConfigSeq
            BY <1>p, <3>1 DEF PollConfigSeq, RegionInv, regionVars
        <3>2. CASE PollUpdateSeq
            <4>1. config' = config /\ applied' = applied /\ rt = "update"
                  /\ rt' \in {"value", "idle", "serve"}
                BY <3>2 DEF PollUpdateSeq, regionVars, PollEnd
            <4>2. (last_config' = <<seq, config.update_seq>> /\ rt' = "value") \/ last_config' = last_config
                BY <3>2 DEF PollUpdateSeq
            <4> QED BY <1>p, <4>1, <4>2 DEF RegionInv
        <3>3. CASE PollValue
            <4>1. rt' \in {"idle", "serve"} /\ last_config' = last_config /\ config' = config
                  /\ applied' = config.value
                BY <3>3 DEF PollValue, regionVars, PollEnd
            <4> QED BY <4>1 DEF RegionInv
        <3>4. CASE TaskReceive \/ TaskTimeout \/ PollSkip \/ ServeUnanswered \/ \E i \in Slots : Serve(i)
            BY <3>4 DEF TaskReceive, TaskTimeout, PollSkip, ServeUnanswered, Serve, PollEnd, RegionInv,
                regionVars, readerVars
        <3>5. CASE PollEmergency \/ PollReason
            BY <3>5 DEF PollEmergency, PollReason, RegionInv, regionVars
        <3> QED BY <1>9, <3>1, <3>2, <3>3, <3>4, <3>5 DEF TaskNext
    <2> QED BY <2>1, <2>2 DEF RegionInv, Stored, Prev
<1> QED BY <1>1, <1>2, <1>3, <1>4, <1>5, <1>6, <1>7, <1>8, <1>9, Steps
-----------------------------------------------------------------------------
\* The firmware has read the whole of the config slot: a poll that is under way
\* will find nothing new in it.
Current == last_config = <<config.seq, config.update_seq>>
Caught ==
    /\ Current
    /\ rt = "update" => seq = config.seq
    /\ rt # "value"

\* The firmware polls memory that Linux writes.
Shared == Visible /\ ~fallback_mode

\* How far the firmware is with the command in its hands, and what it has done
\* for the one whose answer is in the mailbox.
AckWait ==
    /\ op = "init" /\ Answered => shm_ready
    /\ Shared =>
        /\ op = "config" /\ Served => /\ rt = "update" => seq = config.seq
                                      /\ rt \in {"value", "serve"} => Current
        /\ op = "config" /\ Answered => Caught
        /\ op = "emergency" /\ Served /\ rt \in {"config", "update", "value", "serve"} => latched
        /\ op = "emergency" /\ Answered => latched

\* What it has done for the commands answered before.
AckDone ==
    /\ linux \notin {"start", "announce", "failed"} /\ ~fallback_mode => shm_ready
    /\ Shared => /\ config_sent /\ op # "config" => Caught
                 /\ linux = "arm" \/ failsafe_sent => latched

AckInv == AckDone /\ (stage = "wait" => AckWait)

\* A poll of a slot that the firmware has read changes nothing.
LEMMA CaughtKept ==
    ASSUME Caught, TaskNext
    PROVE  Caught'
<1>1. UNCHANGED config
    BY DEF TaskNext, TaskReceive, TaskTimeout, PollSkip, PollEmergency, PollReason, PollConfigSeq,
        PollUpdateSeq, PollValue, Serve, ServeUnanswered, regionVars
<1>2. CASE PollUpdateSeq
    <2>1. rt = "update" /\ last_config = <<seq, config.update_seq>>
        BY <1>2 DEF PollUpdateSeq, Caught, Current
    <2>2. ~ConfigIsNew(seq, config.update_seq)
        BY <2>1 DEF ConfigIsNew
    <2>3. rt' \in {"idle", "serve"} /\ last_config' = last_config
        BY <1>2, <2>2 DEF PollUpdateSeq, PollEnd
    <2> QED BY <1>1, <2>3 DEF Caught, Current
<1>3. CASE PollConfigSeq
    BY <1>1, <1>3 DEF PollConfigSeq, Caught, Current
<1>4. CASE PollValue
    BY <1>4 DEF PollValue, Caught
<1>5. CASE TaskReceive \/ TaskTimeout \/ PollSkip \/ ServeUnanswered \/ \E i \in Slots : Serve(i)
    BY <1>1, <1>5 DEF TaskReceive, TaskTimeout, PollSkip, ServeUnanswered, Serve, PollEnd, Caught, Current,
        readerVars
<1>6. CASE PollEmergency \/ PollReason
    BY <1>1, <1>6 DEF PollEmergency, PollReason, Caught, Current
<1> QED BY <1>2, <1>3, <1>4, <1>5, <1>6 DEF TaskNext

\* What is empty, on its way or queued is neither served nor answered.
LEMMA OneState ==
    ASSUME op \in Cmds
    PROVE  /\ Quiet => ~Served /\ ~Answered
           /\ Asked => ~Served /\ ~Answered
           /\ Queued => ~Served /\ ~Answered
           /\ Served => ~Answered
<1>1. NoCmd \notin Cmds
    BY DEF Cmds, NoCmd
<1>2. ASSUME AllFree, NEW c PROVE ~Only(Message("rt", c)) /\ ~Only(Message("linux", c))
    BY <1>2 DEF AllFree, Only, Message, Free
<1>3. ~(Asked /\ Answered)
    BY OnlyIs DEF Asked, Answered, Only, Message, Free
<1> QED BY <1>1, <1>2, <1>3 DEF Quiet, Asked, Queued, Served, Answered

\* The task keeps what was answered before.
LEMMA AckDoneTask ==
    ASSUME TypeOK, EmergencyInv, AckDone, TaskNext, UNCHANGED <<linuxVars, clockVars>>
    PROVE  AckDone'
<1>1. UNCHANGED <<shared_backend, fallback_mode, linux, op, config_sent, failsafe_sent>>
    BY TaskReadsStop DEF linuxVars, sendVars, configVars, rcVars
<1>2. latched => latched'
    BY TaskReadsStop
<1>3. shm_ready => shm_ready'
    BY DEF TaskNext, TaskReceive, TaskTimeout, PollSkip, PollEmergency, PollReason, PollConfigSeq,
        PollUpdateSeq, PollValue, Serve, ServeUnanswered
<1>4. Caught => Caught'
    BY CaughtKept
<1> QED BY <1>1, <1>2, <1>3, <1>4 DEF AckDone, Shared, Visible

\* The task, while it has the command in its hands.
LEMMA AckServed ==
    ASSUME TypeOK, SendInv, EmergencyInv, NumberInv, RegionInv, AckInv, Shared,
           TaskNext, UNCHANGED <<linuxVars, clockVars>>,
           stage = "wait", Served, UNCHANGED <<mailbox, queue, cmd>>
    PROVE  /\ op = "config" => /\ rt' = "update" => seq' = config'.seq
                               /\ rt' \in {"value", "serve"} => Current'
           /\ op = "emergency" /\ rt' \in {"config", "update", "value", "serve"} => latched'
<1>t. /\ UNCHANGED config /\ (latched => latched')
      /\ last_emergency_seq' # 0 /\ rt' # "reason" => latched'
    BY TaskReadsStop DEF regionVars
<1>c. cmd = op /\ op \in Cmds /\ cmd # NoCmd /\ AckWait /\ AckDone
    BY TypeParts DEF Served, SendInv, SendType, AckInv
<1>r. op \in {"config", "emergency"} => shm_ready /\ Visible
    BY <1>c DEF AckDone, SendInv, Shared
<1>1. CASE op = "config"
    <2>1. config.seq # 0
        <3>1. config.seq = candidate.update_seq /\ candidate.update_seq = Prev.update_seq + 1
            BY <1>1 DEF RegionInv, NumberInv
        <3>2. Prev.update_seq \in Nat
            BY TypeParts DEF SendType, Prev, NoConfig
        <3> QED BY <3>1, <3>2
    <2>2. /\ rt = "update" => seq = config.seq
          /\ rt \in {"value", "serve"} => Current
        BY <1>1, <1>c DEF AckWait
    <2>3. CASE PollUpdateSeq
        <3>1. seq = config.seq /\ rt' # "update"
            BY <2>2, <2>3 DEF PollUpdateSeq, PollEnd
        <3>2. <<seq, config.update_seq>> # <<0, 0>>
            BY <2>1, <3>1
        <3>3. last_config' = <<seq, config.update_seq>>
            BY <2>3, <3>2 DEF PollUpdateSeq, ConfigIsNew
        <3> QED BY <1>1, <1>t, <3>1, <3>3 DEF Current
    <2>4. CASE PollConfigSeq
        BY <1>1, <1>t, <2>4 DEF PollConfigSeq
    <2>5. CASE PollValue
        BY <1>1, <1>t, <2>2, <2>5 DEF PollValue, PollEnd, Current
    <2>6. CASE TaskReceive \/ TaskTimeout \/ PollEmergency \/ PollReason
        BY <1>1, <2>6 DEF TaskReceive, TaskTimeout, PollEmergency, PollReason
    <2>7. ~PollSkip
        BY <1>1, <1>r DEF PollSkip
    <2>8. ~ServeUnanswered /\ \A i \in Slots : ~Serve(i)
        BY <1>c DEF ServeUnanswered, Serve
    <2> QED BY <2>3, <2>4, <2>5, <2>6, <2>7, <2>8 DEF TaskNext
<1>2. CASE op = "emergency"
    <2>1. emergency.seq # 0
        BY <1>2 DEF EmergencyInv
    <2>2. CASE PollEmergency
        BY <1>2, <1>t, <2>1, <2>2 DEF PollEmergency
    <2>3. CASE PollReason
        BY <1>2, <1>t, <2>3 DEF PollReason, EmergencyInv
    <2>4. CASE PollConfigSeq \/ PollUpdateSeq \/ PollValue
        BY <1>2, <1>t, <1>c, <2>4 DEF PollConfigSeq, PollUpdateSeq, PollValue, AckWait
    <2>5. CASE TaskReceive \/ TaskTimeout
        BY <1>2, <2>5 DEF TaskReceive, TaskTimeout
    <2>6. ~PollSkip
        BY <1>2, <1>r DEF PollSkip
    <2>7. ~ServeUnanswered /\ \A i \in Slots : ~Serve(i)
        BY <1>c DEF ServeUnanswered, Serve
    <2> QED BY <2>2, <2>3, <2>4, <2>5, <2>6, <2>7 DEF TaskNext
<1> QED BY <1>1, <1>2

\* The task and the interrupt keep AckInv.
LEMMA AckFirmware ==
    ASSUME TypeOK, SendInv, EmergencyInv, TokenInv, NumberInv, RegionInv, AckInv, clean,
           TaskNext \/ \E i \in Slots : Isr(i), UNCHANGED <<linuxVars, clockVars>>
    PROVE  AckInv'
<1>u. UNCHANGED <<op, stage, linux, fallback_mode, config_sent, failsafe_sent, shared_backend>>
    BY TaskReadsStop DEF linuxVars, sendVars, configVars, rcVars, Isr
<1>d. AckDone'
    <2>1. CASE TaskNext
        BY <2>1, AckDoneTask DEF AckInv
    <2>2. ASSUME NEW i \in Slots, Isr(i) PROVE AckDone'
        BY <2>2, <1>u DEF Isr, rtVars, readerVars, regionVars, AckInv, AckDone, Shared, Visible, Caught, Current
    <2> QED BY <2>1, <2>2
<1>w. ASSUME stage = "wait" PROVE AckWait'
    <2>o. op \in Cmds /\ AckWait /\ op' = op /\ (Shared' => Shared)
        BY <1>u, <1>w, TypeParts DEF SendInv, SendType, AckInv, Shared, Visible
    <2>n. ASSUME (~Served /\ ~Answered)' PROVE AckWait'
        BY <2>n DEF AckWait
    <2>s. ASSUME TaskNext, UNCHANGED <<mailbox, queue, cmd>>, Served PROVE AckWait'
        <3>1. ~Answered'
            BY <1>u, <2>o, <2>s, OneState DEF Answered, Only
        <3>2. ASSUME Shared', op = "config"
              PROVE  (rt' = "update" => seq' = config'.seq) /\ (rt' \in {"value", "serve"} => Current')
            BY <1>w, <2>o, <2>s, <3>2, AckServed
        <3>3. ASSUME Shared', op = "emergency", rt' \in {"config", "update", "value", "serve"}
              PROVE  latched'
            BY <1>w, <2>o, <2>s, <3>3, AckServed
        <3> QED BY <2>o, <3>1, <3>2, <3>3 DEF AckWait
    <2>a. ASSUME TaskNext, UNCHANGED <<mailbox, queue, cmd>>, Answered PROVE AckWait'
        <3>1. ~Served'
            BY <1>u, <2>o, <2>a, OneState DEF Served, AllFree
        <3>2. Caught => Caught'
            BY <2>a, CaughtKept
        <3>3. latched => latched'
            BY <2>a, TaskReadsStop
        <3>4. shm_ready => shm_ready'
            BY <2>a DEF TaskNext, TaskReceive, TaskTimeout, PollSkip, PollEmergency,
                PollReason, PollConfigSeq, PollUpdateSeq, PollValue, Serve, ServeUnanswered
        <3> QED BY <2>o, <2>a, <3>1, <3>2, <3>3, <3>4 DEF AckWait
    <2>v. ASSUME NEW i \in Slots, Serve(i), Served PROVE AckWait'
        <3>1. cmd = op /\ rt = "serve" /\ rt' = "idle" /\ shm_ready' = (shm_ready \/ cmd = "init")
              /\ UNCHANGED <<config, last_config, latched>> /\ cmd' = NoCmd
            BY <2>v DEF Serve, Served, regionVars, readerVars
        <3>2. ~Served'
            BY <2>o, <3>1 DEF Served, Cmds, NoCmd
        <3>3. Current => Caught'
            BY <3>1 DEF Caught, Current
        <3> QED BY <2>o, <2>v, <3>1, <3>2, <3>3 DEF AckWait
    <2>r. ASSUME TaskReceive PROVE AckWait'
        <3>1. queue \in Seq(Cmds) /\ queue # <<>> /\ rt' = "poll" /\ cmd' = Head(queue)
            BY <2>r, TypeParts DEF TaskReceive, MailType
        <3>2. Head(queue) \in Cmds
            BY <3>1, HeadTailProperties
        <3>3. ~Answered'
            BY <3>1, <3>2 DEF Answered, Cmds, NoCmd
        <3> QED BY <3>1, <3>3 DEF AckWait
    <2>1. \/ Quiet' \/ Queued'
          \/ Asked /\ UNCHANGED <<mailbox, queue, cmd>>
          \/ TaskReceive
          \/ Served /\ UNCHANGED <<mailbox, queue, cmd>>
          \/ Served /\ \E i \in Slots : Serve(i)
          \/ Answered /\ UNCHANGED <<mailbox, queue, cmd>>
        BY <1>u, <1>w, TokenFirmware DEF TokenInv
    <2>2. Quiet' \/ Queued' => (~Served /\ ~Answered)'
        BY <2>o DEF Quiet, Queued, Served, Answered, AllFree, Only, Message, Free, Cmds, NoCmd
    <2>3. Asked /\ UNCHANGED <<mailbox, queue, cmd>> => (~Served /\ ~Answered)'
        BY <1>u, <2>o, OneState DEF Served, Answered, AllFree, Only
    <2>4. UNCHANGED <<mailbox, queue, cmd>> /\ (Served \/ Answered) => TaskNext
        <3>1. ASSUME NEW i \in Slots, Isr(i) PROVE mailbox' # mailbox
            <4>1. mailbox[i] # Free /\ mailbox'[i] = Free
                BY <3>1, TypeParts DEF Isr, Free, MailType
            <4> QED BY <4>1
        <3> QED BY <3>1
    <2> QED BY <2>n, <2>s, <2>a, <2>v, <2>r, <2>1, <2>2, <2>3, <2>4
<1> QED BY <1>u, <1>d, <1>w DEF AckInv

\* The steps of Linux keep AckInv.
LEMMA AckLinux ==
    ASSUME TypeOK, SendInv, TokenInv, AckInv, clean,
           \/ LoopNext
           \/ \E w \in {"value", "update_seq", "reason"} : StoreWord(w)
           \/ StoreSeq
           \/ \E i \in Slots : Ring(i)
           \/ Returns /\ clean'
    PROVE  AckInv'
<1>p. MailType /\ op \in Cmds \cup {NoCmd} /\ config_sent \in BOOLEAN
    BY TypeParts DEF SendType
<1>c. ASSUME UNCHANGED <<config, last_config, rt, seq>> PROVE Caught => Caught'
    BY <1>c DEF Caught, Current
<1>1. CASE LoopNext
    <2>1. /\ op = NoCmd /\ UNCHANGED <<config, last_config, rt, seq, latched, shm_ready, config_sent>>
          /\ linux # "start" => UNCHANGED <<shared_backend, fallback_mode>>
        BY <1>1, LocalEffect DEF regionVars, rtVars, readerVars
    <2>2. /\ stage' # "wait"
          /\ linux' = "arm" => linux = "arm"
          /\ failsafe_sent' => failsafe_sent
          /\ linux = "start" => linux' \in {"announce", "failed"} \/ fallback_mode'
          /\ linux \notin {"announce", "failed"}
        BY <1>1, LocalSends
    <2>3. linux = "start" => ~config_sent' /\ ~failsafe_sent' /\ linux' # "arm"
        BY <2>1, <2>2 DEF SendInv
    <2>4. Caught => Caught'
        BY <1>c, <2>1
    <2>5. Shared' /\ linux # "start" => Shared
        BY <2>1 DEF Shared, Visible
    <2>6. AckDone'
        <3>1. CASE linux = "start"
            BY <2>2, <2>3, <3>1 DEF AckDone
        <3>2. CASE linux # "start"
            BY <2>1, <2>2, <2>4, <2>5, <3>2 DEF AckDone, AckInv, NoCmd
        <3> QED BY <3>1, <3>2
    <2> QED BY <2>2, <2>6 DEF AckInv
<1>2. ASSUME NEW w, StoreWord(w) PROVE AckInv'
    <2>1. /\ stage = "store" /\ UNCHANGED <<op, stage, linux, shared_backend, fallback_mode, config_sent, failsafe_sent>>
          /\ UNCHANGED <<shm_ready, latched, last_config, rt, seq>>
          /\ op # "config" => config' = config
        BY <1>2, StoreEffect DEF StoreWord, configVars, rcVars, rtVars, readerVars
    <2>2. op # "config" /\ Caught => Caught'
        BY <1>c, <2>1
    <2> QED BY <2>1, <2>2 DEF AckInv, AckDone, Shared, Visible
<1>3. CASE StoreSeq
    <2>1. /\ stage' = "ring" /\ UNCHANGED <<op, linux, shared_backend, fallback_mode, config_sent, failsafe_sent>>
          /\ UNCHANGED <<shm_ready, latched, last_config, rt, seq>>
          /\ op # "config" => config' = config
        BY <1>3 DEF StoreSeq, configVars, rtVars, readerVars
    <2>2. op # "config" /\ Caught => Caught'
        BY <1>c, <2>1
    <2> QED BY <2>1, <2>2 DEF AckInv, AckDone, Shared, Visible
<1>4. ASSUME NEW i \in Slots, Ring(i) PROVE AckInv'
    <2>1. /\ stage = "ring" /\ mailbox' = [mailbox EXCEPT ![i] = Message("rt", op)]
          /\ UNCHANGED <<op, linux, shared_backend, fallback_mode, config_sent, failsafe_sent, queue, cmd>>
          /\ UNCHANGED <<shm_ready, latched, config, last_config, rt, seq>>
        BY <1>4 DEF Ring, configVars, rcVars, regionVars, rtVars, readerVars
    <2>2. op \in Cmds /\ Quiet
        BY <1>p, <2>1 DEF SendInv, TokenInv
    <2>3. Only(Message("rt", op))'
        BY <1>p, <2>1, <2>2, OnlyPut DEF Quiet, Only
    <2>4. Asked' /\ op' \in Cmds
        BY <2>1, <2>2, <2>3 DEF Quiet, Asked
    <2>5. ~Served' /\ ~Answered'
        <3>1. mailbox'[i] = Message("rt", op) /\ cmd' = NoCmd
            BY <1>p, <2>1, <2>2 DEF MailType, Quiet
        <3>2. ~Only(Message("linux", op))'
            BY <2>1, <3>1 DEF Only, Message, Free
        <3> QED BY <2>1, <2>2, <3>1, <3>2 DEF Served, Answered, Cmds, NoCmd
    <2>6. AckWait'
        BY <2>5 DEF AckWait
    <2>7. Caught => Caught'
        BY <1>c, <2>1
    <2> QED BY <2>1, <2>6, <2>7 DEF AckInv, AckDone, Shared, Visible
<1>5. CASE Returns /\ clean'
    <2>1. /\ op \in Cmds /\ op # NoCmd /\ stage # "store"
          /\ UNCHANGED <<config, last_config, rt, seq, latched, shm_ready>>
        BY <1>p, <1>5 DEF Returns, regionVars, rtVars, readerVars
    <2>2. Return(TRUE)
        BY <1>5, <2>1, ReturnEffect DEF Returns
    <2>3. /\ op' = NoCmd /\ stage' = "none" /\ UNCHANGED <<fallback_mode, shared_backend>>
          /\ linux' = IF op = "init" THEN "boot" ELSE After[linux]
          /\ op # "init" => linux \in DOMAIN After
          /\ failsafe_sent' = (failsafe_sent \/ op = "arm")
          /\ config_sent' = (config_sent \/ op = "config")
        BY <2>1, <2>2, ReturnEffect
    <2>4. CASE fallback_mode
        BY <2>3, <2>4 DEF AckInv, AckDone, Shared
    <2>5. ASSUME NEW i \in Slots, mailbox[i] = Message("linux", op), stage = "wait" PROVE AckInv'
        <3>1. Answered
            <4>1. mailbox[i] # Free /\ mailbox[i] # Message("rt", op)
                BY <2>5 DEF Message, Free
            <4> QED BY <2>5, <4>1, OnlyIs DEF TokenInv, Quiet, AllFree, Asked, Queued, Served
        <3>2. AckWait /\ AckDone
            BY <2>5 DEF AckInv
        <3>3. Caught => Caught'
            BY <1>c, <2>1
        <3>4. ~fallback_mode => shm_ready
            BY <2>1, <2>3, <3>1, <3>2 DEF AckWait, AckDone, After
        <3>5. ASSUME Shared' PROVE /\ Caught' \/ ~config_sent'
                                   /\ linux' = "arm" \/ failsafe_sent' => latched'
            <4>1. Shared
                BY <2>3, <3>5 DEF Shared, Visible
            <4>2. Caught' \/ ~config_sent'
                BY <2>3, <3>1, <3>2, <3>3, <4>1 DEF AckWait, AckDone
            <4>3. linux' = "arm" => op = "emergency"
                BY <2>1, <2>3 DEF SendInv, Cmds, After
            <4>4. op = "arm" => linux = "arm"
                BY DEF SendInv
            <4> QED BY <2>1, <2>3, <3>1, <3>2, <4>1, <4>2, <4>3, <4>4 DEF AckWait, AckDone
        <3> QED BY <2>1, <2>3, <3>4, <3>5 DEF AckInv, AckDone
    <2> QED BY <1>5, <2>1, <2>2, <2>4, <2>5, ReturnEffect DEF Returns
<1> QED BY <1>1, <1>2, <1>3, <1>4, <1>5

\* What holds as long as every command was answered in time.
CleanInv == clean => RegionInv /\ AckInv

\* Every step keeps CleanInv.
LEMMA CleanStep ==
    TypeOK /\ SendInv /\ EmergencyInv /\ TokenInv /\ NumberInv /\ CleanInv /\ [Next]_vars => CleanInv'
<1> SUFFICES ASSUME TypeOK, SendInv, EmergencyInv, TokenInv, NumberInv, CleanInv, [Next]_vars, clean'
             PROVE  RegionInv' /\ AckInv'
    BY DEF CleanInv
<1>c. clean
    <2>1. Returns => clean
        BY ReturnEffect DEF Returns
    <2>2. LoopNext => clean
        BY LocalEffect
    <2> QED BY <2>1, <2>2, Steps DEF StoreWord, StoreSeq, Ring, Discards, Tick, linuxVars, vars
<1>i. RegionInv /\ AckInv
    BY <1>c DEF CleanInv
<1>1. RegionInv'
    BY <1>i, RegionStep
<1>2. AckInv'
    <2>1. CASE (TaskNext \/ \E i \in Slots : Isr(i)) /\ UNCHANGED <<linuxVars, clockVars>>
        BY <1>c, <1>i, <2>1, AckFirmware
    <2>2. CASE Tick \/ UNCHANGED vars
        <3>1. /\ UNCHANGED <<shared_backend, fallback_mode, linux, op, stage, config_sent, failsafe_sent>>
              /\ UNCHANGED <<mailbox, queue, cmd, rt, seq, config, last_config, latched, shm_ready>>
            BY <2>2 DEF Tick, vars, cmdquVars, linuxVars, sendVars, configVars, rcVars, regionVars, rtVars, readerVars
        <3>2. (Served' <=> Served) /\ (Answered' <=> Answered)
            BY <3>1 DEF Served, Answered, AllFree, Only
        <3>3. (Caught' <=> Caught) /\ (Shared' <=> Shared) /\ (Current' <=> Current)
            BY <3>1 DEF Caught, Current, Shared, Visible
        <3>4. (AckDone => AckDone') /\ (AckWait => AckWait')
            BY <3>1, <3>2, <3>3 DEF AckDone, AckWait
        <3> QED BY <1>i, <3>1, <3>4 DEF AckInv
    <2>3. ~Discards
        BY <1>c, NoDiscard
    <2> QED BY <1>c, <1>i, <2>1, <2>2, <2>3, AckLinux, Steps
<1> QED BY <1>1, <1>2

\* TokenInv, NumberInv and CleanInv hold in every reachable state.
LEMMA CleanHolds == Spec => [](TokenInv /\ CleanInv)
<1>1. Init => TokenInv /\ NumberInv /\ CleanInv
    <2> SUFFICES ASSUME Init PROVE TokenInv /\ NumberInv /\ CleanInv
        OBVIOUS
    <2>1. TokenInv
        BY DEF Init, CmdquInit, TokenInv, Quiet, AllFree
    <2>2. NumberInv
        BY DEF Init, NumberInv, NoCmd
    <2>3. RegionInv
        BY DEF Init, CmdquInit, RegionInv, Stored, Prev, NoConfig, NoCmd
    <2>4. AckInv
        BY DEF Init, CmdquInit, AckInv, AckDone, Shared, Visible
    <2> QED BY <2>1, <2>2, <2>3, <2>4 DEF CleanInv
<1> QED BY <1>1, SendingHolds, EmergencyHolds, TokenStep, NumberStep, CleanStep, PTL DEF Spec

\* As long as every command was answered in time, an answer means that the
\* firmware has done what was asked: it flies with the config that Linux holds
\* to be in force, and has latched a stop that was sent, wherever its polls
\* fall among the stores of Linux.
THEOREM AckMeansAppliedHolds == Spec => []AckMeansApplied
<1>1. SendInv /\ CleanInv /\ TypeOK => AckMeansApplied
    <2> SUFFICES ASSUME SendInv, CleanInv, TypeOK,
                        clean, op = NoCmd, ~fallback_mode, shared_backend # "Fallback"
                 PROVE  /\ config_sent => applied = active_config.value
                        /\ failsafe_sent => latched
        BY DEF AckMeansApplied
    <2>1. Shared /\ RegionInv /\ AckDone
        BY DEF TypeOK, SendInv, Shared, Visible, CleanInv, AckInv
    <2>2. failsafe_sent => latched
        BY <2>1 DEF AckDone
    <2>3. ASSUME config_sent PROVE applied = active_config.value
        <3>1. Caught
            BY <2>1, <2>3 DEF AckDone, NoCmd
        <3>2. applied = config.value
            BY <2>1, <3>1 DEF RegionInv, Caught, Current, NoCmd
        <3> QED BY <2>1, <2>3, <3>2 DEF RegionInv, Stored, Prev, NoCmd
    <2> QED BY <2>2, <2>3
<1> QED BY <1>1, SendingHolds, CleanHolds, PTL
=============================================================================
