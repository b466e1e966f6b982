------------------------ MODULE RtosTransportProofs ------------------------
(***************************************************************************)
(* Theorems about poll() of RtosCmdquIsrTransport.cpp against a Linux      *)
(* process that stores, crashes and starts again at any point, for every   *)
(* number of publications, crashes and doorbells.                          *)
(***************************************************************************)
EXTENDS RtosTransport, CmdRingProofs

SlotType == [seq : Nat, head : Nat, tail : Nat, crc : {<<>>} \cup (Nat \X Nat)]

\* The Linux process and the region: it has stores to do only while it
\* publishes a slot.
LinuxInv ==
    /\ region \in [Cmds -> SlotType]
    /\ version \in [Cmds -> Nat] /\ linux_seq \in [Cmds -> Nat] /\ since \in Nat
    /\ crashes \in Nat /\ linux \in {"idle", "store"}
    /\ writing \in Cmds \cup {NoSlot} /\ todo \subseteq Fields
    /\ bells \in [Cmds -> Nat]
    /\ linux = "store" <=> writing # NoSlot
    /\ linux = "idle" => todo = {}

\* poll(): which slot it parses in which of its parts, and how far.
LoopInv ==
    /\ poll \in {"idle", "first", "drain", "cmd", "rest"}
    /\ parsing \in Cmds \cup {NoSlot} /\ step \in {"none", "seq", "verify", "take", "copy"}
    /\ got \in SlotType
    /\ left \subseteq Fields
    /\ last_seq \in [Cmds -> Nat] /\ command \in Nat \X Nat
    /\ stop_due \in BOOLEAN /\ overlap \in BOOLEAN /\ overlapped \in BOOLEAN
    /\ step = "none" <=> parsing = NoSlot
    /\ parsing = NoSlot <=> poll \in {"idle", "drain"}
    /\ poll = "first" => parsing = "emergency"
    /\ poll = "rest" => parsing = "config"
    /\ step = "copy" => parsing = "config"
    /\ step \in {"none", "seq", "take"} => left = {}

TransportInv == TypeOK /\ LinuxInv /\ LoopInv
-----------------------------------------------------------------------------
\* A step of the transport is a step of the ring or leaves it alone.
LEMMA TransportStepIsRingStep == [TransportNext]_allVars => [Next]_vars
<1> SUFFICES ASSUME [TransportNext]_allVars PROVE [Next]_vars
    OBVIOUS
<1> USE DEF ringVars, vars
<1>1. CASE \E c \in Cmds : IsrEnter(c)
    BY <1>1 DEF IsrEnter, Next
<1>2. CASE IsrFinish
    BY <1>2 DEF IsrFinish, Next
<1>3. CASE Pop
    BY <1>3 DEF Pop, Next
<1>4. CASE ~(Pop \/ IsrFinish \/ \E c \in Cmds : IsrEnter(c))
    BY <1>4 DEF TransportNext, allVars, LinuxBegin, LinuxStore, LinuxStoreSeq, LinuxCrash, PollStart,
                RingEmpty, ParseSeq, ReadField, ParseTest, ParseTake, ParseCopied, readerVars,
                outsideParse
<1> QED BY <1>1, <1>2, <1>3, <1>4

\* What the ring is proved to be, it also is inside the transport.
LEMMA TransportIsRing == TransportSpec => Spec
<1>1. TransportInit => Init
    BY DEF TransportInit
<1> QED BY <1>1, TransportStepIsRingStep, PTL DEF TransportSpec, Spec

\* The tests of onCmdFromMailbox and popCommand do not go stale while Linux
\* publishes, crashes and restarts and poll() parses between its pops.
THEOREM TransportNoStaleIndex == TransportSpec => []NoStaleIndex
BY TransportIsRing, NoStaleIndexHolds, PTL

\* poll() gets the doorbells in the order they were accepted, and none twice.
THEOREM TransportRingIsFifo == TransportSpec => RingIsFifo
BY TransportIsRing, RingIsFifoHolds, PTL
-----------------------------------------------------------------------------
\* What publishSlot stores fits its field.
LEMMA StoredType ==
    ASSUME NEW s \in Cmds, version \in [Cmds -> Nat]
    PROVE  /\ Stored(s, "head") \in Nat /\ Stored(s, "tail") \in Nat
           /\ Stored(s, "crc") \in Nat \X Nat
           /\ Stored(s, "crc") = <<Stored(s, "head"), Stored(s, "head")>>
           /\ Stored(s, "head") = Stored(s, "tail")
<1>1. Word(s, version[s]) \in Nat
    BY DEF Word
<1> QED BY <1>1 DEF Stored

\* A store keeps the region's type.
LEMMA StoreType ==
    ASSUME TransportInv, NEW f \in Fields, LinuxStore(f)
    PROVE  /\ writing \in Cmds
           /\ region' \in [Cmds -> SlotType]
           /\ \A s \in Cmds : s # writing => region'[s] = region[s]
           /\ region'[writing] = [region[writing] EXCEPT ![f] = Stored(writing, f)]
           /\ region'[writing].seq = region[writing].seq
<1>1. writing \in Cmds /\ region \in [Cmds -> SlotType] /\ version \in [Cmds -> Nat]
    BY DEF TransportInv, LinuxInv, LinuxStore
<1>2. region[writing] \in SlotType
    BY <1>1
<1>3. [region[writing] EXCEPT ![f] = Stored(writing, f)] \in SlotType
    BY <1>1, <1>2, StoredType DEF Fields, SlotType
<1>4. [region[writing] EXCEPT ![f] = Stored(writing, f)].seq = region[writing].seq
    BY <1>2 DEF Fields, SlotType
<1> QED BY <1>1, <1>2, <1>3, <1>4 DEF LinuxStore

\* Whether the compiler reads seq again or not, it has a number.
LEMMA SeqReadsType ==
    ASSUME TransportInv, parsing \in Cmds
    PROVE  SeqReads \subseteq Nat
<1>1. got \in SlotType /\ region[parsing] \in SlotType
    BY DEF TransportInv, LinuxInv, LoopInv
<1>2. got.seq \in Nat /\ region[parsing].seq \in Nat
    BY <1>1 DEF SlotType
<1> QED BY <1>2 DEF SeqReads

\* A parse starts at the seq of one of the slots.
LEMMA BeginParseKeeps ==
    ASSUME NEW s \in Cmds, BeginParse(s)
    PROVE  /\ parsing' \in Cmds /\ parsing' # NoSlot /\ parsing' = s /\ step' = "seq" /\ left' = {}
           /\ got' \in SlotType /\ overlap' = FALSE
BY RtosTransportAssumption DEF BeginParse, EmptySlot, SlotType, NoSlot

\* A parse that ends hands over to the next part of poll().
LEMMA EndParseKeeps ==
    ASSUME TransportInv, parsing # NoSlot, NEW found \in BOOLEAN, EndParse(found)
    PROVE  /\ parsing' = NoSlot /\ step' = "none" /\ left' = {} /\ got' \in SlotType
           /\ poll' \in {"idle", "drain"}
           /\ poll' = "drain" => ~(parsing = "emergency" /\ found)
           /\ stop_due' \in BOOLEAN /\ overlap' = FALSE
           /\ stop_due' => stop_due /\ poll' # "idle"
<1>1. poll \in {"first", "cmd", "rest"}
    BY DEF TransportInv, LoopInv
<1>2. ~(poll = "rest" /\ parsing = "emergency")
    BY DEF TransportInv, LoopInv
<1>3. poll' \in {"idle", "drain"} /\ (poll' = "drain" => ~(parsing = "emergency" /\ found))
    BY <1>1, <1>2 DEF EndParse, PollAfter
<1> QED BY <1>3 DEF EndParse, EmptySlot, SlotType, NoSlot, TransportInv, LoopInv

\* The types and the control state of the transport are kept by every step.
LEMMA TransportStep == RingInv /\ TransportInv /\ [TransportNext]_allVars => TransportInv'
<1> SUFFICES ASSUME RingInv, TransportInv, [TransportNext]_allVars PROVE TransportInv'
    OBVIOUS
<1>0. TypeOK'
    BY RingStep, TransportStepIsRingStep DEF RingInv
<1>c. Cmds = {"emergency", "config"} /\ NoSlot \notin Cmds
    BY RtosTransportAssumption DEF NoSlot
<1>i. LinuxInv /\ LoopInv
    BY DEF TransportInv
<1>l. ASSUME UNCHANGED <<region, linuxVars, bells>> PROVE LinuxInv'
    BY <1>i, <1>l DEF LinuxInv, linuxVars
<1>p. ASSUME UNCHANGED <<poll, parseVars, stop_due, overlap>> PROVE LoopInv'
    BY <1>i, <1>p DEF LoopInv, parseVars
<1>o. ASSUME UNCHANGED <<poll, parseVars>>, stop_due' \in BOOLEAN, overlap' \in BOOLEAN PROVE LoopInv'
    BY <1>i, <1>o DEF LoopInv, parseVars
<1>1. ASSUME NEW s \in Cmds, LinuxBegin(s) PROVE TransportInv'
    <2>1. LoopInv'
        BY <1>1, <1>p DEF LinuxBegin, readerVars
    <2>2. LinuxInv'
        <3>1. version' \in [Cmds -> Nat] /\ linux_seq' \in [Cmds -> Nat]
            BY <1>1, <1>i DEF LinuxBegin, NextNumber, SameNumber, LinuxInv
        <3>2. since' \in Nat
            BY <1>1, <1>i, <3>1 DEF LinuxBegin, LinuxInv
        <3> QED BY <1>1, <1>c, <1>i, <3>1, <3>2 DEF LinuxBegin, LinuxInv
    <2> QED BY <1>0, <2>1, <2>2 DEF TransportInv
<1>2. ASSUME NEW f \in Fields, LinuxStore(f) PROVE TransportInv'
    <2>1. LoopInv'
        BY <1>2, <1>i, <1>o DEF LinuxStore, readerVars, LoopInv
    <2>2. LinuxInv'
        BY <1>2, <1>c, <1>i, StoreType DEF LinuxStore, LinuxInv
    <2> QED BY <1>0, <2>1, <2>2 DEF TransportInv
<1>3. CASE LinuxStoreSeq
    <2>1. writing \in Cmds
        BY <1>3, <1>i DEF LinuxStoreSeq, LinuxInv
    <2>2. region' \in [Cmds -> SlotType]
        BY <1>3, <1>i, <2>1 DEF LinuxStoreSeq, LinuxInv, SlotType
    <2>3. LoopInv'
        BY <1>3, <1>i, <1>o DEF LinuxStoreSeq, LoopInv
    <2>4. LinuxInv'
        BY <1>3, <1>c, <1>i, <2>1, <2>2 DEF LinuxStoreSeq, LinuxInv
    <2> QED BY <1>0, <2>3, <2>4 DEF TransportInv
<1>4. CASE LinuxCrash
    <2>1. LoopInv'
        BY <1>4, <1>p DEF LinuxCrash, readerVars
    <2>2. LinuxInv'
        BY <1>4, <1>c, <1>i DEF LinuxCrash, LinuxInv
    <2> QED BY <1>0, <2>1, <2>2 DEF TransportInv
<1>5. ASSUME NEW c \in Cmds, IsrEnter(c) PROVE TransportInv'
    <2>1. LoopInv'
        BY <1>5, <1>p DEF IsrEnter, slotVars
    <2>2. bells' \in [Cmds -> Nat]
        BY <1>5, <1>i DEF IsrEnter, LinuxInv
    <2>3. LinuxInv'
        BY <1>5, <1>i, <2>2 DEF IsrEnter, slotVars, linuxVars, LinuxInv
    <2> QED BY <1>0, <2>1, <2>3 DEF TransportInv
<1>6. CASE IsrFinish
    BY <1>0, <1>6, <1>l, <1>p DEF IsrFinish, slotVars, TransportInv
<1>7. CASE PollStart
    <2>1. BeginParse("emergency")
        BY <1>7 DEF PollStart
    <2>2. LoopInv'
        BY <1>7, <1>c, <1>i, <2>1, BeginParseKeeps DEF PollStart, LoopInv
    <2> QED BY <1>0, <1>7, <1>l, <2>2 DEF PollStart, otherVars, TransportInv
<1>8. CASE Pop
    <2>1. CASE TaskRelease /\ poll' = "cmd" /\ BeginParse(out)
        <3>1. out \in Cmds
            BY <2>1, ReleaseTakes
        <3>2. /\ parsing' \in Cmds /\ parsing' # NoSlot /\ step' = "seq" /\ left' = {}
              /\ got' \in SlotType /\ overlap' = FALSE
            BY <2>1, <3>1, BeginParseKeeps
        <3>3. LoopInv'
            BY <1>8, <1>c, <1>i, <2>1, <3>2 DEF Pop, LoopInv
        <3> QED BY <1>0, <1>8, <1>l, <3>3 DEF Pop, otherVars, TransportInv
    <2>2. CASE UNCHANGED <<poll, parsing, step, got, left, overlap>>
        BY <1>0, <1>8, <1>l, <1>p, <2>2 DEF Pop, otherVars, parseVars, TransportInv
    <2> QED BY <1>8, <2>1, <2>2 DEF Pop
<1>9. CASE RingEmpty
    <2>1. BeginParse("config")
        BY <1>9 DEF RingEmpty
    <2>2. LoopInv'
        BY <1>9, <1>c, <1>i, <2>1, BeginParseKeeps DEF RingEmpty, LoopInv
    <2> QED BY <1>0, <1>9, <1>l, <2>2 DEF RingEmpty, otherVars, TransportInv
<1>e. ASSUME NEW found \in BOOLEAN, EndParse(found), parsing # NoSlot,
             last_seq' \in [Cmds -> Nat], command' \in Nat \X Nat, overlapped' \in BOOLEAN
      PROVE  LoopInv'
    BY <1>c, <1>e, EndParseKeeps DEF LoopInv
<1>10. CASE ParseSeq
    <2>1. parsing \in Cmds
        BY <1>10, <1>i, <1>c DEF ParseSeq, LoopInv
    <2>2. LoopInv'
        <3>1. CASE EndParse(FALSE)
            BY <1>10, <1>c, <1>e, <1>i, <2>1, <3>1 DEF ParseSeq, LoopInv
        <3>2. CASE ~EndParse(FALSE)
            <4>1. got' \in SlotType
                <5>1. region[parsing] \in SlotType /\ got \in SlotType
                    BY <1>i, <2>1 DEF LoopInv, LinuxInv
                <5>2. got' = [got EXCEPT !.seq = region[parsing].seq]
                    BY <1>10, <3>2 DEF ParseSeq
                <5> QED BY <5>1, <5>2 DEF SlotType
            <4> QED BY <1>10, <1>c, <1>i, <2>1, <3>2, <4>1 DEF ParseSeq, GoOn, LoopInv
        <3> QED BY <3>1, <3>2
    <2> QED BY <1>0, <1>10, <1>l, <2>2 DEF ParseSeq, outsideParse, otherVars, TransportInv
<1>11. ASSUME NEW f \in Fields, ReadField(f) PROVE TransportInv'
    <2>1. parsing \in Cmds /\ step \in {"verify", "copy"}
        BY <1>11, <1>c, <1>i DEF ReadField, LoopInv
    <2>2. got' \in SlotType
        BY <1>11, <1>i, <2>1 DEF ReadField, Fields, SlotType, LoopInv, LinuxInv
    <2>3. LoopInv'
        BY <1>11, <1>c, <1>i, <2>1, <2>2 DEF ReadField, GoOn, LoopInv
    <2> QED BY <1>0, <1>11, <1>l, <2>3 DEF ReadField, outsideParse, otherVars, TransportInv
<1>12. CASE ParseTest
    <2>1. parsing \in Cmds
        BY <1>12, <1>c, <1>i DEF ParseTest, LoopInv
    <2>2. LoopInv'
        <3>1. CASE EndParse(FALSE)
            BY <1>12, <1>c, <1>e, <1>i, <2>1, <3>1 DEF ParseTest, LoopInv
        <3>2. CASE ~EndParse(FALSE)
            <4>1. PICK seq \in SeqReads : step' = "take" /\ got' = [EmptySlot EXCEPT !.seq = seq]
                BY <1>12, <3>2 DEF ParseTest
            <4>2. seq \in Nat
                BY <2>1, <4>1, SeqReadsType
            <4>3. got' \in SlotType
                BY <4>1, <4>2 DEF EmptySlot, SlotType
            <4> QED BY <1>12, <1>c, <1>i, <2>1, <3>2, <4>1, <4>3 DEF ParseTest, GoOn, LoopInv
        <3> QED BY <3>1, <3>2
    <2> QED BY <1>0, <1>12, <1>l, <2>2 DEF ParseTest, outsideParse, otherVars, TransportInv
<1>13. CASE ParseTake
    <2>1. parsing \in Cmds
        BY <1>13, <1>c, <1>i DEF ParseTake, LoopInv
    <2>2. last_seq' \in [Cmds -> Nat]
        <3>1. PICK seq \in SeqReads : last_seq' = [last_seq EXCEPT ![parsing] = seq]
            BY <1>13 DEF ParseTake
        <3>2. seq \in Nat
            BY <2>1, <3>1, SeqReadsType
        <3> QED BY <1>i, <3>1, <3>2 DEF LoopInv
    <2>3. LoopInv'
        <3>1. CASE parsing = "emergency"
            BY <1>13, <1>c, <1>e, <1>i, <2>1, <2>2, <3>1 DEF ParseTake, LoopInv
        <3>2. CASE parsing # "emergency"
            BY <1>13, <1>c, <1>i, <2>1, <2>2, <3>2 DEF ParseTake, GoOn, Fields, LoopInv
        <3> QED BY <3>1, <3>2
    <2> QED BY <1>0, <1>13, <1>l, <2>3 DEF ParseTake, outsideParse, otherVars, TransportInv
<1>14. CASE ParseCopied
    <2>1. parsing \in Cmds
        BY <1>14, <1>c, <1>i DEF ParseCopied, LoopInv
    <2>2. EndParse(TRUE) /\ command' \in Nat \X Nat /\ overlapped' \in BOOLEAN
          /\ last_seq' \in [Cmds -> Nat]
        BY <1>14, <1>i DEF ParseCopied, LoopInv, SlotType
    <2>3. LoopInv'
        BY <1>c, <1>e, <2>1, <2>2
    <2> QED BY <1>0, <1>14, <1>l, <2>3 DEF ParseCopied, outsideParse, otherVars, TransportInv
<1>15. CASE UNCHANGED allVars
    BY <1>0, <1>15, <1>l, <1>p DEF allVars, linuxVars, parseVars, TransportInv
<1> QED BY <1>1, <1>2, <1>3, <1>4, <1>5, <1>6, <1>7, <1>8, <1>9, <1>10, <1>11, <1>12, <1>13,
           <1>14, <1>15 DEF TransportNext

\* The transport starts with a cleared region and an idle loop.
LEMMA TransportInitInv == TransportInit => RingInv /\ TransportInv
<1> SUFFICES ASSUME TransportInit PROVE RingInv /\ TransportInv
    OBVIOUS
<1>1. RingInv /\ TypeOK
    BY RingInit DEF TransportInit, RingInv
<1>2. EmptySlot \in SlotType
    BY DEF EmptySlot, SlotType
<1>3. LinuxInv
    BY <1>2, RtosTransportAssumption DEF TransportInit, LinuxInv, NoSlot
<1>4. LoopInv
    BY <1>2, RtosTransportAssumption DEF TransportInit, LoopInv, NoSlot
<1> QED BY <1>1, <1>3, <1>4 DEF TransportInv

\* Types and control state are invariants of the transport.
LEMMA TransportInvHolds == TransportSpec => [](RingInv /\ TransportInv)
<1>1. RingInv /\ [TransportNext]_allVars => RingInv'
    BY TransportStepIsRingStep, RingStep
<1> QED BY <1>1, TransportInitInv, TransportStep, PTL DEF TransportSpec

\* Slots, sequence counters, doorbells and the progress of poll() keep their
\* types through torn stores, crashes and restarts.
THEOREM TransportTypeCorrect == TransportSpec => []TransportTypeOK
<1>1. TransportInv => TransportTypeOK
    BY DEF TransportInv, LinuxInv, LoopInv, TransportTypeOK, SlotType
<1> QED BY <1>1, TransportInvHolds, PTL
-----------------------------------------------------------------------------
\* A slot's CRC was computed from two equal words.  As long as no store has
\* hit the slot since its parse began, what was read is what the slot holds,
\* and once the CRC has been checked its two words are equal.
TornInv ==
    /\ \A s \in Cmds : \A a, b \in Nat : region[s].crc = <<a, b>> => a = b
    /\ ~overlap /\ step \in {"verify", "copy"} =>
          \A f \in (IF step = "copy" THEN {"head", "tail"} ELSE Fields) \ left :
              got[f] = region[parsing][f]
    /\ ~overlap /\ step \in {"take", "copy"} => region[parsing].head = region[parsing].tail
    /\ TornOnlyByOverlap


\* The two words a parse may take without a store in between are equal.
LEMMA TornStep == RingInv /\ TransportInv /\ TornInv /\ [TransportNext]_allVars => TornInv'
<1> SUFFICES ASSUME RingInv, TransportInv, TornInv, [TransportNext]_allVars PROVE TornInv'
    OBVIOUS
<1>i. LinuxInv /\ LoopInv
    BY DEF TransportInv
<1>c. NoSlot \notin Cmds
    BY RtosTransportAssumption DEF NoSlot
<1>u. ASSUME UNCHANGED <<region, step, left, got, parsing, overlap, command, overlapped>>
      PROVE  TornInv'
    BY <1>u DEF TornInv, TornOnlyByOverlap
<1>e. ASSUME UNCHANGED <<region, command, overlapped>>, step' \in {"none", "seq"} PROVE TornInv'
    BY <1>e DEF TornInv, TornOnlyByOverlap
<1>1. CASE \E s \in Cmds : LinuxBegin(s)
    BY <1>1, <1>u DEF LinuxBegin, readerVars, parseVars
<1>2. ASSUME NEW f \in Fields, LinuxStore(f) PROVE TornInv'
    <2>1. \A s \in Cmds : \A a, b \in Nat : region'[s].crc = <<a, b>> => a = b
        <3>1. writing \in Cmds /\ version \in [Cmds -> Nat] /\ region[writing] \in SlotType
            BY <1>2, <1>i, StoreType DEF LinuxInv
        <3>2. region'[writing].crc \in {region[writing].crc, Stored(writing, "crc")}
            BY <1>2, <3>1, StoreType DEF Fields, SlotType
        <3>3. \A a, b \in Nat : Stored(writing, "crc") = <<a, b>> => a = b
            BY <3>1, StoredType
        <3>4. ASSUME NEW s \in Cmds, NEW a \in Nat, NEW b \in Nat, region'[s].crc = <<a, b>>
              PROVE  a = b
            <4>1. CASE s = writing
                BY <3>1, <3>2, <3>3, <3>4, <4>1 DEF TornInv
            <4>2. CASE s # writing
                <5>1. region[s].crc = <<a, b>>
                    BY <1>2, <3>4, <4>2, StoreType
                <5> QED BY <5>1 DEF TornInv
            <4> QED BY <4>1, <4>2
        <3> QED BY <3>4
    <2>2. ~overlap' /\ step # "none" => region'[parsing] = region[parsing]
        BY <1>2, <1>i, StoreType DEF LinuxStore, LoopInv
    <2> QED BY <1>2, <2>1, <2>2 DEF LinuxStore, readerVars, parseVars, TornInv, TornOnlyByOverlap
<1>3. CASE LinuxStoreSeq
    <2>1. /\ writing \in Cmds /\ writing # NoSlot /\ region[writing] \in SlotType
          /\ linux_seq[writing] \in Nat
        BY <1>3, <1>i DEF LinuxStoreSeq, LinuxInv
    <2>2. \A s \in Cmds : region'[s].crc = region[s].crc
        BY <1>3, <1>i, <2>1 DEF LinuxStoreSeq, LinuxInv, SlotType
    <2>3. ~overlap' /\ step # "none" => region'[parsing] = region[parsing]
        BY <1>3, <1>i, <2>1 DEF LinuxStoreSeq, LinuxInv, LoopInv
    <2>4. ~overlap' => ~overlap
        BY <1>3 DEF LinuxStoreSeq
    <2> QED BY <1>3, <2>2, <2>3, <2>4 DEF LinuxStoreSeq, parseVars, TornInv, TornOnlyByOverlap
<1>4. CASE LinuxCrash
    BY <1>4, <1>u DEF LinuxCrash, readerVars, parseVars
<1>5. CASE (\E c \in Cmds : IsrEnter(c)) \/ IsrFinish
    BY <1>5, <1>u DEF IsrEnter, IsrFinish, slotVars, parseVars
<1>6. CASE PollStart \/ RingEmpty
    BY <1>6, <1>e DEF PollStart, RingEmpty, BeginParse, otherVars
<1>7. CASE Pop
    BY <1>7, <1>e, <1>u DEF Pop, BeginParse, otherVars
<1>8. CASE ParseSeq
    <2>1. CASE EndParse(FALSE)
        BY <1>8, <1>e, <2>1 DEF ParseSeq, EndParse, outsideParse, otherVars
    <2>2. CASE ~EndParse(FALSE)
        BY <1>8, <2>2 DEF ParseSeq, outsideParse, otherVars, TornInv, TornOnlyByOverlap
    <2> QED BY <2>1, <2>2
<1>9. ASSUME NEW f \in Fields, ReadField(f) PROVE TornInv'
    <2>1. step \in {"verify", "copy"} /\ got \in SlotType
        BY <1>9, <1>i DEF ReadField, LoopInv
    <2>2. got'[f] = region[parsing][f] /\ (\A g \in Fields : g # f => got'[g] = got[g])
        BY <1>9, <2>1 DEF ReadField, Fields, SlotType
    <2> QED BY <1>9, <2>1, <2>2
            DEF ReadField, GoOn, outsideParse, otherVars, Fields, TornInv, TornOnlyByOverlap
<1>10. CASE ParseTest
    <2>1. CASE EndParse(FALSE)
        BY <1>10, <1>e, <2>1 DEF ParseTest, EndParse, outsideParse, otherVars
    <2>2. CASE ~EndParse(FALSE)
        <3>1. /\ Verified /\ step = "verify" /\ left = {} /\ step' = "take"
              /\ UNCHANGED <<parsing, overlap, region, command, overlapped>>
            BY <1>10, <2>2 DEF ParseTest, GoOn, outsideParse, otherVars
        <3>2. ~overlap => region[parsing].head = region[parsing].tail
            <4> SUFFICES ASSUME ~overlap PROVE region[parsing].head = region[parsing].tail
                OBVIOUS
            <4>1. parsing \in Cmds /\ region[parsing] \in SlotType
                BY <1>c, <1>i, <3>1 DEF LoopInv, LinuxInv
            <4>2. /\ got.head = region[parsing].head /\ got.tail = region[parsing].tail
                  /\ got.crc = region[parsing].crc
                BY <3>1 DEF TornInv, Fields
            <4>3. region[parsing].crc = <<region[parsing].head, region[parsing].tail>>
                BY <3>1, <4>2 DEF Verified
            <4> QED BY <4>1, <4>3 DEF TornInv, SlotType
        <3> QED BY <3>1, <3>2 DEF TornInv, TornOnlyByOverlap
    <2> QED BY <2>1, <2>2
<1>11. CASE ParseTake
    <2>1. CASE parsing = "emergency"
        BY <1>11, <1>e, <2>1 DEF ParseTake, EndParse, outsideParse, otherVars
    <2>2. CASE parsing # "emergency"
        BY <1>11, <2>2 DEF ParseTake, GoOn, outsideParse, otherVars, TornInv, TornOnlyByOverlap
    <2> QED BY <2>1, <2>2
<1>12. CASE ParseCopied
    <2>1. step' = "none" /\ UNCHANGED region
        BY <1>12 DEF ParseCopied, EndParse, outsideParse, otherVars
    <2>2. TornOnlyByOverlap'
        BY <1>12 DEF ParseCopied, TornOnlyByOverlap, TornInv
    <2> QED BY <2>1, <2>2 DEF TornInv
<1>13. CASE UNCHANGED allVars
    BY <1>13, <1>u DEF allVars, parseVars
<1> QED BY <1>1, <1>2, <1>3, <1>4, <1>5, <1>6, <1>7, <1>8, <1>9, <1>10, <1>11, <1>12, <1>13
        DEF TransportNext

\* parseConfigSlot copies the payload after it has checked the CRC and does
\* not check again, yet a payload that mixes two publications is only ever
\* taken when Linux was storing during that parse: what a crash leaves
\* half-written is refused, in every life of Linux.
THEOREM TornOnlyByOverlapHolds == TransportSpec => []TornOnlyByOverlap
<1>1. TransportInit => TornInv
    <2> SUFFICES ASSUME TransportInit PROVE TornInv
        OBVIOUS
    <2>1. \A s \in Cmds : \A a, b \in Nat : region[s].crc # <<a, b>>
        BY DEF TransportInit, EmptySlot
    <2> QED BY <2>1 DEF TransportInit, TornInv, TornOnlyByOverlap
<1>2. TornInv => TornOnlyByOverlap
    BY DEF TornInv
<1> QED BY <1>1, <1>2, TornStep, TransportInvHolds, PTL DEF TransportSpec
-----------------------------------------------------------------------------
\* Once a stop has been published its slot holds a complete payload for ever,
\* because every stop stores the same words; and a stop that is due is newer
\* than the one recorded, by both readings of its seq.
StopInv ==
    LET slot == region["emergency"] IN
    /\ "head" \notin todo /\ writing = "emergency" => slot.head = 1
    /\ "tail" \notin todo /\ writing = "emergency" => slot.tail = 1
    /\ "crc" \notin todo /\ writing = "emergency" => slot.crc = <<1, 1>>
    /\ slot.seq # 0 => slot.head = 1 /\ slot.tail = 1 /\ slot.crc = <<1, 1>>
    /\ stop_due => poll = "first" /\ slot.seq > last_seq["emergency"]
    /\ stop_due /\ step \in {"verify", "take"} => got.seq > last_seq["emergency"]
    /\ stop_due /\ step = "verify" => /\ "head" \notin left => got.head = 1
                                      /\ "tail" \notin left => got.tail = 1
                                      /\ "crc" \notin left => got.crc = <<1, 1>>


\* Every step keeps a stop that is due complete and in sight of the parse.
LEMMA StopStep == RingInv /\ TransportInv /\ StopInv /\ [TransportNext]_allVars => StopInv'
<1> SUFFICES ASSUME RingInv, TransportInv, StopInv, [TransportNext]_allVars PROVE StopInv'
    OBVIOUS
<1>i. LinuxInv /\ LoopInv
    BY DEF TransportInv
<1>c. Cmds = {"emergency", "config"} /\ NoSlot \notin Cmds
    BY RtosTransportAssumption DEF NoSlot
<1>r. region["emergency"] \in SlotType /\ last_seq["emergency"] \in Nat
    BY <1>c, <1>i DEF LinuxInv, LoopInv
<1>p. stop_due => poll = "first" /\ parsing = "emergency"
    BY <1>i DEF StopInv, LoopInv
<1>u. ASSUME UNCHANGED <<region, todo, writing, poll, step, left, got, last_seq, stop_due>>
      PROVE  StopInv'
    BY <1>u DEF StopInv
<1>f. ASSUME UNCHANGED <<region, todo, writing>>, ~stop_due' PROVE StopInv'
    BY <1>f DEF StopInv
<1>1. ASSUME NEW s \in Cmds, LinuxBegin(s) PROVE StopInv'
    BY <1>1 DEF LinuxBegin, readerVars, parseVars, StopInv, Fields
<1>2. ASSUME NEW f \in Fields, LinuxStore(f) PROVE StopInv'
    <2>1. CASE writing = "emergency"
        <3>1. /\ Stored(writing, "head") = 1 /\ Stored(writing, "tail") = 1
              /\ Stored(writing, "crc") = <<1, 1>>
            BY <2>1 DEF Stored, Word
        <3>2. region'["emergency"] = [region["emergency"] EXCEPT ![f] = Stored(writing, f)]
            BY <1>2, <2>1, StoreType
        <3>3. LET new == region'["emergency"]
                  old == region["emergency"]
              IN /\ new.seq = old.seq
                 /\ new.head = IF f = "head" THEN 1 ELSE old.head
                 /\ new.tail = IF f = "tail" THEN 1 ELSE old.tail
                 /\ new.crc = IF f = "crc" THEN <<1, 1>> ELSE old.crc
            BY <1>r, <3>1, <3>2 DEF Fields, SlotType
        <3> QED BY <1>2, <3>3 DEF LinuxStore, readerVars, parseVars, Fields, StopInv
    <2>2. CASE writing # "emergency"
        <3>1. region'["emergency"] = region["emergency"]
            BY <1>2, <1>c, <2>2, StoreType
        <3> QED BY <1>2, <2>2, <3>1 DEF LinuxStore, readerVars, parseVars, StopInv
    <2> QED BY <2>1, <2>2
<1>3. CASE LinuxStoreSeq
    <2>1. writing' = NoSlot /\ NoSlot # "emergency" /\ todo = {}
        BY <1>3, <1>c DEF LinuxStoreSeq
    <2>2. CASE writing = "emergency"
        <3>1. LET new == region'["emergency"]
                  old == region["emergency"]
              IN new.head = old.head /\ new.tail = old.tail /\ new.crc = old.crc
            BY <1>3, <1>c, <1>i, <1>r, <2>2 DEF LinuxStoreSeq, LinuxInv, SlotType
        <3>2. region["emergency"].head = 1 /\ region["emergency"].tail = 1
              /\ region["emergency"].crc = <<1, 1>>
            BY <2>1, <2>2 DEF StopInv
        <3> QED BY <1>3, <2>1, <3>1, <3>2 DEF LinuxStoreSeq, parseVars, StopInv
    <2>3. CASE writing # "emergency"
        <3>1. region'["emergency"] = region["emergency"]
            BY <1>3, <1>c, <1>i, <2>3 DEF LinuxStoreSeq, LinuxInv
        <3> QED BY <1>3, <2>1, <3>1 DEF LinuxStoreSeq, parseVars, StopInv
    <2> QED BY <2>2, <2>3
<1>4. CASE LinuxCrash
    BY <1>4, <1>c DEF LinuxCrash, readerVars, parseVars, StopInv
<1>5. CASE (\E c \in Cmds : IsrEnter(c)) \/ IsrFinish
    BY <1>5, <1>u DEF IsrEnter, IsrFinish, slotVars, linuxVars, parseVars
<1>6. CASE PollStart
    BY <1>6 DEF PollStart, BeginParse, otherVars, linuxVars, StopInv
<1>7. CASE Pop \/ RingEmpty
    <2>1. ~stop_due' /\ UNCHANGED <<region, todo, writing>>
        BY <1>7, <1>p DEF Pop, RingEmpty, otherVars, linuxVars
    <2> QED BY <1>f, <2>1
<1>e. ASSUME NEW found \in BOOLEAN, EndParse(found), parsing # NoSlot,
             UNCHANGED <<region, todo, writing>>,
             stop_due => found
      PROVE  StopInv'
    <2>1. ~stop_due'
        BY <1>e, <1>p, EndParseKeeps
    <2> QED BY <1>e, <1>f, <2>1
<1>8. CASE ParseSeq
    <2>1. parsing # NoSlot /\ UNCHANGED <<region, todo, writing>>
        BY <1>8, <1>i DEF ParseSeq, LoopInv, outsideParse, otherVars, linuxVars
    <2>2. CASE region[parsing].seq = 0
        <3>1. ~stop_due
            BY <1>p, <1>r, <2>2 DEF StopInv, SlotType
        <3> QED BY <1>8, <1>e, <2>1, <2>2, <3>1 DEF ParseSeq
    <2>3. CASE region[parsing].seq # 0
        <3>1. got \in SlotType
            BY <1>i DEF LoopInv
        <3>2. got'.seq = region[parsing].seq
            BY <1>8, <2>3, <3>1 DEF ParseSeq, SlotType
        <3>3. /\ step' = "verify" /\ {"head", "tail", "crc"} \subseteq left'
              /\ UNCHANGED <<poll, stop_due, last_seq>>
            BY <1>8, <2>3 DEF ParseSeq, GoOn, Fields
        <3> QED BY <1>p, <2>1, <3>2, <3>3 DEF StopInv
    <2> QED BY <2>2, <2>3
<1>9. ASSUME NEW f \in Fields, ReadField(f) PROVE StopInv'
    <2>1. got \in SlotType /\ step \in {"verify", "copy"}
        BY <1>9, <1>i DEF ReadField, LoopInv
    <2>2. /\ got'.seq = got.seq
          /\ got'.head = IF f = "head" THEN region[parsing].head ELSE got.head
          /\ got'.tail = IF f = "tail" THEN region[parsing].tail ELSE got.tail
          /\ got'.crc = IF f = "crc" THEN region[parsing].crc ELSE got.crc
        BY <1>9, <2>1 DEF ReadField, Fields, SlotType
    <2>3. stop_due => region["emergency"].seq # 0
        BY <1>r DEF StopInv, SlotType
    <2> QED BY <1>9, <1>p, <2>1, <2>2, <2>3
            DEF ReadField, GoOn, Fields, outsideParse, otherVars, linuxVars, StopInv
<1>10. CASE ParseTest
    <2>1. parsing # NoSlot /\ UNCHANGED <<region, todo, writing, last_seq>>
        BY <1>10, <1>i DEF ParseTest, LoopInv, outsideParse, otherVars, linuxVars
    <2>2. stop_due => Verified /\ \A seq \in SeqReads : seq > last_seq[parsing]
        BY <1>10, <1>p DEF ParseTest, Verified, SeqReads, StopInv
    <2>3. CASE EndParse(FALSE)
        <3>1. CASE stop_due
            <4>1. parsing \in Cmds
                BY <1>c, <1>i, <2>1 DEF LoopInv
            <4>2. \A seq \in SeqReads : ~(seq <= last_seq[parsing])
                BY <1>r, <1>p, <2>2, <3>1, <4>1, SeqReadsType
            <4>3. parsing' = parsing
                BY <1>10, <2>2, <3>1, <4>2 DEF ParseTest, GoOn
            <4> QED BY <2>1, <2>3, <4>3 DEF EndParse
        <3>2. CASE ~stop_due
            BY <1>e, <2>1, <2>3, <3>2
        <3> QED BY <3>1, <3>2
    <2>4. CASE ~EndParse(FALSE)
        <3>1. PICK seq \in SeqReads : /\ seq > last_seq[parsing]
                                      /\ step' = "take" /\ got' = [EmptySlot EXCEPT !.seq = seq]
                                      /\ GoOn
            BY <1>10, <2>4 DEF ParseTest
        <3>2. got'.seq = seq
            BY <3>1 DEF EmptySlot
        <3> QED BY <1>p, <2>1, <3>1, <3>2 DEF GoOn, StopInv
    <2> QED BY <2>3, <2>4
<1>11. CASE ParseTake
    <2>1. parsing # NoSlot /\ UNCHANGED <<region, todo, writing>>
        BY <1>11, <1>i DEF ParseTake, LoopInv, outsideParse, otherVars, linuxVars
    <2>2. CASE parsing = "emergency"
        BY <1>11, <1>e, <2>1, <2>2 DEF ParseTake
    <2>3. CASE parsing # "emergency"
        BY <1>11, <1>f, <1>p, <2>1, <2>3 DEF ParseTake, GoOn
    <2> QED BY <2>2, <2>3
<1>12. CASE ParseCopied
    <2>1. parsing # NoSlot /\ EndParse(TRUE) /\ UNCHANGED <<region, todo, writing>>
        BY <1>12, <1>i DEF ParseCopied, LoopInv, outsideParse, otherVars, linuxVars
    <2> QED BY <1>e, <2>1
<1>13. CASE UNCHANGED allVars
    BY <1>13, <1>u DEF allVars, linuxVars, parseVars
<1> QED BY <1>1, <1>2, <1>3, <1>4, <1>5, <1>6, <1>7, <1>8, <1>9, <1>10, <1>11, <1>12, <1>13
        DEF TransportNext

\* A stop that poll() could see when it began ends this very poll, although
\* Linux may overwrite the slot with the next stop, or die in it, between any
\* two reads of parseEmergencySlot.
THEOREM StopEndsPollHolds == TransportSpec => []StopEndsPoll
<1>1. TransportInit => StopInv
    BY RtosTransportAssumption DEF TransportInit, StopInv, EmptySlot, NoSlot
<1>2. StopInv => StopEndsPoll
    BY DEF StopInv, StopEndsPoll
<1> QED BY <1>1, <1>2, StopStep, TransportInvHolds, PTL DEF TransportSpec
-----------------------------------------------------------------------------
\* Before the first crash the config slot holds publications with Linux's last
\* number, or Linux is replacing it under the next one and what it has stored
\* so far has that number; and what the loop has recorded and copied follows
\* the slot.
SettledInv ==
    LET slot == region["config"]
        m == linux_seq["config"]
        n == last_seq["config"]
    IN crashes = 0 =>
        /\ since <= version["config"]
        /\ slot.seq <= m
        /\ writing # "config" => slot.seq = m
        /\ slot.seq = m \/ "head" \notin todo => slot.head \in SameNumbered
        /\ slot.seq = m \/ "tail" \notin todo => slot.tail \in SameNumbered
        /\ n <= slot.seq
        /\ parsing = "config" => got.seq <= slot.seq
        /\ step = "copy" /\ n = m => \A f \in {"head", "tail"} \ left : got[f] \in SameNumbered
        /\ step # "copy" /\ n # 0 /\ n = m =>
              command[1] \in SameNumbered /\ command[2] \in SameNumbered

\* Every step keeps the config slot and the loop's copy of it in agreement.
LEMMA SettledStep == RingInv /\ TransportInv /\ SettledInv /\ [TransportNext]_allVars => SettledInv'
<1> SUFFICES ASSUME RingInv, TransportInv, SettledInv, [TransportNext]_allVars, crashes' = 0
             PROVE  SettledInv'
    BY DEF SettledInv
<1>i. LinuxInv /\ LoopInv
    BY DEF TransportInv
<1>c. Cmds = {"emergency", "config"} /\ NoSlot \notin Cmds
    BY RtosTransportAssumption DEF NoSlot
<1>r. /\ region["config"] \in SlotType /\ version["config"] \in Nat /\ last_seq["config"] \in Nat
      /\ region["config"].seq \in Nat /\ got \in SlotType /\ got.seq \in Nat
      /\ linux_seq["config"] \in Nat /\ since \in Nat
    BY <1>c, <1>i DEF LinuxInv, LoopInv, SlotType
<1>z. crashes = 0
    <2>1. CASE LinuxCrash
        BY <1>i, <2>1 DEF LinuxCrash, LinuxInv
    <2>2. CASE ~LinuxCrash
        <3>1. crashes' = crashes
            BY <2>2
            DEF TransportNext, allVars, linuxVars, otherVars, outsideParse, slotVars, LinuxBegin,
                LinuxStore, LinuxStoreSeq, IsrEnter, IsrFinish, PollStart, Pop, RingEmpty,
                ParseSeq, ReadField, ParseTest, ParseTake, ParseCopied
        <3> QED BY <3>1
    <2> QED BY <2>1, <2>2
<1>k. ASSUME UNCHANGED <<region, version, linux_seq, since, writing, todo>>,
             last_seq'["config"] = last_seq["config"], step' # "copy", step # "copy",
             UNCHANGED command, parsing' = "config" => got'.seq <= region["config"].seq
      PROVE  SettledInv'
    BY <1>k, <1>z DEF SettledInv, SameNumbered
<1>u. ASSUME UNCHANGED <<region, version, linux_seq, since, writing, todo, last_seq, step, command,
                         parsing, got, left>>
      PROVE  SettledInv'
    BY <1>u, <1>z DEF SettledInv, SameNumbered
<1>1. ASSUME NEW s \in Cmds, LinuxBegin(s) PROVE SettledInv'
    <2>1. UNCHANGED <<region, last_seq, step, command, parsing, got, left>> /\ linux = "idle"
        BY <1>1 DEF LinuxBegin, readerVars, parseVars
    <2>2. writing = NoSlot /\ writing # "config"
        BY <1>c, <1>i, <2>1 DEF LinuxInv
    <2>3. CASE s = "config" /\ NextNumber(s)
        <3>1. /\ version'["config"] = version["config"] + 1
              /\ linux_seq'["config"] = linux_seq["config"] + 1
              /\ writing' = "config" /\ todo' = Fields
            BY <1>1, <1>i, <2>3 DEF LinuxBegin, NextNumber, LinuxInv
        <3>2. since' = version'["config"]
            <4>1. linux_seq' # linux_seq
                BY <1>r, <3>1
            <4> QED BY <1>1, <2>3, <4>1 DEF LinuxBegin, SameNumber
        <3>3. /\ last_seq["config"] <= region["config"].seq
              /\ region["config"].seq <= linux_seq["config"]
              /\ parsing = "config" => got.seq <= region["config"].seq
            BY <1>z DEF SettledInv
        <3>4. /\ linux_seq'["config"] > last_seq["config"]
              /\ region["config"].seq <= linux_seq'["config"]
              /\ region["config"].seq # linux_seq'["config"]
            BY <1>r, <3>1, <3>3
        <3> QED BY <1>r, <2>1, <3>1, <3>2, <3>3, <3>4 DEF SettledInv, Fields
    <2>4. CASE s = "config" /\ ~NextNumber(s)
        <3>1. /\ version'["config"] = version["config"] + 1
              /\ UNCHANGED <<linux_seq, since>>
              /\ writing' = "config"
            BY <1>1, <1>i, <2>4 DEF LinuxBegin, SameNumber, LinuxInv
        <3>2. \A w : w \in SameNumbered => w \in SameNumbered'
            BY <1>r, <3>1 DEF SameNumbered
        <3>3. since' <= version'["config"]
            BY <1>r, <1>z, <3>1 DEF SettledInv
        <3>4. region["config"].seq = linux_seq["config"]
            BY <1>z, <2>2 DEF SettledInv
        <3> QED BY <1>z, <2>1, <3>1, <3>2, <3>3, <3>4 DEF SettledInv
    <2>5. CASE s # "config"
        <3>1. /\ version'["config"] = version["config"]
              /\ linux_seq'["config"] = linux_seq["config"] /\ since' = since
              /\ writing' # "config"
            BY <1>1, <1>c, <1>i, <2>5 DEF LinuxBegin, NextNumber, SameNumber, LinuxInv
        <3>2. SameNumbered' = SameNumbered
            BY <3>1 DEF SameNumbered
        <3> QED BY <1>c, <1>z, <2>1, <2>2, <3>1, <3>2 DEF SettledInv
    <2> QED BY <2>3, <2>4, <2>5
<1>2. ASSUME NEW f \in Fields, LinuxStore(f) PROVE SettledInv'
    <2>1. UNCHANGED <<version, linux_seq, since, writing, last_seq, step, command, parsing, got, left>>
        BY <1>2 DEF LinuxStore, readerVars, parseVars
    <2>s. SameNumbered' = SameNumbered
        BY <2>1 DEF SameNumbered
    <2>2. CASE writing = "config"
        <3>1. Stored(writing, "head") = version["config"] /\ Stored(writing, "tail") = version["config"]
            BY <2>2 DEF Stored, Word
        <3>2. region'["config"] = [region["config"] EXCEPT ![f] = Stored(writing, f)]
            BY <1>2, <2>2, StoreType
        <3>3. LET new == region'["config"]
                  old == region["config"]
              IN /\ new.seq = old.seq
                 /\ new.head = IF f = "head" THEN version["config"] ELSE old.head
                 /\ new.tail = IF f = "tail" THEN version["config"] ELSE old.tail
            BY <1>r, <3>1, <3>2 DEF Fields, SlotType
        <3>4. version["config"] \in SameNumbered
            BY <1>r, <1>z DEF SettledInv, SameNumbered
        <3>5. todo' = todo \ {f}
            BY <1>2 DEF LinuxStore
        <3> QED BY <1>z, <2>1, <2>s, <2>2, <3>3, <3>4, <3>5 DEF SettledInv
    <2>3. CASE writing # "config"
        <3>1. region'["config"] = region["config"]
            BY <1>2, <1>c, <2>3, StoreType
        <3> QED BY <1>z, <2>1, <2>s, <2>3, <3>1 DEF SettledInv
    <2> QED BY <2>2, <2>3
<1>3. CASE LinuxStoreSeq
    <2>1. /\ UNCHANGED <<version, linux_seq, since, last_seq, step, command, parsing, got, left>>
          /\ writing' = NoSlot /\ NoSlot # "config" /\ todo = {} /\ todo' = todo
        BY <1>3, <1>c DEF LinuxStoreSeq, parseVars
    <2>s. SameNumbered' = SameNumbered
        BY <2>1 DEF SameNumbered
    <2>2. CASE writing = "config"
        <3>1. LET new == region'["config"]
                  old == region["config"]
              IN new.head = old.head /\ new.tail = old.tail /\ new.seq = linux_seq["config"]
            BY <1>3, <1>c, <1>i, <1>r, <2>2 DEF LinuxStoreSeq, LinuxInv, SlotType
        <3>2. /\ last_seq["config"] <= linux_seq["config"]
              /\ parsing = "config" => got.seq <= linux_seq["config"]
            BY <1>r, <1>z DEF SettledInv
        <3>3. region["config"].head \in SameNumbered /\ region["config"].tail \in SameNumbered
            BY <1>z, <2>1 DEF SettledInv
        <3> QED BY <1>r, <1>z, <2>1, <2>s, <2>2, <3>1, <3>2, <3>3 DEF SettledInv
    <2>3. CASE writing # "config"
        <3>1. region'["config"] = region["config"]
            BY <1>3, <1>c, <1>i, <2>3 DEF LinuxStoreSeq, LinuxInv
        <3> QED BY <1>z, <2>1, <2>s, <2>3, <3>1 DEF SettledInv
    <2> QED BY <2>2, <2>3
<1>4. CASE LinuxCrash
    BY <1>4, <1>z DEF LinuxCrash
<1>5. CASE (\E c \in Cmds : IsrEnter(c)) \/ IsrFinish
    BY <1>5, <1>u DEF IsrEnter, IsrFinish, slotVars, linuxVars, parseVars
<1>b. EmptySlot.seq <= region["config"].seq
    BY <1>r DEF EmptySlot
<1>6. CASE PollStart \/ RingEmpty
    <2>1. step # "copy"
        BY <1>6, <1>i DEF PollStart, RingEmpty, LoopInv
    <2> QED BY <1>6, <1>b, <1>k, <2>1 DEF PollStart, RingEmpty, BeginParse, otherVars, linuxVars
<1>7. CASE Pop
    <2>1. step # "copy"
        BY <1>7, <1>i DEF Pop, LoopInv
    <2> QED BY <1>7, <1>b, <1>k, <1>u, <2>1 DEF Pop, BeginParse, otherVars, linuxVars
<1>8. CASE ParseSeq
    <2>1. step # "copy" /\ UNCHANGED <<region, version, linux_seq, since, writing, todo, last_seq, command>>
        BY <1>8 DEF ParseSeq, outsideParse, otherVars, linuxVars
    <2>2. CASE EndParse(FALSE)
        BY <1>b, <1>k, <2>1, <2>2 DEF EndParse
    <2>3. CASE ~EndParse(FALSE)
        <3>1. /\ step' = "verify" /\ got' = [got EXCEPT !.seq = region[parsing].seq]
              /\ parsing' = parsing
            BY <1>8, <2>3 DEF ParseSeq, GoOn
        <3>2. parsing' = "config" => got'.seq <= region["config"].seq
            BY <1>r, <3>1 DEF SlotType
        <3> QED BY <1>k, <2>1, <3>1, <3>2
    <2> QED BY <2>2, <2>3
<1>9. ASSUME NEW f \in Fields, ReadField(f) PROVE SettledInv'
    <2>1. /\ UNCHANGED <<region, version, linux_seq, since, writing, todo, last_seq, command, parsing, step>>
          /\ left' = left \ {f}
        BY <1>9 DEF ReadField, GoOn, outsideParse, otherVars, linuxVars
    <2>2. /\ got'.seq = got.seq /\ got'[f] = region[parsing][f]
          /\ \A g \in Fields : g # f => got'[g] = got[g]
        BY <1>9, <1>r DEF ReadField, Fields, SlotType
    <2>3. CASE step # "copy"
        BY <1>k, <1>z, <2>1, <2>2, <2>3 DEF SettledInv
    <2>4. CASE step = "copy"
        <3>1. parsing = "config"
            BY <1>i, <2>4 DEF LoopInv
        <3>2. SameNumbered' = SameNumbered
            BY <2>1 DEF SameNumbered
        <3>3. f \in {"head", "tail"} /\ last_seq["config"] = linux_seq["config"] =>
                  region["config"][f] \in SameNumbered
            BY <1>r, <1>z DEF SettledInv
        <3> QED BY <1>z, <2>1, <2>2, <2>4, <3>1, <3>2, <3>3 DEF SettledInv, Fields
    <2> QED BY <2>3, <2>4
<1>q. parsing = "config" => \A seq \in SeqReads : seq <= region["config"].seq
    BY <1>r, <1>z DEF SeqReads, SettledInv
<1>10. CASE ParseTest
    <2>1. step # "copy" /\ UNCHANGED <<region, version, linux_seq, since, writing, todo, last_seq, command>>
        BY <1>10 DEF ParseTest, outsideParse, otherVars, linuxVars
    <2>2. CASE EndParse(FALSE)
        BY <1>b, <1>k, <2>1, <2>2 DEF EndParse
    <2>3. CASE ~EndParse(FALSE)
        <3>1. PICK seq \in SeqReads : /\ step' = "take" /\ got' = [EmptySlot EXCEPT !.seq = seq]
                                      /\ parsing' = parsing
            BY <1>10, <2>3 DEF ParseTest, GoOn
        <3>2. got'.seq = seq
            BY <3>1 DEF EmptySlot
        <3> QED BY <1>k, <1>q, <2>1, <3>1, <3>2
    <2> QED BY <2>2, <2>3
<1>11. CASE ParseTake
    <2>1. UNCHANGED <<region, version, linux_seq, since, writing, todo, command>> /\ step # "copy"
        BY <1>11 DEF ParseTake, outsideParse, otherVars, linuxVars
    <2>2. PICK seq \in SeqReads : last_seq' = [last_seq EXCEPT ![parsing] = seq]
        BY <1>11 DEF ParseTake
    <2>3. CASE parsing = "emergency"
        <3>1. last_seq'["config"] = last_seq["config"]
            BY <1>c, <1>i, <2>2, <2>3 DEF LoopInv
        <3> QED BY <1>11, <1>b, <1>k, <2>1, <2>3, <3>1 DEF ParseTake, EndParse
    <2>4. CASE parsing # "emergency"
        <3>1. parsing = "config"
            BY <1>11, <1>c, <1>i, <2>4 DEF ParseTake, LoopInv
        <3>2. last_seq'["config"] = seq /\ seq <= region["config"].seq
            BY <1>c, <1>i, <1>q, <2>2, <3>1 DEF LoopInv
        <3>3. step' = "copy" /\ left' = {"head", "tail"} /\ UNCHANGED <<parsing, got>>
            BY <1>11, <2>4 DEF ParseTake, GoOn
        <3>4. SameNumbered' = SameNumbered
            BY <2>1 DEF SameNumbered
        <3> QED BY <1>z, <2>1, <3>2, <3>3, <3>4 DEF SettledInv
    <2> QED BY <2>3, <2>4
<1>12. CASE ParseCopied
    <2>1. /\ UNCHANGED <<region, version, linux_seq, since, writing, todo, last_seq>>
          /\ step' = "none" /\ parsing' = NoSlot /\ step = "copy" /\ left = {}
          /\ command' = <<got.head, got.tail>>
        BY <1>12 DEF ParseCopied, EndParse, outsideParse, otherVars, linuxVars
    <2>2. NoSlot # "config"
        BY <1>c
    <2>3. SameNumbered' = SameNumbered
        BY <2>1 DEF SameNumbered
    <2>4. command'[1] = got.head /\ command'[2] = got.tail
        BY <2>1
    <2> QED BY <1>z, <2>1, <2>2, <2>3, <2>4 DEF SettledInv
<1>13. CASE UNCHANGED allVars
    BY <1>13, <1>u DEF allVars, linuxVars, parseVars
<1> QED BY <1>1, <1>2, <1>3, <1>4, <1>5, <1>6, <1>7, <1>8, <1>9, <1>10, <1>11, <1>12, <1>13
        DEF TransportNext

\* Until Linux crashes, both words of the config the loop holds between polls
\* come from publications with the number it has recorded, however the stores
\* and the unlocked reads of the slot interleave and however often a number is
\* used again.
THEOREM SettledHolds == TransportSpec => []Settled
<1>1. TransportInit => SettledInv
    BY RtosTransportAssumption DEF TransportInit, SettledInv, SameNumbered, EmptySlot, NoSlot
<1>2. TransportInv /\ SettledInv => Settled
    BY DEF TransportInv, LoopInv, SettledInv, Settled
<1> QED BY <1>1, <1>2, SettledStep, TransportInvHolds, PTL DEF TransportSpec
=============================================================================
