--------------------------- MODULE RtosTransport ---------------------------
(***************************************************************************)
(* RtosCmdquIsrTransport::poll and MailboxTransport's publishSlot, access  *)
(* by access.  A slot is a seq, two payload words and a CRC.  Linux stores *)
(* payload and CRC in any order (nothing orders them), then, after a       *)
(* fence, seq, and rings the doorbell.  poll reads the emergency slot,     *)
(* drains the doorbell ring of CmdRing, parsing the slot of each doorbell, *)
(* and parses the other slots last.  parse* reads seq, then payload and    *)
(* CRC for verify_slot, then seq again, then the payload again.            *)
(* A payload word is the number of the publication it belongs to, except   *)
(* that all emergency payloads are equal.  The CRC is the pair of words it *)
(* was computed from, so it never collides.  One config slot stands for    *)
(* arm, setpoint, heartbeat and config, which share code.                  *)
(* Linux may crash between any two stores and start again.                 *)
(***************************************************************************)
EXTENDS CmdRing

CONSTANTS MaxVersion,   \* bound on the publications, per slot
          MaxCrashes    \* bound on crashes of the Linux process

ASSUME RtosTransportAssumption ==
    /\ Cmds = {"emergency", "config"}
    /\ MaxVersion \in [Cmds -> Nat]
    /\ MaxCrashes \in Nat

VARIABLES
    region,      \* the slots
    version,     \* publications begun so far, over all lives of Linux
    linux,       \* what the Linux process is doing
    writing,     \* the slot it is publishing
    todo,        \* the stores it has left before seq
    linux_seq,   \* the numbers it used last
    since,       \* history: its first config publication with that number
    crashes,
    bells,       \* doorbells on their way to the ISR
    poll,        \* where poll() is
    parsing,     \* the slot a parse function is working on
    step,        \* and how far it is
    got,         \* the fields it has read
    left,        \* and the ones it has yet to read in this step
    last_seq,    \* last_*_seq_
    command,     \* the config payload the loop got last
    stop_due,    \* history: a stop was visible when this poll began, and still is
    overlap,     \* history: a store hit the slot since its parse began
    overlapped   \* history: ... and this was so when the last copy was made

linuxVars == <<version, linux, writing, todo, linux_seq, since, crashes>>
parseVars == <<parsing, step, got, left, last_seq, command, overlapped>>
ringVars == <<pending_queue, queue_head, queue_tail, isr, cmd_id, task, out, taken, drops>>
allVars == <<ringVars, region, linuxVars, bells, poll, parseVars, stop_due, overlap>>

Fields == {"head", "tail", "crc"}

\* A cleared slot: the CRC of a zero payload is not zero.
EmptySlot == [seq |-> 0, head |-> 0, tail |-> 0, crc |-> <<>>]
NoSlot == "none"

\* What is stored in a payload word: every stop has the same reason.
Word(s, v) == IF s = "emergency" THEN 1 ELSE v

TransportInit ==
    /\ Init
    /\ region = [s \in Cmds |-> EmptySlot]
    /\ version = [s \in Cmds |-> 0]
    /\ linux = "idle" /\ writing = NoSlot /\ todo = {}
    /\ linux_seq = [s \in Cmds |-> 0] /\ since = 0 /\ crashes = 0
    /\ bells = [s \in Cmds |-> 0]
    /\ poll = "idle" /\ parsing = NoSlot /\ step = "none" /\ got = EmptySlot /\ left = {}
    /\ last_seq = [s \in Cmds |-> 0]
    /\ command = <<0, 0>>
    /\ stop_due = FALSE /\ overlap = FALSE /\ overlapped = FALSE
-----------------------------------------------------------------------------
(* Linux.                                                                  *)
readerVars == <<ringVars, poll, parseVars, stop_due>>

\* writeEmergencyCache counts by itself.  writeConfigCache stores the number
\* its caller brings, and pushConfig brings the last one again when that was
\* not acknowledged.
NextNumber(s) == linux_seq' = [linux_seq EXCEPT ![s] = @ + 1]
SameNumber(s) == s = "config" /\ linux_seq[s] # 0 /\ UNCHANGED linux_seq

LinuxBegin(s) ==
    /\ linux = "idle"
    /\ version[s] < MaxVersion[s]
    /\ version' = [version EXCEPT ![s] = @ + 1]
    /\ \/ NextNumber(s) /\ since' = IF s = "config" THEN version'[s] ELSE since
       \/ SameNumber(s) /\ UNCHANGED since
    /\ writing' = s
    /\ todo' = Fields
    /\ linux' = "store"
    /\ UNCHANGED <<readerVars, region, crashes, bells, overlap>>

\* Mutant: the CRC is computed from the slot, whatever it holds by then.
StoredSlotCrc(s, f) ==
    IF f = "crc" THEN <<region[s].head, region[s].tail>> ELSE Word(s, version[s])

\* The value publishSlot stores in a field.
Stored(s, f) ==
    LET w == Word(s, version[s])
    IN IF f = "crc" THEN <<w, w>> ELSE w

LinuxStore(f) ==
    /\ linux = "store"
    /\ f \in todo
    /\ region' = [region EXCEPT ![writing][f] = Stored(writing, f)]
    /\ todo' = todo \ {f}
    /\ overlap' = (overlap \/ parsing = writing)
    /\ UNCHANGED <<readerVars, version, linux, writing, linux_seq, since, crashes, bells>>

\* The fence, seq, the flush and the doorbell.  A restarted Linux may store
\* a seq that the loop has already recorded: the stop is then hidden.
LinuxStoreSeq ==
    /\ linux = "store"
    /\ todo = {}
    /\ region' = [region EXCEPT ![writing].seq = linux_seq[writing]]
    /\ linux' = "idle"
    /\ bells' = [bells EXCEPT ![writing] = @ + 1]
    /\ writing' = NoSlot
    /\ overlap' = (overlap \/ parsing = writing)
    /\ stop_due' = (stop_due /\ region'["emergency"].seq > last_seq["emergency"])
    /\ UNCHANGED <<ringVars, poll, parseVars, version, todo, linux_seq, since, crashes>>

\* The process dies between two stores; the next one counts from zero.
LinuxCrash ==
    /\ crashes < MaxCrashes
    /\ linux' = "idle" /\ writing' = NoSlot /\ todo' = {}
    /\ linux_seq' = [s \in Cmds |-> 0]
    /\ crashes' = crashes + 1
    /\ UNCHANGED <<readerVars, region, version, since, bells, overlap>>
-----------------------------------------------------------------------------
(* onCmdFromMailbox, which the mailbox interrupt calls per doorbell.       *)
slotVars == <<region, linuxVars, poll, parseVars, stop_due, overlap>>

IsrEnter(c) ==
    /\ bells[c] > 0
    /\ bells' = [bells EXCEPT ![c] = @ - 1]
    /\ IsrDrop \/ IsrAccept(c)
    /\ UNCHANGED slotVars

IsrFinish == (IsrStore \/ IsrPublish) /\ UNCHANGED <<bells, slotVars>>
-----------------------------------------------------------------------------
(* poll() and the parse functions.                                         *)
otherVars == <<region, linuxVars, bells>>

BeginParse(s) ==
    /\ parsing' = s /\ step' = "seq" /\ got' = EmptySlot /\ left' = {}
    /\ overlap' = FALSE

\* Where poll() goes when a parse function has returned.
PollAfter(found) ==
    CASE parsing = "emergency" /\ found -> "idle"
      [] poll \in {"first", "cmd"} /\ ~(parsing = "emergency" /\ found) -> "drain"
      [] poll = "rest" -> "idle"

EndParse(found) ==
    /\ parsing' = NoSlot /\ step' = "none" /\ got' = EmptySlot /\ left' = {}
    /\ poll' = PollAfter(found)
    /\ stop_due' = (stop_due /\ poll' # "idle")
    /\ overlap' = FALSE

GoOn == UNCHANGED <<poll, parsing, stop_due, overlap>>

PollStart ==
    /\ poll = "idle"
    /\ poll' = "first"
    /\ stop_due' = (region["emergency"].seq > last_seq["emergency"])
    /\ BeginParse("emergency")
    /\ UNCHANGED <<ringVars, otherVars, last_seq, command, overlapped>>

\* popCommand and the parse its doorbell names.
Pop ==
    /\ poll = "drain"
    /\ \/ (TaskPeek \/ TaskCopy) /\ UNCHANGED <<poll, parsing, step, got, left, overlap>>
       \/ TaskRelease /\ poll' = "cmd" /\ BeginParse(out)
    /\ UNCHANGED <<otherVars, last_seq, command, stop_due, overlapped>>

RingEmpty ==
    /\ poll = "drain" /\ task = "idle" /\ queue_tail = queue_head
    /\ poll' = "rest"
    /\ BeginParse("config")
    /\ UNCHANGED <<ringVars, otherVars, last_seq, command, stop_due, overlapped>>

outsideParse == <<ringVars, otherVars>>

\* verify_slot: seq, then payload and CRC.
ParseSeq ==
    /\ step = "seq"
    /\ \/ /\ region[parsing].seq = 0
          /\ EndParse(FALSE)
       \/ /\ region[parsing].seq # 0
          /\ step' = "verify" /\ left' = Fields
          /\ got' = [got EXCEPT !.seq = region[parsing].seq]
          /\ GoOn
    /\ UNCHANGED <<outsideParse, last_seq, command, overlapped>>

\* crc32 and the copy go through the payload from its start.
InOrder(f) == /\ f = "tail" => "head" \notin left
              /\ f = "crc" => left = {"crc"}

ReadField(f) ==
    /\ f \in left /\ InOrder(f)
    /\ got' = [got EXCEPT ![f] = region[parsing][f]]
    /\ left' = left \ {f}
    /\ GoOn
    /\ UNCHANGED <<outsideParse, step, last_seq, command, overlapped>>

\* A compiler may read seq again or keep the value it has: the slot is
\* neither volatile nor atomic.
SeqReads == {got.seq, region[parsing].seq}

\* Mutant: the CRC is not compared.
VerifiedAlways == TRUE

Verified == got.crc = <<got.head, got.tail>>

\* The rest of the guard of every parse function.
ParseTest ==
    /\ step = "verify" /\ left = {}
    /\ \E seq \in SeqReads :
          \/ /\ ~Verified \/ seq <= last_seq[parsing]
             /\ EndParse(FALSE)
          \/ /\ Verified /\ seq > last_seq[parsing]
             /\ step' = "take" /\ got' = [EmptySlot EXCEPT !.seq = seq]
             /\ GoOn /\ UNCHANGED left
    /\ UNCHANGED <<outsideParse, last_seq, command, overlapped>>

\* last_*_seq_ is assigned; an emergency has no payload to copy.
ParseTake ==
    /\ step = "take"
    /\ \E seq \in SeqReads : last_seq' = [last_seq EXCEPT ![parsing] = seq]
    /\ IF parsing = "emergency"
       THEN EndParse(TRUE)
       ELSE step' = "copy" /\ left' = {"head", "tail"} /\ GoOn /\ UNCHANGED got
    /\ UNCHANGED <<outsideParse, command, overlapped>>

\* Mutant: the seq is recorded once the payload has been copied.
ParseCopiedThenSeq ==
    /\ step = "copy" /\ left = {}
    /\ command' = <<got.head, got.tail>>
    /\ overlapped' = overlap
    /\ last_seq' = [last_seq EXCEPT ![parsing] = region[parsing].seq]
    /\ EndParse(TRUE)
    /\ UNCHANGED outsideParse

ParseCopied ==
    /\ step = "copy" /\ left = {}
    /\ command' = <<got.head, got.tail>>
    /\ overlapped' = overlap
    /\ EndParse(TRUE)
    /\ UNCHANGED <<outsideParse, last_seq>>

TransportNext ==
    \/ (\E s \in Cmds : LinuxBegin(s)) \/ (\E f \in Fields : LinuxStore(f)) \/ LinuxStoreSeq
    \/ LinuxCrash
    \/ (\E c \in Cmds : IsrEnter(c)) \/ IsrFinish
    \/ PollStart \/ Pop \/ RingEmpty
    \/ ParseSeq \/ (\E f \in Fields : ReadField(f)) \/ ParseTest \/ ParseTake \/ ParseCopied

TransportSpec == TransportInit /\ [][TransportNext]_allVars
-----------------------------------------------------------------------------
\* Slots, counters and the progress of a parse keep their types.
TransportTypeOK ==
    /\ TypeOK
    /\ region \in [Cmds -> [seq : Nat, head : Nat, tail : Nat, crc : {<<>>} \cup (Nat \X Nat)]]
    /\ version \in [Cmds -> Nat] /\ linux_seq \in [Cmds -> Nat] /\ since \in Nat
    /\ crashes \in Nat /\ linux \in {"idle", "store"}
    /\ writing \in Cmds \cup {NoSlot} /\ todo \subseteq Fields
    /\ bells \in [Cmds -> Nat]
    /\ poll \in {"idle", "first", "drain", "cmd", "rest"}
    /\ parsing \in Cmds \cup {NoSlot} /\ step \in {"none", "seq", "verify", "take", "copy"}
    /\ got \in [seq : Nat, head : Nat, tail : Nat, crc : {<<>>} \cup (Nat \X Nat)]
    /\ left \subseteq Fields
    /\ last_seq \in [Cmds -> Nat] /\ command \in Nat \X Nat
    /\ stop_due \in BOOLEAN /\ overlap \in BOOLEAN /\ overlapped \in BOOLEAN

\* Publications with the number Linux used last.
SameNumbered == since..version["config"]

\* Between polls, and until Linux crashes, both words of the config the loop
\* holds come from publications with the number it has recorded, although they
\* were copied after the CRC was checked and without a second check.  So a
\* number used once leaves neither a torn nor an outdated payload.  One that
\* pushConfig used again may leave either: the loop looks at the number only.
Settled ==
    LET n == last_seq["config"] IN
    crashes = 0 /\ parsing # "config" /\ n # 0 /\ n = linux_seq["config"]
        => command[1] \in SameNumbered /\ command[2] \in SameNumbered

\* What a crash leaves half-written is never taken: a payload that mixes two
\* publications was copied while Linux was storing.
TornOnlyByOverlap == command[1] # command[2] => overlapped

\* A stop that is visible when poll() begins, and is not hidden meanwhile by
\* the lower seq of a restarted Linux, ends the poll before any other slot is
\* consumed, even if Linux is publishing the next one or has crashed in it.
StopEndsPoll == stop_due => poll \notin {"drain", "cmd", "rest"}
=============================================================================
