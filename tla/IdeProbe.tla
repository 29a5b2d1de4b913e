------------------------------ MODULE IdeProbe ------------------------------
(***************************************************************************)
(* init_ide (drivers/ide/ide.c): the two drives of each of the two         *)
(* channels are asked to identify themselves, and those that answer are    *)
(* entered in devices[].  A drive works on a command while its BSY bit is  *)
(* set.  A packet drive refuses IDENTIFY and shows a signature; the driver *)
(* then sends IDENTIFY PACKET DEVICE.                                      *)
(***************************************************************************)
EXTENDS Naturals, FiniteSets

CONSTANT Attachments   \* what may be attached: functions from Slot to Kind

Slot == (0 .. 1) \X (0 .. 1)    \* channel and drive

\* A slot without a drive reads as 0, or as all ones on a channel with none; an
\* alien refuses IDENTIFY without the signature of a packet drive.
Kind == {"none", "float", "ata", "atapi", "alien"}

ASSUME ProbeAssumption == Attachments \subseteq [Slot -> Kind]

Order == <<<<0, 0>>, <<0, 1>>, <<1, 0>>, <<1, 1>>>>

Noise    == <<2, 2>>     \* what is read from a drive that is still busy
NoDevice == [reserved |-> FALSE]
Device   == [reserved : {TRUE}, type : {"ata", "atapi"}, slot : Slot,
             ident : Slot \union {Noise}]

VARIABLES
  kind,            \* what is attached
  step, turn,      \* where init_ide is, and for which slot
  type, count, devices,
  statuses         \* status bits of each slot

probeVars == <<kind, step, turn, type, count, devices, statuses>>

ProbeInit ==
  /\ kind \in Attachments
  /\ step = "identify" /\ turn = 1
  /\ type = "ata" /\ count = 0
  /\ devices = [k \in 0 .. 3 |-> NoDevice]
  /\ statuses = [s \in Slot |-> IF kind[s] = "float" THEN {"BSY", "DRQ", "ERR"} ELSE {}]

slot == Order[turn]

\* `continue', or the end of the loop body.
NextSlot == IF turn < 4 THEN turn' = turn + 1 /\ step' = "identify"
            ELSE step' = "done" /\ UNCHANGED turn

Drive == {"ata", "atapi", "alien"}
SendCommand == IF kind[slot] \in Drive
                 THEN statuses' = [statuses EXCEPT ![slot] = {"BSY"}]
                 ELSE UNCHANGED statuses

\* Select the drive, send IDENTIFY, read the status: 0 is an empty slot.
Identify ==
  /\ step = "identify"
  /\ type' = "ata"
  /\ devices' = [devices EXCEPT ![count] = NoDevice]
  /\ SendCommand
  /\ IF kind[slot] = "none" THEN NextSlot ELSE step' = "poll" /\ UNCHANGED turn
  /\ UNCHANGED <<kind, count>>

\* Mutants: no wait for the data, an error not noticed.
AnsweredAtOnce(bits) == TRUE
RefusedNever(bits)   == FALSE

Refused(bits)  == "ERR" \in bits
Answered(bits) == "BSY" \notin bits /\ "DRQ" \in bits

\* Mutant: every drive that refuses is taken for a packet drive.
SignatureAny(s) == TRUE

\* LBA1 and LBA2 hold 14 EB or 69 96.
Signature(s) == kind[s] = "atapi"

PollAnswered ==
  /\ step = "poll"
  /\ ~Refused(statuses[slot]) /\ Answered(statuses[slot])
  /\ step' = "read"
  /\ UNCHANGED <<kind, turn, type, count, devices, statuses>>

\* IDENTIFY PACKET is sent and not waited for.
PollRefused ==
  /\ step = "poll"
  /\ Refused(statuses[slot])
  /\ IF Signature(slot)
       THEN /\ type' = "atapi"
            /\ SendCommand
            /\ step' = "read" /\ UNCHANGED turn
       ELSE NextSlot /\ UNCHANGED <<type, statuses>>
  /\ UNCHANGED <<kind, count, devices>>

\* 128 double words from the data register, and the new entry of devices[].
ReadBuffer ==
  /\ step = "read"
  /\ LET full == Answered(statuses[slot]) /\ statuses[slot] = {"DRQ"}
     IN  /\ devices' = [devices EXCEPT ![count] =
                          [reserved |-> TRUE, type |-> type, slot |-> slot,
                           ident |-> IF full THEN slot ELSE Noise]]
         /\ statuses' = IF full THEN [statuses EXCEPT ![slot] = {}] ELSE statuses
  /\ count' = count + 1
  /\ NextSlot
  /\ UNCHANGED <<kind, type>>

\* A drive ends its command, and with data or an error: for one that ends with neither
\* the loop at ide.c:461 has no end.  Only its IDENTIFY is refused by a packet drive.
Refuses(s) == \/ kind[s] = "alien"
              \/ kind[s] = "atapi" /\ s = slot /\ step = "poll"
Answer(s) ==
  /\ statuses[s] = {"BSY"}
  /\ statuses' = [statuses EXCEPT ![s] = IF Refuses(s) THEN {"ERR"} ELSE {"DRQ"}]
  /\ UNCHANGED <<kind, step, turn, type, count, devices>>

Probe     == Identify \/ PollAnswered \/ PollRefused \/ ReadBuffer
ProbeNext == Probe \/ \E s \in Slot : Answer(s)

ProbeSpec == ProbeInit /\ [][ProbeNext]_probeVars

\* The processor goes on, and a drive that is busy does not stay so.
FairProbe == ProbeSpec /\ WF_probeVars(Probe) /\ \A s \in Slot : WF_probeVars(Answer(s))
-----------------------------------------------------------------------------
\* When init_ide is done devices[] holds exactly the disks and packet drives that are
\* attached, from entry 0 on, in the order of the channels, with the right type:
\* every `continue' (ide.c:458, ide.c:481) leaves its entry to the next drive.
Present(k) == kind[Order[k]] \in {"ata", "atapi"}
Place(k)   == Cardinality({j \in 1 .. k - 1 : Present(j)})
Listed ==
  step = "done" =>
    /\ \A k \in 1 .. 4 : Present(k) => /\ devices[Place(k)].reserved
                                       /\ devices[Place(k)].slot = Order[k]
                                       /\ devices[Place(k)].type = kind[Order[k]]
    /\ count = Place(5)
    /\ \A k \in 0 .. 3 : k >= count => ~devices[k].reserved

\* An entry carries its own drive's size and model, and no drive is left in the middle of
\* a transfer, which would make it ignore the next command: only a packet drive can be,
\* whose size and model are then junk, read before the drive had them (ide.c:488).
OwnIdentity ==
  /\ \A k \in 0 .. 3 :
       devices[k].reserved => \/ devices[k].ident = devices[k].slot
                              \/ devices[k].ident = Noise /\ devices[k].type = "atapi"
  /\ step = "done" =>
       \A s \in Slot :
         kind[s] # "float" /\ statuses[s] \in {{"BSY"}, {"DRQ"}} =>
           /\ kind[s] = "atapi"
           /\ \E k \in 0 .. 3 : /\ devices[k].reserved
                                /\ devices[k].slot = s /\ devices[k].ident = Noise

\* The probe ends, whatever is attached: the loop of ide.c:461 leaves on data and on
\* errors.
ProbeEnds == <>(step = "done")
=============================================================================
