-------------------------------- MODULE Ide --------------------------------
(***************************************************************************)
(* Reading and writing sectors (drivers/ide/ide.c): the driver's program   *)
(* for one call of ide_read_sectors or ide_write_sectors, and the ATA      *)
(* drive it talks to through registers.  The drive works while its BSY bit *)
(* is set; the driver polls.  Calls do not overlap: there is one task and  *)
(* no interrupt handler.                                                   *)
(*                                                                         *)
(* The contents of a sector are one value: its own number to begin with,   *)
(* and a fresh one for each sector of each call that writes.               *)
(***************************************************************************)
EXTENDS IdeAddress, Sequences

CONSTANTS
  Drives,    \* drives init_ide may have found: [lba28 |-> ..., size |-> ...]
  Lbas,      \* sectors that calls start at
  Counts,    \* values of numsects, an unsigned char
  MaxCalls   \* bound: calls

ASSUME IdeAssumption ==
  /\ Drives \subseteq [lba28 : BOOLEAN, size : Nat]
  \* A drive that only knows cylinders has no more of them than 16 bits count.
  /\ \A d \in Drives : d.size <= Wrap /\ (d.lba28 \/ (d.size <= LimitChs /\ d.size <= Limit28))
  /\ Lbas \subseteq 0 .. Wrap - 1
  /\ Counts \subseteq 0 .. Byte - 1
  /\ MaxCalls \in Nat

None == [cmd |-> "none", at |-> 0, left |-> 0, ext |-> FALSE]
Junk == Wrap * 2 + MaxCalls * Byte     \* what a drive that has no data returns
NoCall == [dir |-> "read", lba |-> 0, n |-> 0]

VARIABLES
  drive,       \* devices[drive]: what IDENTIFY reported
  pc,          \* where the driver is
  call,        \* the arguments of the call
  i, buf,      \* sectors moved, and what was read into the buffer
  err,         \* result of the last call
  calls,       \* calls made
  status,      \* the drive's status bits
  job,         \* the command the drive works on
  latch,       \* sector the drive has received and not stored, or Junk
  media,       \* contents of the sectors
  unflushed,   \* sectors written since the last cache flush
  before,      \* history: media when the call began
  failed,      \* history: the drive reported an error during the call
  zero,        \* history: a call with numsects = 0 has reached the drive
  dropped      \* history: the drive was busy when the flush came

host  == <<pc, call, i, buf, err, calls>>
ata   == <<status, job, latch, media, unflushed>>
past  == <<before, failed, zero, dropped>>
vars  == <<drive, host, ata, past>>

Init ==
  /\ drive \in Drives
  /\ pc = "idle" /\ call = NoCall /\ i = 0 /\ buf = <<>> /\ err = "ok" /\ calls = 0
  /\ status = {} /\ job = None /\ latch = Junk
  /\ media = [a \in 0 .. drive.size - 1 |-> a]
  /\ unflushed = {}
  /\ before = media /\ failed = FALSE /\ zero = FALSE /\ dropped = FALSE
-----------------------------------------------------------------------------
(***************************************************************************)
(* The drive.                                                              *)
(***************************************************************************)
Ready == "BSY" \notin status

\* A drive that is busy or in the middle of a transfer ignores a command.
Command(j) ==
  IF status \intersect {"BSY", "DRQ"} = {}
    THEN job' = j /\ status' = {"BSY"} /\ latch' = Junk
    ELSE UNCHANGED <<job, status, latch>>

Reachable(a) == a < drive.size /\ (job.ext \/ a < Limit28)

\* One sector less to go.
Advance == [job EXCEPT !.at = @ + 1, !.left = @ - 1]
Continue(bits) == IF job.left = 1 THEN job' = None /\ status' = {}
                  ELSE job' = Advance /\ status' = bits

\* The drive has read a sector, or wants one to write.
Offer ==
  /\ ~Ready
  /\ Reachable(job.at)
  /\ job.cmd = "read" \/ (job.cmd = "write" /\ latch = Junk)
  /\ status' = {"DRQ"}
  /\ UNCHANGED <<job, latch, media, unflushed, failed>>

Commit ==
  /\ ~Ready
  /\ job.cmd = "write" /\ latch # Junk
  /\ media' = [media EXCEPT ![job.at] = latch]
  /\ unflushed' = unflushed \union {job.at}
  /\ latch' = Junk
  /\ Continue({"BSY"})
  /\ UNCHANGED failed

FlushDone ==
  /\ ~Ready
  /\ job.cmd = "flush"
  /\ unflushed' = {}
  /\ status' = {} /\ job' = None
  /\ UNCHANGED <<latch, media, failed>>

Fail ==
  /\ ~Ready
  /\ status' \in {{"ERR"}, {"DF"}}
  /\ job' = None /\ latch' = Junk
  /\ failed' = TRUE
  /\ UNCHANGED <<media, unflushed>>

DriveStep == /\ Offer \/ Commit \/ FlushDone \/ Fail
             /\ UNCHANGED <<drive, host, before, zero, dropped>>
-----------------------------------------------------------------------------
(***************************************************************************)
(* ide_read_sectors and ide_write_sectors.                                 *)
(***************************************************************************)
\* Calls name an ATA drive that was found: the checks for that are left out.  err is
\* what the functions know; they return it only for "range", and print it otherwise.

\* `lba + numsects > size', in 32 bits.
OutOfRange(lba, n) == (lba + n) % Wrap > drive.size

Call(dir, lba, n) ==
  /\ pc = "idle" /\ calls < MaxCalls
  /\ calls' = calls + 1
  /\ call' = [dir |-> dir, lba |-> lba, n |-> n]
  /\ i' = 0 /\ buf' = <<>>
  /\ before' = media /\ failed' = FALSE
  /\ IF OutOfRange(lba, n)
       THEN err' = "range" /\ UNCHANGED <<pc, zero>>
       ELSE pc' = "ready" /\ zero' = (zero \/ n = 0) /\ UNCHANGED err
  /\ UNCHANGED <<drive, ata, dropped>>
-----------------------------------------------------------------------------
(***************************************************************************)
(* ide_ata_access.                                                         *)
(***************************************************************************)
\* Registers and command, once the drive is not busy.  A count of 0 asks for as
\* many sectors as the count register has values.
Issue ==
  /\ pc = "ready" /\ Ready
  /\ LET mode == Mode(call.lba, drive.lba28)
         most == IF mode = 2 THEN Byte * Byte ELSE Byte
     IN  Command([cmd  |-> call.dir,
                  at   |-> Sector(Registers(call.lba, mode), mode),
                  left |-> IF call.n = 0 THEN most ELSE call.n,
                  ext  |-> mode = 2])
  /\ pc' = "move"
  /\ UNCHANGED <<drive, call, i, buf, err, calls, media, unflushed, past>>

\* Mutants: the loop ends a sector early; polling does not wait, or waits for data.
MoreEarly    == i + 1 < call.n
PolledAtOnce == TRUE
PolledData   == Ready /\ "DRQ" \in status

More   == i < call.n
Polled == Ready

Finish(result) == pc' = "idle" /\ err' = result

\* ide_polling(channel, 1) has found an error.
ReadFails ==
  /\ pc = "move" /\ call.dir = "read" /\ More
  /\ Polled
  /\ \/ "ERR" \in status /\ Finish("error")
     \/ "DF" \in status /\ Finish("fault")
     \/ status = {} /\ Finish("no data")
  /\ UNCHANGED <<drive, call, i, buf, calls, ata, past>>

ReadSector ==
  /\ pc = "move" /\ call.dir = "read" /\ More
  /\ Polled /\ "DRQ" \in status
  /\ i' = i + 1
  /\ IF job.cmd = "read"
       THEN buf' = Append(buf, media[job.at]) /\ Continue({"BSY"})
       ELSE buf' = Append(buf, Junk) /\ UNCHANGED <<status, job>>
  /\ UNCHANGED <<drive, pc, call, err, calls, latch, media, unflushed, past>>

ReadDone ==
  /\ pc = "move" /\ call.dir = "read" /\ ~More
  /\ Finish("ok")
  /\ UNCHANGED <<drive, call, i, buf, calls, ata, past>>

\* Contents of the i-th sector of the call that writes.
Fresh == Wrap + calls * Byte + i

\* ide_polling(channel, 0) looks at no error, and the words go to a drive that may
\* not want them.
WriteSector ==
  /\ pc = "move" /\ call.dir = "write" /\ More
  /\ Polled
  /\ i' = i + 1
  /\ IF "DRQ" \in status /\ job.cmd = "write"
       THEN latch' = Fresh /\ status' = {"BSY"}
       ELSE UNCHANGED <<latch, status>>
  /\ UNCHANGED <<drive, pc, call, buf, err, calls, job, media, unflushed, past>>

\* Mutant: the command is not sent.
FlushNone ==
  /\ pc = "move" /\ call.dir = "write" /\ ~More
  /\ pc' = "flush"
  /\ UNCHANGED <<drive, call, i, buf, err, calls, ata, past>>

\* CACHE FLUSH, right behind the last word.
Flush ==
  /\ pc = "move" /\ call.dir = "write" /\ ~More
  /\ Command([None EXCEPT !.cmd = "flush"])
  /\ dropped' = (status \intersect {"BSY", "DRQ"} # {})
  /\ pc' = "flush"
  /\ UNCHANGED <<drive, call, i, buf, err, calls, media, unflushed, before, failed, zero>>

WriteDone ==
  /\ pc = "flush"
  /\ Polled
  /\ Finish("ok")
  /\ UNCHANGED <<drive, call, i, buf, calls, ata, past>>

Driver == Issue \/ ReadFails \/ ReadSector \/ ReadDone \/ WriteSector \/ Flush \/ WriteDone

Next == \/ DriveStep \/ Driver
        \/ \E dir \in {"read", "write"}, lba \in Lbas, n \in Counts : Call(dir, lba, n)

Spec == Init /\ [][Next]_vars

\* The processor goes on with a call, and a drive that is busy does not stay so.
FairSpec == Spec /\ WF_vars(Driver) /\ WF_vars(DriveStep)
-----------------------------------------------------------------------------
\* Every variable has its type.
TypeOK ==
  /\ drive \in Drives
  /\ pc \in {"idle", "ready", "move", "flush"}
  /\ call \in [dir : {"read", "write"}, lba : Lbas \union {0}, n : Counts \union {0}]
  /\ i \in 0 .. call.n /\ Len(buf) <= i
  /\ err \in {"ok", "error", "fault", "no data", "range"}
  /\ calls \in 0 .. MaxCalls
  /\ status \in {{}, {"BSY"}, {"DRQ"}, {"ERR"}, {"DF"}}
  /\ job.cmd \in {"none", "read", "write", "flush"}
  /\ latch \in Nat
  /\ DOMAIN media = 0 .. drive.size - 1
  /\ unflushed \subseteq DOMAIN media
  /\ failed \in BOOLEAN /\ zero \in BOOLEAN /\ dropped \in BOOLEAN

\* While a call moves sectors the drive works on exactly the sectors that are left,
\* at the one the driver is at: the registers (ide.c:226) named the right sector in
\* each of the three modes, and no poll lets driver and drive lose step.
Behind == IF latch = Junk THEN 0 ELSE 1
Addressed ==
  ~zero /\ pc \in {"move", "flush"} /\ job.cmd \in {"read", "write"} =>
    /\ job.cmd = call.dir
    /\ job.at = call.lba + i - Behind
    /\ job.left = call.n - i + Behind

\* What a read has put into the caller's buffer is the contents of the sectors asked
\* for, in order, also when an error ended it (ide.c:329); without an error it is
\* all of them.  A read of numsects = 0 sectors (ide.c:327) ends that: it leaves the
\* drive waiting to be read, and its data goes to the calls that follow.
ReadFaithful ==
  call.dir = "read" /\ ~zero =>
    /\ \A k \in 1 .. Len(buf) : buf[k] = before[call.lba + k - 1]
    /\ pc = "idle" /\ err = "ok" => Len(buf) = call.n

\* A call that writes changes the sectors it was asked to and no other, in order and
\* with the caller's data; without an error of the drive it has changed them all
\* when it returns (ide.c:337).
Target(a) == call.dir = "write" /\ a >= call.lba /\ a < call.lba + call.n
WriteExact ==
  ~zero =>
    /\ \A a \in DOMAIN media :
         media[a] # before[a] => /\ Target(a)
                                 /\ media[a] = Wrap + calls * Byte + (a - call.lba)
    /\ pc = "idle" /\ err = "ok" /\ ~failed =>
         \A a \in DOMAIN media : Target(a) => media[a] # before[a]

\* When a call is over the drive has no transfer left, so the next command is heard,
\* unless some call has asked for 0 sectors.
LeftQuiet == pc = "idle" /\ ~zero => status \subseteq {"ERR", "DF"}

\* No sector of a completed write is left in the drive's cache, unless the drive
\* failed or was still busy with the last sector when the flush came (ide.c:345).
Durable ==
  pc = "idle" /\ call.dir = "write" /\ err = "ok" /\ ~failed /\ ~dropped => unflushed = {}

\* Every call returns, whatever errors the drive reports and whatever an earlier call
\* has left it in, as long as a busy drive ends what it does (ide_polling).
CallReturns == pc # "idle" ~> pc = "idle"
=============================================================================
