----------------------------- MODULE IdeProofs -----------------------------
(***************************************************************************)
(* Theorems about Ide, for every geometry, drive and number of calls; and  *)
(* about IdeProbe, for every set of attachments: init_ide enters the disks *)
(* and packet drives in the order of the channels (Listed), each with its  *)
(* own identity unless it is a packet drive (OwnIdentity).                 *)
(***************************************************************************)
EXTENDS Ide, IdeProbe, FiniteSetTheorems, TLAPS

-----------------------------------------------------------------------------
(***************************************************************************)
(* The registers.                                                          *)
(***************************************************************************)
LEMMA DivMod ==
  ASSUME NEW x \in Nat, NEW b \in Nat \ {0}
  PROVE  /\ x \div b \in Nat /\ x % b \in 0 .. b - 1
         /\ x = b * (x \div b) + (x % b)
OBVIOUS

LEMMA DivBound ==
  ASSUME NEW x \in Nat, NEW b \in Nat \ {0}, NEW c \in Nat, x < b * c
  PROVE  x \div b < c
OBVIOUS

LEMMA DivModUnique ==
  ASSUME NEW b \in Nat \ {0}, NEW q \in Nat, NEW r \in 0 .. b - 1
  PROVE  (b * q + r) \div b = q /\ (b * q + r) % b = r
OBVIOUS

LEMMA ModSmall ==
  ASSUME NEW b \in Nat \ {0}, NEW x \in 0 .. b - 1
  PROVE  x % b = x
OBVIOUS

LEMMA Products ==
  ASSUME NEW a \in Nat, NEW b \in Nat, NEW c \in Nat
  PROVE  /\ a * b \in Nat /\ a * b = b * a
         /\ a * (b * c) = (a * b) * c
         /\ a * (b + c) = a * b + a * c
OBVIOUS

LEMMA Monotone ==
  ASSUME NEW a \in Nat, NEW b \in Nat, NEW c \in Nat, a <= b
  PROVE  a * c <= b * c
OBVIOUS

\* The bounds of the three modes are numbers, and a 28-bit address is below 2^32 by
\* more than a call can move.
LEMMA Bounds ==
  /\ Byte \in Nat \ {0} /\ Nibble \in Nat \ {0} /\ Nibble < Byte
  /\ Heads \in Nat \ {0} /\ Heads <= Nibble /\ Spt \in Nat \ {0} /\ Spt < Byte
  /\ Wrap \in Nat /\ Limit28 \in Nat /\ LimitChs \in Nat
  /\ Byte <= Wrap /\ Limit28 + Byte <= Wrap
<1>1. /\ Byte \in Nat \ {0} /\ Nibble \in Nat \ {0} /\ Nibble < Byte
      /\ Heads \in Nat \ {0} /\ Heads <= Nibble /\ Spt \in Nat \ {0} /\ Spt < Byte
  BY AddressAssumption
<1> DEFINE sq == Byte * Byte
           cube == Byte * sq
<1>2. sq \in Nat /\ cube \in Nat /\ sq >= Byte /\ cube >= Byte
  <2>1. sq \in Nat /\ sq >= Byte
    BY <1>1, Products, Monotone
  <2> HIDE DEF sq
  <2>2. cube \in Nat /\ cube >= sq
    BY <1>1, <2>1
  <2> QED BY <1>1, <2>1, <2>2 DEF sq
<1>3. Limit28 = cube * Nibble /\ Wrap = cube * Byte
  BY <1>1, Products DEF Limit28, Wrap
<1>4. LimitChs \in Nat
  BY <1>1, Products DEF LimitChs
<1> HIDE DEF cube, sq
<1>5. cube * Nibble + cube <= cube * Byte
  <2>1. cube * Nibble + cube = cube * (Nibble + 1)
    BY <1>1, <1>2
  <2>2. (Nibble + 1) * cube <= Byte * cube
    BY <1>1, <1>2, Monotone
  <2> QED BY <1>1, <1>2, <2>1, <2>2, Products
<1>6. cube * Nibble \in Nat /\ cube * Byte \in Nat
  BY <1>1, <1>2, Products
<1> QED BY <1>1, <1>2, <1>3, <1>4, <1>5, <1>6

LEMMA LowHigh ==
  \A x \in Nat : Low(x) \in Nat /\ High(x) \in Nat
BY DivMod, Bounds DEF Low, High

\* Four digits of a sector number and the number itself.
LEMMA Digits ==
  ASSUME NEW lba \in Nat
  PROVE  /\ Low(lba) \in 0 .. Byte - 1
         /\ Low(High(lba)) \in 0 .. Byte - 1
         /\ Low(High(High(lba))) \in 0 .. Byte - 1
         /\ High(High(High(lba))) \in Nat
         /\ lba = Low(lba) + Byte * (Low(High(lba)) + Byte * Low(High(High(lba))))
                   + Byte * (Byte * (Byte * High(High(High(lba)))))
<1> DEFINE x1 == High(lba)
           x2 == High(x1)
           x3 == High(x2)
<1>1. x1 \in Nat /\ Low(lba) \in 0 .. Byte - 1 /\ lba = Byte * x1 + Low(lba)
  BY DivMod, Bounds DEF High, Low
<1> HIDE DEF x1
<1>2. x2 \in Nat /\ Low(x1) \in 0 .. Byte - 1 /\ x1 = Byte * x2 + Low(x1)
  BY <1>1, DivMod, Bounds DEF High, Low
<1> HIDE DEF x2
<1>3. x3 \in Nat /\ Low(x2) \in 0 .. Byte - 1 /\ x2 = Byte * x3 + Low(x2)
  BY <1>2, DivMod, Bounds DEF High, Low
<1> HIDE DEF x3
<1>4. lba = Low(lba) + Byte * (Low(x1) + Byte * Low(x2)) + Byte * (Byte * (Byte * x3))
  <2> DEFINE d1 == Low(x1)
             d2 == Low(x2)
  <2>1. d1 \in Nat /\ d2 \in Nat /\ Byte \in Nat
    BY <1>2, <1>3, Bounds
  <2> HIDE DEF d1, d2
  <2>2. Byte * x3 \in Nat /\ Byte * d2 \in Nat /\ Byte * (Byte * x3) \in Nat
    BY <1>3, <2>1, Products
  <2>3. Byte * x2 = Byte * (Byte * x3) + Byte * d2
    BY <1>3, <2>1, <2>2, Products DEF d2
  <2>4. x1 = Byte * (Byte * x3) + (d1 + Byte * d2)
    BY <1>2, <2>1, <2>2, <2>3 DEF d1
  <2>5. Byte * x1 = Byte * (Byte * (Byte * x3)) + Byte * (d1 + Byte * d2)
    BY <2>1, <2>2, <2>4, Products
  <2>6. Byte * (Byte * (Byte * x3)) \in Nat /\ Byte * (d1 + Byte * d2) \in Nat
    BY <2>1, <2>2, Products
  <2> QED BY <1>1, <2>5, <2>6 DEF d1, d2
<1> QED BY <1>1, <1>2, <1>3, <1>4 DEF x1, x2, x3

LEMMA TopDigit ==
  ASSUME NEW lba \in Nat, NEW top \in Nat, lba < Byte * (Byte * (Byte * top))
  PROVE  High(High(High(lba))) \in 0 .. top - 1
<1>1. /\ Byte * top \in Nat /\ Byte * (Byte * top) \in Nat
      /\ \A x \in Nat : High(x) \in Nat
  BY DivMod, Bounds, Products DEF High
<1>2. High(lba) < Byte * (Byte * top)
  BY <1>1, DivBound, Bounds DEF High
<1>3. High(High(lba)) < Byte * top
  BY <1>1, <1>2, DivBound, Bounds DEF High
<1>4. High(High(High(lba))) < top
  BY <1>1, <1>3, DivBound, Bounds DEF High
<1> QED BY <1>1, <1>4

\* Cylinder, head and sector of a number, and the number of those.
LEMMA ChsFaithful ==
  ASSUME NEW lba \in Nat, lba < LimitChs
  PROVE  Sector(Registers(lba, 0), 0) = lba
<1> DEFINE q == lba \div Spt
           r == lba % Spt
           c == q \div Heads
           h == q % Heads
<1>1. q \in Nat /\ r \in 0 .. Spt - 1 /\ lba = Spt * q + r
  BY DivMod, Bounds
<1> HIDE DEF q, r
<1>2. c \in Nat /\ h \in 0 .. Heads - 1 /\ q = Heads * c + h
  BY <1>1, DivMod, Bounds
<1> HIDE DEF c, h
<1>3. Track(lba) = (Heads * Spt) * c + Spt * h /\ Spt * h \in 0 .. Heads * Spt - 1
  <2>1. Track(lba) = Spt * q
    BY <1>1, Bounds DEF Track, r
  <2>2. Spt * q = (Heads * Spt) * c + Spt * h
    BY <1>2, Bounds
  <2>3. Spt * h <= Spt * (Heads - 1)
    BY <1>2, Bounds
  <2>4. Spt * (Heads - 1) = Heads * Spt - Spt
    BY Bounds
  <2> QED BY <1>2, <2>1, <2>2, <2>3, <2>4, Bounds
<1>4. Heads * Spt \in Nat \ {0}
  BY Bounds
<1>5. Track(lba) \div (Heads * Spt) = c /\ Track(lba) % (Heads * Spt) = Spt * h
  BY <1>2, <1>3, <1>4, DivModUnique
<1>6. HeadNr(lba) = h
  <2>1. Spt * h + 0 = Spt * h
    BY <1>2, Bounds
  <2>2. (Spt * h + 0) \div Spt = h
    BY <1>2, Bounds, DivModUnique
  <2> QED BY <1>5, <2>1, <2>2 DEF HeadNr
<1>7. c < Byte * Byte
  <2>1. lba < Spt * (Heads * (Byte * Byte))
    BY Bounds DEF LimitChs
  <2>2. q < Heads * (Byte * Byte)
    BY <2>1, DivBound, Bounds DEF q
  <2> QED BY <1>1, <2>2, DivBound, Bounds DEF c
<1>8. Cylinder(lba) = c
  BY <1>2, <1>5, <1>7, ModSmall, Bounds DEF Cylinder
<1>9. Low(c) + Byte * Low(High(c)) = c
  <2>1. c = Byte * High(c) + Low(c) /\ Low(c) \in Nat /\ High(c) \in Nat
    BY <1>2, DivMod, Bounds DEF High, Low
  <2>3. High(c) < Byte
    BY <1>2, <1>7, DivBound, Bounds DEF High
  <2>2. Low(High(c)) = High(c)
    BY <2>1, <2>3, ModSmall, Bounds DEF Low
  <2> QED BY <2>1, <2>2, Bounds
<1>10. Sector(Registers(lba, 0), 0) = (c * Heads + h) * Spt + (r + 1) - 1
  BY <1>6, <1>8, <1>9 DEF Sector, Registers, r
<1> QED BY <1>1, <1>2, <1>10, Bounds

LEMMA LbaFaithful ==
  ASSUME NEW lba \in Nat, NEW mode \in {1, 2},
         lba < IF mode = 1 THEN Limit28 ELSE Wrap
  PROVE  Sector(Registers(lba, mode), mode) = lba
<1> DEFINE top == High(High(High(lba)))
<1>1. CASE mode = 1
  <2>1. top % Nibble = top
    BY <1>1, TopDigit, ModSmall, Bounds DEF Limit28
  <2> QED BY <1>1, <2>1, Digits DEF Sector, Registers
<1>2. CASE mode = 2
  <2>1. Low(top) = top
    BY <1>2, TopDigit, ModSmall, Bounds DEF Wrap, Low
  <2> QED BY <1>2, <2>1, Digits DEF Sector, Registers
<1> QED BY <1>1, <1>2

\* The drive takes the registers for the sector the driver means (ide.c:226), in the
\* mode the driver chooses, as long as 16 bits hold the cylinder.
THEOREM RegistersFaithful ==
  ASSUME NEW lba \in 0 .. Wrap - 1, NEW lba28 \in BOOLEAN,
         Mode(lba, lba28) = 0 => lba < LimitChs
  PROVE  Sector(Registers(lba, Mode(lba, lba28)), Mode(lba, lba28)) = lba
<1>1. lba \in Nat /\ lba < Wrap
  BY Bounds
<1>2. CASE Mode(lba, lba28) = 0
  BY <1>1, <1>2, ChsFaithful
<1>3. CASE Mode(lba, lba28) # 0
  <2>1. Mode(lba, lba28) \in {1, 2} /\ (Mode(lba, lba28) = 1 => lba < Limit28)
    BY <1>1, <1>3, Bounds DEF Mode
  <2> QED BY <1>1, <2>1, LbaFaithful
<1> QED BY <1>2, <1>3

\* Whatever the number, the drive takes the registers for some sector.
LEMMA SectorNat ==
  ASSUME NEW lba \in Nat, NEW mode \in 0 .. 2
  PROVE  Sector(Registers(lba, mode), mode) \in Nat
<1>1. CASE mode = 0
  <2>1. lba % Spt \in Nat
    BY DivMod, Bounds
  <2>2. Track(lba) \in Nat
    BY DivMod, Bounds DEF Track
  <2>3. Heads * Spt \in Nat \ {0} /\ Byte * Byte \in Nat \ {0}
    BY Bounds
  <2>4. HeadNr(lba) \in Nat /\ Cylinder(lba) \in Nat
    <3>1. \A x \in Nat, b \in Nat \ {0} : x \div b \in Nat /\ x % b \in Nat
      BY DivMod
    <3> QED BY <2>2, <2>3, <3>1, Bounds DEF HeadNr, Cylinder
  <2>5. Low(Cylinder(lba)) \in Nat /\ Low(High(Cylinder(lba))) \in Nat
    BY <2>4, LowHigh
  <2> DEFINE cyl == Low(Cylinder(lba)) + Byte * Low(High(Cylinder(lba)))
  <2>6. cyl \in Nat
    BY <2>5, Products, Bounds
  <2>7. Sector(Registers(lba, mode), mode)
          = (cyl * Heads + HeadNr(lba)) * Spt + ((lba % Spt) + 1) - 1
    BY <1>1 DEF Sector, Registers
  <2> HIDE DEF cyl
  <2>8. (cyl * Heads + HeadNr(lba)) * Spt \in Nat
    BY <2>4, <2>6, Products, Bounds
  <2> QED BY <2>1, <2>7, <2>8
<1>2. CASE mode # 0
  <2> DEFINE top == IF mode = 1 THEN High(High(High(lba))) % Nibble
                    ELSE IF mode = 2 THEN Low(High(High(High(lba)))) ELSE 0
             low == Low(lba) + Byte * (Low(High(lba)) + Byte * Low(High(High(lba))))
  <2>1. top \in Nat
    <3>1. \A x \in Nat : x % Nibble \in Nat
      BY DivMod, Bounds
    <3> QED BY <3>1, LowHigh
  <2>2. low \in Nat
    <3>1. Low(lba) \in Nat /\ Low(High(lba)) \in Nat /\ Low(High(High(lba))) \in Nat
      BY LowHigh
    <3>2. \A x, y \in Nat : x + Byte * y \in Nat
      BY Bounds
    <3> QED BY <3>1, <3>2
  <2>3. Sector(Registers(lba, mode), mode) = low + Byte * (Byte * (Byte * top))
    BY <1>2 DEF Sector, Registers
  <2> HIDE DEF top, low
  <2> QED BY <2>1, <2>2, <2>3, Products, Bounds
<1> QED BY <1>1, <1>2
-----------------------------------------------------------------------------
(***************************************************************************)
(* The inductive invariant.  Types, and what a drive's status bits say of  *)
(* its job, hold in every state; the rest until a call has asked for 0     *)
(* sectors.                                                                *)
(***************************************************************************)
Job == [cmd : {"none", "read", "write", "flush"}, at : Nat, left : Nat, ext : BOOLEAN]
Contents == [0 .. drive.size - 1 -> Nat]

HostTypes ==
  /\ drive \in Drives
  /\ pc \in {"idle", "ready", "move", "flush"}
  /\ call \in [dir : {"read", "write"}, lba : Lbas \union {0}, n : Counts \union {0}]
  /\ i \in 0 .. call.n
  /\ buf \in Seq(Nat) /\ Len(buf) <= i
  /\ err \in {"ok", "error", "fault", "no data", "range"}
  /\ calls \in 0 .. MaxCalls

AtaTypes ==
  /\ status \in {{}, {"BSY"}, {"DRQ"}, {"ERR"}, {"DF"}}
  /\ job \in Job
  /\ latch \in Nat
  /\ media \in Contents
  /\ unflushed \subseteq DOMAIN media

PastTypes ==
  /\ before \in Contents
  /\ failed \in BOOLEAN /\ zero \in BOOLEAN /\ dropped \in BOOLEAN

Types == HostTypes /\ AtaTypes /\ PastTypes

Moving == job.cmd \in {"read", "write"}

DriveInv ==
  /\ status = {"DRQ"} => Moving /\ latch = Junk
  /\ job.cmd = "none" <=> status \in {{}, {"ERR"}, {"DF"}}
  /\ latch # Junk => job.cmd = "write" /\ status = {"BSY"}
  /\ Moving => job.left > 0
  /\ status = {"DRQ"} \/ latch # Junk => job.at < drive.size

Accepted ==
  /\ pc # "idle" => call.n > 0 /\ ~OutOfRange(call.lba, call.n)
  /\ pc \in {"idle", "ready"} => job.cmd = "none"
  /\ pc = "ready" => i = 0 /\ buf = <<>>
  /\ pc = "flush" => call.dir = "write" /\ i = call.n
  /\ pc = "move" => job.cmd # "flush"

Reading ==
  call.dir = "read" =>
    /\ media = before
    /\ Len(buf) = i
    /\ \A k \in 1 .. Len(buf) : buf[k] = before[call.lba + k - 1]
    /\ pc = "idle" /\ err = "ok" => i = call.n

\* What the call writes to sector a.
Token(a) == Wrap + calls * Byte + (a - call.lba)
Stored(k) == \A a \in DOMAIN media :
               a >= call.lba /\ a < call.lba + k => media[a] = Token(a)

Writing ==
  call.dir = "write" =>
    /\ buf = <<>>
    /\ \A a \in DOMAIN media : media[a] # before[a] => Target(a) /\ media[a] = Token(a)
    /\ pc \in {"idle", "ready"} => latch = Junk
    /\ latch # Junk => i > 0 /\ latch = Token(job.at)
    /\ ~failed /\ pc \in {"move", "flush"} =>
         /\ Stored(i - Behind)
         /\ i - Behind < call.n => job.cmd = "write"
    /\ pc = "idle" /\ err = "ok" /\ ~failed => Stored(call.n)

\* Contents that were there before are older than what the call writes.
Older == \A a \in DOMAIN before : before[a] < Wrap + calls * Byte

CallInv == Accepted /\ Addressed /\ Reading /\ Writing /\ Older

\* A flush the drive heard is under way or has emptied the cache.
Settled ==
  /\ pc = "flush" \/ (pc = "idle" /\ call.dir = "write" /\ err = "ok")
  /\ ~failed /\ ~dropped
  => \/ pc = "flush" /\ job.cmd = "flush"
     \/ job.cmd = "none" /\ unflushed = {}

IInv == Types /\ DriveInv /\ Settled /\ (~zero => CallInv)
-----------------------------------------------------------------------------
(***************************************************************************)
(* Types and the drive's bits.                                             *)
(***************************************************************************)
LEMMA ConstantTypes ==
  /\ \A d \in Drives : d.lba28 \in BOOLEAN /\ d.size \in Nat /\ d.size <= Wrap
                       /\ (~d.lba28 => d.size <= LimitChs)
  /\ \A n \in Counts \union {0} : n \in Nat /\ n < Byte
  /\ \A a \in Lbas \union {0} : a \in Nat /\ a < Wrap
  /\ MaxCalls \in Nat /\ Junk \in Nat
<1>1. MaxCalls * Byte \in Nat
  BY IdeAssumption, Bounds, Products
<1> QED BY <1>1, IdeAssumption, Bounds DEF Junk

LEMMA PlainTypes ==
  ASSUME Types
  PROVE  /\ call.n \in Nat /\ call.n < Byte /\ call.lba \in Nat /\ call.lba < Wrap
         /\ call.dir \in {"read", "write"}
         /\ i \in Nat /\ i <= call.n
         /\ calls \in Nat /\ calls <= MaxCalls
         /\ drive.size \in Nat /\ drive.size <= Wrap
         /\ drive.lba28 \in BOOLEAN /\ (~drive.lba28 => drive.size <= LimitChs)
         /\ DOMAIN media = 0 .. drive.size - 1
         /\ job.at \in Nat /\ job.left \in Nat
<1>1. /\ call.n \in Counts \union {0} /\ call.lba \in Lbas \union {0}
      /\ call.dir \in {"read", "write"}
  BY DEF Types, HostTypes
<1>2. call.n \in Nat /\ call.n < Byte /\ call.lba \in Nat /\ call.lba < Wrap
  BY <1>1, ConstantTypes
<1>3. drive \in Drives
  BY DEF Types, HostTypes
<1>4. /\ drive.size \in Nat /\ drive.size <= Wrap
      /\ drive.lba28 \in BOOLEAN /\ (~drive.lba28 => drive.size <= LimitChs)
  BY <1>3, ConstantTypes
<1>5. i \in 0 .. call.n /\ calls \in 0 .. MaxCalls
  BY DEF Types, HostTypes
<1>6. i \in Nat /\ i <= call.n
  BY <1>2, <1>5
<1>7. calls \in Nat /\ calls <= MaxCalls
  BY <1>5, ConstantTypes
<1>8. DOMAIN media = 0 .. drive.size - 1
  BY DEF Types, AtaTypes, Contents
<1>9. job.at \in Nat /\ job.left \in Nat
  BY DEF Types, AtaTypes, Job
<1> QED BY <1>1, <1>2, <1>4, <1>6, <1>7, <1>8, <1>9

\* What a call writes is never taken for junk.
LEMMA FreshNat ==
  ASSUME Types, More
  PROVE  Fresh \in Nat /\ Fresh < Junk
<1>1. i \in Nat /\ i < call.n /\ call.n < Byte /\ call.n \in Nat /\ calls \in Nat
      /\ calls <= MaxCalls
  BY PlainTypes DEF More
<1>2. MaxCalls \in Nat /\ Byte \in Nat /\ Wrap \in Nat /\ Byte <= Wrap
  BY Bounds, ConstantTypes
<1> DEFINE was == calls * Byte
           most == MaxCalls * Byte
<1>3. was \in Nat /\ most \in Nat /\ was <= most
  BY <1>1, <1>2, Monotone, Products
<1>4. Fresh = Wrap + was + i /\ Junk = Wrap * 2 + most
  BY DEF Fresh, Junk
<1> HIDE DEF was, most
<1>5. Wrap * 2 = Wrap + Wrap
  BY <1>2
<1> QED BY <1>1, <1>2, <1>3, <1>4, <1>5

LEMMA ContinueTypes ==
  ASSUME Types, job.left > 0, NEW bits, Continue(bits)
  PROVE  /\ job' \in Job
         /\ \/ job' = None /\ status' = {} /\ job.left = 1
            \/ /\ status' = bits
               /\ job'.cmd = job.cmd /\ job'.ext = job.ext
               /\ job'.at = job.at + 1 /\ job'.left = job.left - 1 /\ job'.left > 0
<1>1. job \in Job /\ job.left \in Nat /\ job.at \in Nat
  BY PlainTypes DEF Types, AtaTypes
<1>2. CASE job.left = 1
  <2>1. job' = None /\ status' = {}
    BY <1>2 DEF Continue
  <2>2. None \in Job
    BY DEF None, Job
  <2> QED BY <1>2, <2>1, <2>2
<1>3. CASE job.left # 1
  <2>1. job' = [job EXCEPT !.at = job.at + 1, !.left = job.left - 1] /\ status' = bits
    BY <1>3 DEF Continue, Advance
  <2>2. job.at + 1 \in Nat /\ job.left - 1 \in Nat /\ job.left - 1 > 0
    BY <1>1, <1>3
  <2>3. /\ job'.cmd = job.cmd /\ job'.ext = job.ext
        /\ job'.at = job.at + 1 /\ job'.left = job.left - 1
    BY <1>1, <2>1 DEF Job
  <2>4. job' \in Job
    BY <1>1, <2>1, <2>2 DEF Job
  <2> QED BY <2>1, <2>2, <2>3, <2>4
<1> QED BY <1>2, <1>3

LEMMA TypesInit == Init => Types /\ DriveInv
<1> SUFFICES ASSUME Init PROVE Types /\ DriveInv
  OBVIOUS
<1>1. drive \in Drives /\ drive.size \in Nat
  BY ConstantTypes DEF Init
<1>2. call = NoCall /\ call.n = 0 /\ i = 0 /\ buf = <<>> /\ calls = 0
  BY DEF Init, NoCall
<1>3. NoCall \in [dir : {"read", "write"}, lba : Lbas \union {0}, n : Counts \union {0}]
  BY DEF NoCall
<1>4. i \in 0 .. call.n /\ calls \in 0 .. MaxCalls
  BY <1>2, ConstantTypes
<1>5. buf \in Seq(Nat) /\ Len(buf) <= i
  BY <1>2
<1>6. HostTypes
  BY <1>1, <1>2, <1>3, <1>4, <1>5 DEF Init, HostTypes
<1>7. media = [a \in 0 .. drive.size - 1 |-> a] /\ before = media
  BY DEF Init
<1>8. media \in Contents /\ before \in Contents
  BY <1>1, <1>7 DEF Contents
<1>9. job = None /\ None \in Job
  BY DEF Init, None, Job
<1>10. AtaTypes
  BY <1>8, <1>9, ConstantTypes DEF Init, AtaTypes
<1>11. PastTypes
  BY <1>8 DEF Init, PastTypes
<1>12. DriveInv
  BY <1>9 DEF Init, DriveInv, None, Moving
<1> QED BY <1>6, <1>10, <1>11, <1>12 DEF Types

LEMMA TypesDrive ==
  ASSUME Types, DriveInv, DriveStep
  PROVE  Types' /\ DriveInv'
<1>0. UNCHANGED <<drive, pc, call, i, buf, err, calls, before, zero, dropped>>
  BY DEF DriveStep, host
<1>1. HostTypes' /\ Contents' = Contents
  BY <1>0 DEF Types, HostTypes, Contents
<1>2. failed' \in BOOLEAN => PastTypes'
  BY <1>0, <1>1 DEF Types, PastTypes
<1>3. None \in Job /\ None.cmd = "none"
  BY DEF None, Job
<1>4. CASE Offer
  <2>1. AtaTypes' /\ failed' = failed
    BY <1>1, <1>4 DEF Offer, Types, AtaTypes
  <2>2. DriveInv'
    BY <1>0, <1>4 DEF Offer, DriveInv, Moving, Reachable
  <2> QED BY <1>1, <1>2, <2>1, <2>2 DEF Types, PastTypes
<1>5. CASE Commit
  <2>1. /\ job' \in Job /\ latch' = Junk /\ failed' = failed
        /\ \/ job' = None /\ status' = {}
           \/ status' = {"BSY"} /\ job'.left > 0 /\ job'.cmd = "write"
    BY <1>5, ContinueTypes DEF Commit, DriveInv, Moving
  <2>2. media' = [media EXCEPT ![job.at] = latch] /\ latch \in Nat /\ media \in Contents
    BY <1>5 DEF Commit, Types, AtaTypes
  <2>3. media' \in Contents /\ DOMAIN media' = DOMAIN media
    BY <2>2 DEF Contents
  <2>4. job.at \in DOMAIN media
    BY <1>5, PlainTypes DEF Commit, DriveInv
  <2>5. unflushed' \subseteq DOMAIN media'
    BY <1>5, <2>3, <2>4 DEF Commit, Types, AtaTypes
  <2>6. status' \in {{}, {"BSY"}, {"DRQ"}, {"ERR"}, {"DF"}}
    BY <2>1
  <2>7. AtaTypes'
    BY <1>1, <2>1, <2>3, <2>5, <2>6, ConstantTypes DEF AtaTypes
  <2>8. DriveInv'
    BY <1>3, <2>1 DEF DriveInv, Moving
  <2> QED BY <1>1, <1>2, <2>1, <2>7, <2>8 DEF Types, PastTypes
<1>6. CASE FlushDone
  <2>1. job' = None /\ status' = {} /\ unflushed' = {} /\ UNCHANGED <<latch, media, failed>>
    BY <1>6 DEF FlushDone
  <2>2. AtaTypes'
    BY <1>1, <1>3, <2>1 DEF Types, AtaTypes
  <2>3. DriveInv'
    BY <1>0, <1>3, <1>6, <2>1 DEF FlushDone, DriveInv, Moving
  <2> QED BY <1>1, <1>2, <2>1, <2>2, <2>3 DEF Types, PastTypes
<1>7. CASE Fail
  <2>1. /\ job' = None /\ latch' = Junk /\ status' \in {{"ERR"}, {"DF"}} /\ failed' = TRUE
        /\ UNCHANGED <<media, unflushed>>
    BY <1>7 DEF Fail
  <2>2. AtaTypes'
    BY <1>1, <1>3, <2>1, ConstantTypes DEF Types, AtaTypes
  <2>3. DriveInv'
    BY <1>3, <2>1 DEF DriveInv, Moving
  <2> QED BY <1>1, <1>2, <2>1, <2>2, <2>3 DEF Types
<1> QED BY <1>4, <1>5, <1>6, <1>7 DEF DriveStep

LEMMA TypesCall ==
  ASSUME Types, DriveInv,
         NEW dir \in {"read", "write"}, NEW lba \in Lbas, NEW n \in Counts, Call(dir, lba, n)
  PROVE  Types' /\ DriveInv'
<1>1. /\ call' = [dir |-> dir, lba |-> lba, n |-> n] /\ i' = 0 /\ buf' = <<>>
      /\ calls < MaxCalls /\ calls' = calls + 1
      /\ before' = media /\ failed' = FALSE
      /\ UNCHANGED <<drive, status, job, latch, media, unflushed, dropped>>
  BY DEF Call, ata
<1>2. /\ pc' \in {"idle", "ready", "move", "flush"} /\ zero' \in BOOLEAN
      /\ err' \in {"ok", "error", "fault", "no data", "range"}
  BY DEF Call, Types, HostTypes, PastTypes
<1>3. call' \in [dir : {"read", "write"}, lba : Lbas \union {0}, n : Counts \union {0}]
      /\ call'.n = n /\ n \in Nat
  BY <1>1, ConstantTypes
<1>4. i' \in 0 .. call'.n /\ buf' \in Seq(Nat) /\ Len(buf') <= i'
  BY <1>1, <1>3
<1>5. calls' \in 0 .. MaxCalls
  BY <1>1, PlainTypes, ConstantTypes
<1>6. HostTypes'
  BY <1>1, <1>2, <1>3, <1>4, <1>5 DEF Types, HostTypes
<1>7. AtaTypes' /\ PastTypes'
  BY <1>1, <1>2 DEF Types, AtaTypes, PastTypes, Contents
<1>8. DriveInv'
  BY <1>1 DEF DriveInv, Moving
<1> QED BY <1>6, <1>7, <1>8 DEF Types

\* A command the drive may hear leaves it in a state of its own.
LEMMA TypesCommand ==
  ASSUME Types, DriveInv, NEW j \in Job, j.cmd \in {"read", "write"} => j.left > 0,
         j.cmd # "none", Command(j), UNCHANGED <<drive, media, unflushed>>
  PROVE  AtaTypes' /\ DriveInv'
<1>1. CASE status \intersect {"BSY", "DRQ"} = {}
  <2>1. job' = j /\ status' = {"BSY"} /\ latch' = Junk
    BY <1>1 DEF Command
  <2>2. AtaTypes'
    BY <2>1, ConstantTypes DEF Types, AtaTypes, Contents
  <2>3. DriveInv'
    BY <2>1 DEF DriveInv, Moving
  <2> QED BY <2>2, <2>3
<1>2. CASE status \intersect {"BSY", "DRQ"} # {}
  <2>1. UNCHANGED <<job, status, latch>>
    BY <1>2 DEF Command
  <2>2. AtaTypes'
    BY <2>1 DEF Types, AtaTypes, Contents
  <2>3. DriveInv'
    BY <2>1 DEF DriveInv, Moving
  <2> QED BY <2>2, <2>3
<1> QED BY <1>1, <1>2

LEMMA ModeType ==
  ASSUME NEW lba \in Nat, NEW lba28 \in BOOLEAN
  PROVE  Mode(lba, lba28) \in 0 .. 2
BY DEF Mode

\* The command Issue sends.
Request == LET mode == Mode(call.lba, drive.lba28)
         IN  [cmd  |-> call.dir,
              at   |-> Sector(Registers(call.lba, mode), mode),
              left |-> IF call.n # 0 THEN call.n
                       ELSE IF mode = 2 THEN Byte * Byte ELSE Byte,
              ext  |-> mode = 2]

LEMMA OrderJob ==
  ASSUME Types
  PROVE  Request \in Job /\ Request.left > 0 /\ Request.cmd = call.dir
<1> DEFINE mode == Mode(call.lba, drive.lba28)
<1>1. mode \in 0 .. 2
  BY PlainTypes, ModeType
<1>2. Sector(Registers(call.lba, mode), mode) \in Nat
  BY <1>1, PlainTypes, SectorNat
<1> DEFINE left == IF call.n # 0 THEN call.n ELSE IF mode = 2 THEN Byte * Byte ELSE Byte
<1>3. left \in Nat /\ left > 0
  <2>1. Byte \in Nat \ {0} /\ Byte * Byte \in Nat \ {0}
    BY Bounds
  <2> QED BY <2>1, PlainTypes
<1>4. Request = [cmd |-> call.dir, at |-> Sector(Registers(call.lba, mode), mode),
               left |-> left, ext |-> mode = 2]
  BY DEF Request
<1> HIDE DEF mode, left
<1> QED BY <1>2, <1>3, <1>4, PlainTypes DEF Job

LEMMA TypesIssue ==
  ASSUME Types, DriveInv, Issue
  PROVE  Types' /\ DriveInv'
<1>1. /\ UNCHANGED <<drive, call, i, buf, err, calls, media, unflushed>>
      /\ UNCHANGED <<before, failed, zero, dropped>> /\ pc' = "move"
  BY DEF Issue, past
<1>2. Command(Request)
  BY DEF Issue, Request
<1>3. AtaTypes' /\ DriveInv'
  BY <1>1, <1>2, OrderJob, TypesCommand, PlainTypes
<1>4. HostTypes' /\ PastTypes'
  BY <1>1 DEF Types, HostTypes, PastTypes, Contents
<1> QED BY <1>3, <1>4 DEF Types

LEMMA TypesReadFails ==
  ASSUME Types, DriveInv, ReadFails
  PROVE  Types' /\ DriveInv'
<1>1. /\ UNCHANGED <<drive, call, i, buf, calls, status, job, latch, media, unflushed>>
      /\ UNCHANGED <<before, failed, zero, dropped>> /\ pc' = "idle"
      /\ err' \in {"error", "fault", "no data"}
  BY DEF ReadFails, past, ata, Finish
<1>2. HostTypes' /\ AtaTypes' /\ PastTypes'
  BY <1>1 DEF Types, HostTypes, AtaTypes, PastTypes, Contents
<1>3. DriveInv'
  BY <1>1 DEF DriveInv, Moving
<1> QED BY <1>2, <1>3 DEF Types

\* What a call that ends does to the state.
LEMMA TypesDone ==
  ASSUME Types, DriveInv, ReadDone \/ WriteDone
  PROVE  Types' /\ DriveInv'
<1>1. /\ UNCHANGED <<drive, call, i, buf, calls, status, job, latch, media, unflushed>>
      /\ UNCHANGED <<before, failed, zero, dropped>> /\ pc' = "idle" /\ err' = "ok"
  BY DEF ReadDone, WriteDone, past, ata, Finish
<1>2. HostTypes' /\ AtaTypes' /\ PastTypes'
  BY <1>1 DEF Types, HostTypes, AtaTypes, PastTypes, Contents
<1>3. DriveInv'
  BY <1>1 DEF DriveInv, Moving
<1> QED BY <1>2, <1>3 DEF Types

\* The sector a read moves when the drive offers one.
LEMMA OfferedType ==
  ASSUME Types, DriveInv, status = {"DRQ"}
  PROVE  job.at \in DOMAIN media /\ media[job.at] \in Nat /\ job.left > 0 /\ Moving
<1>1. job.at \in DOMAIN media /\ job.left > 0 /\ Moving
  BY PlainTypes DEF DriveInv
<1> QED BY <1>1 DEF Types, AtaTypes, Contents

LEMMA TypesReadSector ==
  ASSUME Types, DriveInv, ReadSector
  PROVE  Types' /\ DriveInv'
<1>1. /\ UNCHANGED <<drive, pc, call, err, calls, latch, media, unflushed>>
      /\ UNCHANGED <<before, failed, zero, dropped>> /\ i' = i + 1 /\ i < call.n
      /\ "DRQ" \in status
  BY DEF ReadSector, past, More
<1>2. status = {"DRQ"} /\ latch = Junk
  BY <1>1 DEF Types, AtaTypes, DriveInv
<1>3. PICK word \in Nat : buf' = Append(buf, word)
  BY <1>2, OfferedType, ConstantTypes DEF ReadSector
<1>4. buf' \in Seq(Nat) /\ Len(buf') = Len(buf) + 1
  <2>1. buf \in Seq(Nat)
    BY DEF Types, HostTypes
  <2> QED BY <1>3, <2>1
<1>5. i' \in 0 .. call'.n /\ Len(buf') <= i'
  <2>1. buf \in Seq(Nat) /\ Len(buf) <= i
    BY DEF Types, HostTypes
  <2>2. Len(buf) \in Nat
    BY <2>1
  <2> QED BY <1>1, <1>4, <2>1, <2>2, PlainTypes
<1>6. HostTypes' /\ PastTypes'
  BY <1>1, <1>4, <1>5 DEF Types, HostTypes, PastTypes, Contents
<1>7. CASE job.cmd = "read"
  <2>1. Continue({"BSY"})
    BY <1>7 DEF ReadSector
  <2>2. /\ job' \in Job
        /\ \/ job' = None /\ status' = {}
           \/ status' = {"BSY"} /\ job'.left > 0 /\ job'.cmd = "read"
    BY <1>2, <1>7, <2>1, OfferedType, ContinueTypes
  <2>3. AtaTypes'
    BY <1>1, <2>2 DEF Types, AtaTypes, Contents
  <2>4. DriveInv'
    BY <1>1, <1>2, <2>2 DEF DriveInv, Moving, None
  <2> QED BY <1>6, <2>3, <2>4 DEF Types
<1>8. CASE job.cmd # "read"
  <2>1. UNCHANGED <<status, job>>
    BY <1>8 DEF ReadSector
  <2>2. AtaTypes'
    BY <1>1, <2>1 DEF Types, AtaTypes, Contents
  <2>3. DriveInv'
    BY <1>1, <2>1 DEF DriveInv, Moving
  <2> QED BY <1>6, <2>2, <2>3 DEF Types
<1> QED BY <1>7, <1>8

LEMMA TypesWriteSector ==
  ASSUME Types, DriveInv, WriteSector
  PROVE  Types' /\ DriveInv'
<1>1. /\ UNCHANGED <<drive, pc, call, buf, err, calls, job, media, unflushed>>
      /\ UNCHANGED <<before, failed, zero, dropped>> /\ i' = i + 1 /\ i < call.n /\ More
  BY DEF WriteSector, past, More
<1>2. i' \in 0 .. call'.n /\ Len(buf') <= i'
  <2>1. buf \in Seq(Nat) /\ Len(buf) <= i
    BY DEF Types, HostTypes
  <2>2. Len(buf) \in Nat
    BY <2>1
  <2> QED BY <1>1, <2>1, <2>2, PlainTypes
<1>3. HostTypes' /\ PastTypes'
  BY <1>1, <1>2 DEF Types, HostTypes, PastTypes, Contents
<1>4. CASE "DRQ" \in status /\ job.cmd = "write"
  <2>1. latch' = Fresh /\ status' = {"BSY"}
    BY <1>4 DEF WriteSector
  <2>2. Fresh \in Nat
    BY <1>1, FreshNat
  <2>3. AtaTypes'
    BY <1>1, <2>1, <2>2 DEF Types, AtaTypes, Contents
  <2>4. status = {"DRQ"}
    BY <1>4 DEF Types, AtaTypes
  <2>5. DriveInv'
    BY <1>1, <1>4, <2>1, <2>4 DEF DriveInv, Moving
  <2> QED BY <1>3, <2>3, <2>5 DEF Types
<1>5. CASE ~("DRQ" \in status /\ job.cmd = "write")
  <2>1. UNCHANGED <<latch, status>>
    BY <1>5 DEF WriteSector
  <2>2. AtaTypes'
    BY <1>1, <2>1 DEF Types, AtaTypes, Contents
  <2>3. DriveInv'
    BY <1>1, <2>1 DEF DriveInv, Moving
  <2> QED BY <1>3, <2>2, <2>3 DEF Types
<1> QED BY <1>4, <1>5

LEMMA TypesFlush ==
  ASSUME Types, DriveInv, Flush
  PROVE  Types' /\ DriveInv'
<1> DEFINE order == [None EXCEPT !.cmd = "flush"]
<1>1. /\ UNCHANGED <<drive, call, i, buf, err, calls, media, unflushed>>
      /\ UNCHANGED <<before, failed, zero>> /\ pc' = "flush" /\ dropped' \in BOOLEAN
      /\ Command(order)
  BY DEF Flush
<1>2. order \in Job /\ order.cmd = "flush"
  BY DEF None, Job
<1> HIDE DEF order
<1>3. AtaTypes' /\ DriveInv'
  BY <1>1, <1>2, TypesCommand
<1>4. HostTypes' /\ PastTypes'
  BY <1>1 DEF Types, HostTypes, PastTypes, Contents
<1> QED BY <1>3, <1>4 DEF Types

LEMMA TypesStutter ==
  ASSUME Types, DriveInv, UNCHANGED vars
  PROVE  Types' /\ DriveInv'
<1>1. /\ UNCHANGED <<drive, pc, call, i, buf, err, calls>>
      /\ UNCHANGED <<status, job, latch, media, unflushed>>
      /\ UNCHANGED <<before, failed, zero, dropped>>
  BY DEF vars, host, ata, past
<1>2. HostTypes' /\ Contents' = Contents
  BY <1>1 DEF Types, HostTypes, Contents
<1>3. AtaTypes' /\ PastTypes'
  BY <1>1, <1>2 DEF Types, AtaTypes, PastTypes
<1>4. DriveInv'
  BY <1>1 DEF DriveInv, Moving
<1> QED BY <1>2, <1>3, <1>4 DEF Types

LEMMA TypesNext ==
  ASSUME Types, DriveInv, [Next]_vars
  PROVE  Types' /\ DriveInv'
<1>1. CASE DriveStep
  BY <1>1, TypesDrive
<1>2. CASE Driver
  BY <1>2, TypesIssue, TypesReadFails, TypesReadSector, TypesDone, TypesWriteSector,
     TypesFlush DEF Driver
<1>3. CASE \E dir \in {"read", "write"}, lba \in Lbas, n \in Counts : Call(dir, lba, n)
  BY <1>3, TypesCall
<1>4. CASE UNCHANGED vars
  BY <1>4, TypesStutter
<1> QED BY <1>1, <1>2, <1>3, <1>4 DEF Next

\* Every variable has its type in every state the driver and the drive reach.
THEOREM TypeCorrect == Spec => []TypeOK
<1>1. Types => TypeOK
  <2> SUFFICES ASSUME Types PROVE TypeOK
    OBVIOUS
  <2>1. job.cmd \in {"none", "read", "write", "flush"}
    BY DEF Types, AtaTypes, Job
  <2> QED BY <2>1, PlainTypes DEF Types, HostTypes, AtaTypes, PastTypes, TypeOK
<1> QED BY <1>1, TypesInit, TypesNext, PTL DEF Spec
-----------------------------------------------------------------------------
(***************************************************************************)
(* The flush.                                                              *)
(***************************************************************************)
LEMMA SettledNext ==
  ASSUME Types, DriveInv, Settled, [Next]_vars
  PROVE  Settled'
<1>1. CASE DriveStep
  <2>1. UNCHANGED <<pc, call, err, dropped>>
    BY <1>1 DEF DriveStep, host
  <2>2. CASE Offer
    <3>1. UNCHANGED <<job, unflushed, failed>>
      BY <2>2 DEF Offer
    <3> QED BY <2>1, <3>1 DEF Settled
  <2>3. CASE Commit
    <3>1. job.cmd = "write" /\ failed' = failed
      BY <2>3 DEF Commit
    <3> QED BY <2>1, <3>1 DEF Settled
  <2>4. CASE FlushDone
    <3>1. job'.cmd = "none" /\ unflushed' = {}
      BY <2>4 DEF FlushDone, None
    <3> QED BY <3>1 DEF Settled
  <2>5. CASE Fail
    <3>1. failed'
      BY <2>5 DEF Fail
    <3> QED BY <3>1 DEF Settled
  <2> QED BY <1>1, <2>2, <2>3, <2>4, <2>5 DEF DriveStep
<1>2. CASE Issue
  BY <1>2 DEF Issue, Settled
<1>3. CASE ReadFails
  <2>1. pc' = "idle" /\ err' # "ok"
    BY <1>3 DEF ReadFails, Finish
  <2> QED BY <2>1 DEF Settled
<1>4. CASE ReadSector
  <2>1. pc' = "move"
    BY <1>4 DEF ReadSector
  <2> QED BY <2>1 DEF Settled
<1>5. CASE ReadDone
  <2>1. pc' = "idle" /\ call'.dir = "read"
    BY <1>5 DEF ReadDone, Finish
  <2> QED BY <2>1 DEF Settled
<1>6. CASE WriteSector
  <2>1. pc' = "move"
    BY <1>6 DEF WriteSector
  <2> QED BY <2>1 DEF Settled
<1>7. CASE Flush
  <2>1. CASE status \intersect {"BSY", "DRQ"} = {}
    <3>1. pc' = "flush" /\ job'.cmd = "flush"
      BY <1>7, <2>1 DEF Flush, Command, None
    <3> QED BY <3>1 DEF Settled
  <2>2. CASE status \intersect {"BSY", "DRQ"} # {}
    <3>1. dropped'
      BY <1>7, <2>2 DEF Flush
    <3> QED BY <3>1 DEF Settled
  <2> QED BY <2>1, <2>2
<1>8. CASE WriteDone
  <2>1. UNCHANGED <<call, status, job, unflushed, failed, dropped>> /\ pc = "flush" /\ Ready
    BY <1>8 DEF WriteDone, ata, past, Polled
  <2>2. job.cmd # "flush"
    BY <2>1 DEF Ready, Types, AtaTypes, DriveInv, Moving
  <2> QED BY <2>1, <2>2 DEF Settled
<1>9. CASE \E dir \in {"read", "write"}, lba \in Lbas, n \in Counts : Call(dir, lba, n)
  <2>1. \/ pc' = "ready"
        \/ pc' = pc /\ pc = "idle" /\ err' = "range"
    BY <1>9 DEF Call
  <2> QED BY <2>1 DEF Settled
<1>10. CASE UNCHANGED vars
  BY <1>10 DEF vars, host, ata, past, Settled
<1> QED BY <1>1, <1>2, <1>3, <1>4, <1>5, <1>6, <1>7, <1>8, <1>9, <1>10 DEF Next, Driver
-----------------------------------------------------------------------------
(***************************************************************************)
(* A call and its sectors.                                                 *)
(***************************************************************************)
\* Before any call has moved a sector.
LEMMA CallInit == Init => Settled /\ CallInv
<1> SUFFICES ASSUME Init PROVE Settled /\ CallInv
  OBVIOUS
<1>1. /\ pc = "idle" /\ call.dir = "read" /\ i = 0 /\ call.n = 0 /\ buf = <<>> /\ calls = 0
      /\ job.cmd = "none" /\ media = before
  BY DEF Init, NoCall, None
<1>2. Settled /\ Accepted /\ Addressed /\ Reading /\ Writing
  BY <1>1 DEF Settled, Accepted, Addressed, Reading, Writing
<1>3. Older
  <2>1. drive.size \in Nat /\ drive.size <= Wrap /\ Wrap \in Nat /\ Byte \in Nat
    BY TypesInit, PlainTypes, Bounds
  <2>2. calls * Byte = 0
    BY <1>1, <2>1
  <2>3. before = [a \in 0 .. drive.size - 1 |-> a]
    BY DEF Init
  <2>4. ASSUME NEW a \in DOMAIN before PROVE before[a] < Wrap + calls * Byte
    <3>1. a \in 0 .. drive.size - 1 /\ before[a] = a
      BY <2>3
    <3> QED BY <2>1, <2>2, <3>1
  <2> QED BY <2>4 DEF Older
<1> QED BY <1>2, <1>3 DEF CallInv

\* Nothing but the drive's bits, the drive's cache and the history of it.
LEMMA CallSame ==
  ASSUME CallInv,
         UNCHANGED <<drive, pc, call, i, buf, err, calls, job, latch, media, before, failed, zero>>
  PROVE  CallInv'
<1>1. Accepted' /\ Older'
  BY DEF CallInv, Accepted, Older, OutOfRange
<1>2. Addressed'
  BY DEF CallInv, Addressed, Behind
<1>3. Reading'
  BY DEF CallInv, Reading
<1>4. Writing'
  BY DEF CallInv, Writing, Target, Token, Stored, Behind
<1> QED BY <1>1, <1>2, <1>3, <1>4 DEF CallInv

\* What a drive that stores a sector has to do with the call.
LEMMA CommitFacts ==
  ASSUME Types, DriveInv, CallInv, ~zero, Commit
  PROVE  /\ pc \in {"move", "flush"} /\ call.dir = "write" /\ i > 0
         /\ job.at = call.lba + i - 1 /\ job.left = call.n - i + 1
         /\ latch = Token(job.at) /\ Behind = 1
<1>1. job.cmd = "write" /\ latch # Junk
  BY DEF Commit
<1>2. pc \in {"move", "flush"}
  BY <1>1 DEF CallInv, Accepted, Types, HostTypes
<1>3. call.dir = "write" /\ job.at = call.lba + i - Behind /\ job.left = call.n - i + Behind
  BY <1>1, <1>2 DEF CallInv, Addressed
<1>4. Behind = 1
  BY <1>1 DEF Behind
<1> QED BY <1>1, <1>2, <1>3, <1>4 DEF CallInv, Writing

LEMMA CallCommit ==
  ASSUME Types, DriveInv, CallInv, ~zero, Commit,
         UNCHANGED <<drive, host, before, zero, dropped>>
  PROVE  CallInv'
<1>1. /\ UNCHANGED <<drive, pc, call, i, buf, err, calls, before, zero, failed>>
      /\ media' = [media EXCEPT ![job.at] = latch] /\ latch' = Junk
      /\ Continue({"BSY"}) /\ job.cmd = "write"
  BY DEF Commit, host
<1>2. /\ pc \in {"move", "flush"} /\ call.dir = "write" /\ i > 0
      /\ job.at = call.lba + i - 1 /\ job.left = call.n - i + 1
      /\ latch = Token(job.at) /\ Behind = 1
  BY CommitFacts
<1>3. /\ call.n \in Nat /\ call.lba \in Nat /\ i \in Nat /\ i <= call.n
      /\ job.at \in Nat /\ job.left \in Nat
  BY PlainTypes
<1>4. /\ job' \in Job
      /\ \/ job' = None /\ job.left = 1
         \/ job'.cmd = "write" /\ job'.at = job.at + 1 /\ job'.left = job.left - 1
  BY <1>1, <1>2, <1>3, ContinueTypes
<1>5. Behind' = 0
  BY <1>1 DEF Behind
<1>6. Accepted'
  <2>1. job'.cmd # "flush"
    BY <1>4 DEF None
  <2> QED BY <1>1, <1>2, <2>1 DEF CallInv, Accepted, OutOfRange
<1>7. Addressed'
  <2>1. SUFFICES ASSUME job'.cmd \in {"read", "write"}
                 PROVE  /\ job'.cmd = call.dir
                        /\ job'.at = call.lba + i - 0
                        /\ job'.left = call.n - i + 0
    BY <1>1, <1>5 DEF Addressed
  <2>2. job' # None
    BY <2>1 DEF None
  <2> QED BY <1>2, <1>3, <1>4, <2>2
<1>8. Reading' /\ Older'
  BY <1>1, <1>2 DEF CallInv, Reading, Older
<1>9. Writing'
  <2>1. media \in Contents /\ DOMAIN media' = DOMAIN media
    BY <1>1 DEF Types, AtaTypes, Contents
  <2>2. /\ \A a \in DOMAIN media : a # job.at => media'[a] = media[a]
        /\ job.at \in DOMAIN media => media'[job.at] = Token(job.at)
    BY <1>1, <1>2, <2>1 DEF Contents
  <2>3. \A a : Token(a)' = Token(a) /\ Target(a)' = Target(a)
    BY <1>1 DEF Token, Target
  <2>4. Target(job.at)
    BY <1>2, <1>3 DEF Target
  <2>5. \A a \in DOMAIN media' :
          media'[a] # before'[a] => Target(a)' /\ media'[a] = Token(a)'
    BY <1>1, <1>2, <2>1, <2>2, <2>3, <2>4 DEF CallInv, Writing
  <2>6. ASSUME ~failed
        PROVE  Stored(i)' /\ (i < call.n => job'.cmd = "write")
    <3>1. Stored(i - 1)
      BY <1>2, <2>6 DEF CallInv, Writing
    <3>2. ASSUME NEW a \in DOMAIN media', a >= call.lba, a < call.lba + i
          PROVE  media'[a] = Token(a)'
      <4>1. a \in Nat
        BY <2>1, <3>2, PlainTypes
      <4>2. CASE a = job.at
        BY <2>1, <2>2, <2>3, <4>2
      <4>3. CASE a # job.at
        <5>1. a < call.lba + (i - 1)
          BY <1>2, <1>3, <3>2, <4>1, <4>3
        <5> QED BY <2>1, <2>2, <2>3, <3>1, <3>2, <4>3, <5>1 DEF Stored
      <4> QED BY <4>2, <4>3
    <3>3. Stored(i)'
      BY <1>1, <3>2 DEF Stored
    <3> QED BY <1>2, <1>3, <1>4, <3>3
  <2>7. i' - Behind' = i
    BY <1>1, <1>3, <1>5
  <2> QED BY <1>1, <1>2, <2>5, <2>6, <2>7 DEF CallInv, Writing
<1> QED BY <1>6, <1>7, <1>8, <1>9 DEF CallInv

LEMMA CallDrive ==
  ASSUME Types, DriveInv, CallInv, ~zero, DriveStep
  PROVE  CallInv'
<1>1. UNCHANGED <<drive, host, before, zero, dropped>>
  BY DEF DriveStep
<1>2. UNCHANGED <<drive, pc, call, i, buf, err, calls, before, zero>>
  BY <1>1 DEF host
<1>3. CASE Offer
  BY <1>2, <1>3, CallSame DEF Offer
<1>4. CASE Commit
  BY <1>1, <1>4, CallCommit
<1>5. CASE FlushDone
  <2>1. /\ job.cmd = "flush" /\ job'.cmd = "none" /\ UNCHANGED <<latch, media, failed>>
    BY <1>5 DEF FlushDone, None
  <2>2. pc = "flush" /\ call.dir = "write" /\ i = call.n /\ latch = Junk
    BY <2>1 DEF Types, HostTypes, DriveInv, CallInv, Accepted
  <2>3. Accepted' /\ Addressed'
    BY <1>2, <2>1 DEF CallInv, Accepted, Addressed, OutOfRange
  <2>4. Reading' /\ Older'
    BY <1>2, <2>1, <2>2 DEF CallInv, Reading, Older
  <2>5. Writing'
    <3>1. i - Behind = call.n /\ ~(i - Behind < call.n)
      BY <2>2, PlainTypes DEF Behind
    <3> QED BY <1>2, <2>1, <2>2, <3>1 DEF CallInv, Writing, Target, Token, Stored, Behind
  <2> QED BY <2>3, <2>4, <2>5 DEF CallInv
<1>6. CASE Fail
  <2>1. job'.cmd = "none" /\ latch' = Junk /\ failed' /\ media' = media
    BY <1>6 DEF Fail, None
  <2>2. Accepted' /\ Addressed'
    BY <1>2, <2>1 DEF CallInv, Accepted, Addressed, OutOfRange
  <2>3. Reading' /\ Older'
    BY <1>2, <2>1 DEF CallInv, Reading, Older
  <2>4. Writing'
    BY <1>2, <2>1 DEF CallInv, Writing, Target, Token
  <2> QED BY <2>2, <2>3, <2>4 DEF CallInv
<1> QED BY <1>3, <1>4, <1>5, <1>6 DEF DriveStep

\* While no call is under way the drive has no command and no sector to store.
LEMMA IdleDrive ==
  ASSUME Types, DriveInv, Accepted, pc \in {"idle", "ready"}
  PROVE  job.cmd = "none" /\ latch = Junk /\ status \in {{}, {"ERR"}, {"DF"}}
BY DEF Types, AtaTypes, DriveInv, Accepted

\* A call that is accepted starts with what the sectors hold then.
LEMMA CallCall ==
  ASSUME Types, DriveInv, CallInv, ~zero,
         NEW dir \in {"read", "write"}, NEW lba \in Lbas, NEW n \in Counts, Call(dir, lba, n),
         ~zero'
  PROVE  CallInv'
<1>1. /\ pc = "idle" /\ call' = [dir |-> dir, lba |-> lba, n |-> n]
      /\ i' = 0 /\ buf' = <<>> /\ calls' = calls + 1 /\ before' = media
      /\ UNCHANGED <<drive, status, job, latch, media>>
  BY DEF Call, ata
<1>2. call'.dir = dir /\ call'.lba = lba /\ call'.n = n
  BY <1>1
<1>3. \/ pc' = "idle" /\ err' = "range"
      \/ pc' = "ready" /\ n # 0 /\ ~OutOfRange(lba, n)
  BY <1>1 DEF Call
<1>4. n \in Nat /\ lba \in Nat
  BY ConstantTypes
<1>5. job'.cmd = "none" /\ latch' = Junk
  BY <1>1, IdleDrive DEF CallInv
<1>6. Accepted' /\ Addressed'
  <2>1. pc' # "idle" => n > 0 /\ ~OutOfRange(lba, n)
    BY <1>3, <1>4
  <2>2. OutOfRange(call.lba, call.n)' <=> OutOfRange(lba, n)
    BY <1>1, <1>2 DEF OutOfRange
  <2> QED BY <1>1, <1>2, <1>3, <1>5, <2>1, <2>2 DEF Accepted, Addressed
<1>7. Reading' /\ Writing'
  <2>1. media' = before'
    BY <1>1
  <2> QED BY <1>1, <1>3, <1>5, <2>1 DEF Reading, Writing
<1>8. Older'
  <2> DEFINE base == Wrap + calls * Byte
  <2>1. base \in Nat /\ (Wrap + calls * Byte)' = base + Byte
    <3>1. calls \in Nat /\ Wrap \in Nat /\ Byte \in Nat
      BY PlainTypes, Bounds
    <3>2. calls * Byte \in Nat /\ (calls + 1) * Byte = calls * Byte + Byte
      BY <3>1
    <3> QED BY <1>1, <3>1, <3>2
  <2>2. ASSUME NEW a \in DOMAIN media PROVE media[a] < base + Byte
    <3>1. a \in Nat /\ media[a] \in Nat /\ DOMAIN before = DOMAIN media
      BY <2>2, PlainTypes DEF Types, AtaTypes, PastTypes, Contents
    <3>2. CASE media[a] = before[a]
      <4>1. media[a] < base
        BY <3>1, <3>2 DEF CallInv, Older
      <4> HIDE DEF base
      <4> QED BY <2>1, <3>1, <4>1, Bounds
    <3>3. CASE media[a] # before[a]
      <4>1. call.dir = "write"
        BY <3>3, PlainTypes DEF CallInv, Reading
      <4>2. Target(a) /\ media[a] = base + (a - call.lba)
        BY <3>3, <4>1 DEF CallInv, Writing, Token
      <4>3. a < call.lba + call.n /\ a >= call.lba
        BY <4>2 DEF Target
      <4>4. call.lba \in Nat /\ call.n \in Nat /\ call.n < Byte /\ Byte \in Nat
        BY PlainTypes, Bounds
      <4>5. a - call.lba \in Nat /\ a - call.lba < Byte
        BY <3>1, <4>3, <4>4
      <4> HIDE DEF base
      <4> QED BY <2>1, <4>2, <4>4, <4>5
    <3> QED BY <3>2, <3>3
  <2> QED BY <1>1, <2>1, <2>2 DEF Older
<1> QED BY <1>6, <1>7, <1>8 DEF CallInv

\* The registers name the sector of every call that is accepted: a drive that only
\* knows cylinders has too few sectors for `lba + numsects' to wrap around.
LEMMA OrderAt ==
  ASSUME Types, call.n > 0, ~OutOfRange(call.lba, call.n)
  PROVE  Request.at = call.lba
<1> DEFINE mode == Mode(call.lba, drive.lba28)
<1>1. call.lba \in 0 .. Wrap - 1 /\ drive.lba28 \in BOOLEAN
  BY PlainTypes, Bounds
<1>2. ASSUME mode = 0 PROVE call.lba < LimitChs
  <2>1. call.lba < Limit28 /\ ~drive.lba28
    BY <1>2, Bounds, PlainTypes DEF Mode
  <2>2. call.lba + call.n \in 0 .. Wrap - 1
    BY <2>1, Bounds, PlainTypes
  <2>3. (call.lba + call.n) % Wrap = call.lba + call.n
    <3>1. Wrap \in Nat \ {0}
      BY Bounds
    <3> QED BY <2>2, <3>1, ModSmall
  <2>4. call.lba + call.n <= drive.size /\ drive.size <= LimitChs
    BY <2>1, <2>3, PlainTypes DEF OutOfRange
  <2> QED BY <2>4, PlainTypes, Bounds
<1>3. Sector(Registers(call.lba, mode), mode) = call.lba
  BY <1>1, <1>2, RegistersFaithful
<1> QED BY <1>3 DEF Request

LEMMA CallIssue ==
  ASSUME Types, DriveInv, CallInv, ~zero, Issue
  PROVE  CallInv'
<1>1. /\ pc = "ready" /\ pc' = "move"
      /\ UNCHANGED <<drive, call, i, buf, err, calls, media, before, failed, zero>>
      /\ Command(Request)
  BY DEF Issue, past, Request
<1>2. call.n > 0 /\ ~OutOfRange(call.lba, call.n) /\ i = 0 /\ buf = <<>>
  BY <1>1 DEF CallInv, Accepted
<1>3. status \intersect {"BSY", "DRQ"} = {}
  BY <1>1, IdleDrive DEF CallInv
<1>4. job' = Request /\ latch' = Junk
  BY <1>1, <1>3 DEF Command
<1>5. Request.at = call.lba /\ Request.cmd = call.dir
  BY <1>2, OrderAt, OrderJob
<1>6. Request.left = call.n
  BY <1>2, PlainTypes DEF Request
<1>7. Behind' = 0
  BY <1>4 DEF Behind
<1>8. Accepted'
  BY <1>1, <1>2, <1>4, <1>5, PlainTypes DEF Accepted, OutOfRange
<1>9. Addressed'
  <2>1. call.lba = call.lba + 0 - 0 /\ call.n = call.n - 0 + 0
    BY PlainTypes
  <2> QED BY <1>1, <1>2, <1>4, <1>5, <1>6, <1>7, <2>1 DEF Addressed
<1>10. Reading' /\ Older'
  BY <1>1 DEF CallInv, Reading, Older
<1>11. Writing'
  <2>1. Stored(0)
    <3>1. \A a \in DOMAIN media : a \in Nat
      BY PlainTypes
    <3> QED BY <3>1, PlainTypes DEF Stored
  <2>2. Stored(0)'
    BY <1>1, <2>1 DEF Stored, Token
  <2>3. i' - Behind' = 0
    BY <1>1, <1>2, <1>7
  <2>4. \A a : Token(a)' = Token(a) /\ Target(a)' = Target(a)
    BY <1>1 DEF Token, Target
  <2> QED BY <1>1, <1>2, <1>4, <1>5, <2>2, <2>3, <2>4 DEF CallInv, Writing
<1> QED BY <1>8, <1>9, <1>10, <1>11 DEF CallInv

LEMMA CallReadFails ==
  ASSUME Types, DriveInv, CallInv, ~zero, ReadFails
  PROVE  CallInv'
<1>1. /\ UNCHANGED <<drive, call, i, buf, calls, status, job, latch, media, before, failed, zero>>
      /\ call.dir = "read" /\ pc' = "idle" /\ err' # "ok"
      /\ "ERR" \in status \/ "DF" \in status \/ status = {}
  BY DEF ReadFails, past, ata, Finish
<1>2. job.cmd = "none"
  BY <1>1 DEF Types, AtaTypes, DriveInv
<1>3. Accepted' /\ Addressed'
  BY <1>1, <1>2 DEF Accepted, Addressed
<1>4. Reading' /\ Older' /\ Writing'
  BY <1>1 DEF CallInv, Reading, Older, Writing
<1> QED BY <1>3, <1>4 DEF CallInv

LEMMA CallReadSector ==
  ASSUME Types, DriveInv, CallInv, ~zero, ReadSector
  PROVE  CallInv'
<1>1. /\ UNCHANGED <<drive, pc, call, err, calls, latch, media, before, failed, zero>>
      /\ pc = "move" /\ call.dir = "read" /\ i' = i + 1 /\ i < call.n /\ "DRQ" \in status
  BY DEF ReadSector, past, More
<1>2. status = {"DRQ"} /\ latch = Junk /\ Moving /\ job.left > 0
  BY <1>1 DEF Types, AtaTypes, DriveInv
<1>3. Behind = 0 /\ Behind' = 0
  BY <1>1, <1>2 DEF Behind
<1>4. /\ call.n \in Nat /\ call.lba \in Nat /\ i \in Nat
      /\ job.at \in Nat /\ job.left \in Nat
  BY PlainTypes
<1>5. job.cmd = "read" /\ job.at = call.lba + i /\ job.left = call.n - i
  BY <1>1, <1>2, <1>3, <1>4 DEF CallInv, Addressed, Moving
<1>6. buf' = Append(buf, media[job.at]) /\ Continue({"BSY"})
  BY <1>5 DEF ReadSector
<1>7. \/ job' = None /\ job.left = 1
      \/ job'.cmd = "read" /\ job'.at = job.at + 1 /\ job'.left = job.left - 1
  BY <1>2, <1>5, <1>6, ContinueTypes
<1>8. Accepted'
  <2>1. job'.cmd # "flush"
    BY <1>7 DEF None
  <2> QED BY <1>1, <2>1 DEF CallInv, Accepted, OutOfRange
<1>9. Addressed'
  <2>1. SUFFICES ASSUME job'.cmd \in {"read", "write"}
                 PROVE  /\ job'.cmd = call.dir
                        /\ job'.at = call.lba + i' - 0
                        /\ job'.left = call.n - i' + 0
    BY <1>1, <1>3 DEF Addressed
  <2>2. job' # None
    BY <2>1 DEF None
  <2> QED BY <1>1, <1>4, <1>5, <1>7, <2>2
<1>10. Reading'
  <2>1. /\ media = before /\ Len(buf) = i
        /\ \A k \in 1 .. Len(buf) : buf[k] = before[call.lba + k - 1]
    BY <1>1 DEF CallInv, Reading
  <2>2. buf \in Seq(Nat)
    BY DEF Types, HostTypes
  <2> DEFINE word == media[job.at]
  <2>3. word \in Nat
    BY <1>2, OfferedType
  <2>4. buf' = Append(buf, word)
    BY <1>6
  <2>5. word = before[call.lba + i]
    BY <1>5, <2>1
  <2> HIDE DEF word
  <2>6. Len(buf') = i + 1
    BY <2>1, <2>2, <2>3, <2>4
  <2>7. ASSUME NEW k \in 1 .. Len(buf') PROVE buf'[k] = before[call.lba + k - 1]
    <3>1. k \in 1 .. i + 1
      BY <2>6
    <3>2. CASE k = i + 1
      <4>1. buf'[k] = word
        BY <2>1, <2>2, <2>3, <2>4, <3>2
      <4>2. call.lba + k - 1 = call.lba + i
        BY <1>4, <3>2
      <4> QED BY <2>5, <4>1, <4>2
    <3>3. CASE k # i + 1
      <4>1. k \in 1 .. Len(buf)
        BY <1>4, <2>1, <3>1, <3>3
      <4>2. buf'[k] = buf[k]
        BY <2>2, <2>3, <2>4, <4>1
      <4> QED BY <2>1, <4>1, <4>2
    <3> QED BY <3>2, <3>3
  <2> QED BY <1>1, <2>1, <2>6, <2>7 DEF Reading
<1>11. Older' /\ Writing'
  BY <1>1 DEF CallInv, Older, Writing
<1> QED BY <1>8, <1>9, <1>10, <1>11 DEF CallInv

\* A drive that has moved all sectors of the call has no more of them to move.
LEMMA AllMoved ==
  ASSUME Types, DriveInv, CallInv, ~zero, pc \in {"move", "flush"}, i = call.n, latch = Junk
  PROVE  ~Moving
<1> SUFFICES ASSUME Moving PROVE FALSE
  OBVIOUS
<1>1. job.left = call.n - i + 0
  BY DEF CallInv, Addressed, Behind, Moving
<1>2. job.left > 0
  BY DEF DriveInv
<1> QED BY <1>1, <1>2, PlainTypes

LEMMA CallReadDone ==
  ASSUME Types, DriveInv, CallInv, ~zero, ReadDone
  PROVE  CallInv'
<1>1. /\ UNCHANGED <<drive, call, i, buf, calls, status, job, latch, media, before, failed, zero>>
      /\ pc = "move" /\ call.dir = "read" /\ pc' = "idle" /\ ~(i < call.n)
  BY DEF ReadDone, past, ata, Finish, More
<1>2. i = call.n
  BY <1>1, PlainTypes
<1>3. job.cmd = "none"
  <2>1. latch = Junk
    <3>1. job.cmd # "write"
      BY <1>1 DEF CallInv, Addressed
    <3> QED BY <3>1 DEF DriveInv
  <2>2. ~Moving /\ job.cmd # "flush"
    BY <1>1, <1>2, <2>1, AllMoved DEF CallInv, Accepted
  <2> QED BY <2>2 DEF Types, AtaTypes, Job, Moving
<1>4. Accepted' /\ Addressed'
  BY <1>1, <1>3 DEF Accepted, Addressed
<1>5. Reading' /\ Older' /\ Writing'
  BY <1>1, <1>2 DEF CallInv, Reading, Older, Writing
<1> QED BY <1>4, <1>5 DEF CallInv

LEMMA CallWriteSector ==
  ASSUME Types, DriveInv, CallInv, ~zero, WriteSector
  PROVE  CallInv'
<1>1. /\ UNCHANGED <<drive, pc, call, buf, err, calls, job, media, before, failed, zero>>
      /\ pc = "move" /\ call.dir = "write" /\ i' = i + 1 /\ i < call.n /\ More /\ Ready
  BY DEF WriteSector, past, More, Polled
<1>2. latch = Junk /\ Behind = 0
  BY <1>1 DEF DriveInv, Ready, Behind
<1>3. call.n \in Nat /\ call.lba \in Nat /\ i \in Nat /\ job.at \in Nat /\ job.left \in Nat
  BY PlainTypes
<1>4. Accepted' /\ Reading' /\ Older'
  BY <1>1 DEF CallInv, Accepted, Reading, Older, OutOfRange
<1>5. \A a : Token(a)' = Token(a) /\ Target(a)' = Target(a)
  BY <1>1 DEF Token, Target
<1>6. CASE Moving
  <2>1. "DRQ" \in status
    BY <1>1, <1>6 DEF Ready, Types, AtaTypes, DriveInv, Moving
  <2>2. job.cmd = "write" /\ job.at = call.lba + i /\ job.left = call.n - i
    BY <1>1, <1>2, <1>3, <1>6 DEF CallInv, Addressed, Moving
  <2>3. latch' = Fresh
    BY <2>1, <2>2 DEF WriteSector
  <2>4. Fresh # Junk /\ Fresh = Token(job.at)
    <3>1. Fresh \in Nat /\ Junk \in Nat /\ Fresh < Junk
      BY <1>1, FreshNat, ConstantTypes
    <3>2. job.at - call.lba = i
      BY <1>3, <2>2
    <3> QED BY <3>1, <3>2 DEF Fresh, Token
  <2>5. Behind' = 1
    BY <2>3, <2>4 DEF Behind, Junk
  <2>6. Addressed'
    <3>1. job.at = call.lba + i' - 1 /\ job.left = call.n - i' + 1
      BY <1>1, <1>3, <2>2
    <3> QED BY <1>1, <2>2, <2>5, <3>1 DEF Addressed
  <2>7. Writing'
    <3>1. i' - Behind' = i /\ i - Behind = i /\ i' > 0
      BY <1>1, <1>2, <1>3, <2>5
    <3>2. ~failed => Stored(i)
      BY <1>1, <3>1 DEF CallInv, Writing
    <3>3. ~failed => Stored(i - Behind)'
      BY <1>1, <1>5, <3>1, <3>2 DEF Stored
    <3>4. latch' = Token(job.at)'
      BY <1>1, <1>5, <2>3, <2>4
    <3> QED BY <1>1, <1>5, <2>2, <3>1, <3>3, <3>4 DEF CallInv, Writing
  <2> QED BY <1>4, <2>6, <2>7 DEF CallInv
<1>7. CASE ~Moving
  <2>1. latch' = latch
    BY <1>7 DEF WriteSector, Moving
  <2>2. Addressed'
    BY <1>1, <1>7 DEF Addressed, Moving
  <2>3. failed
    <3>1. i - Behind < call.n
      BY <1>1, <1>2, <1>3
    <3> QED BY <1>1, <1>7, <3>1 DEF CallInv, Writing, Moving
  <2>4. Writing'
    BY <1>1, <1>2, <1>5, <2>1, <2>3 DEF CallInv, Writing
  <2> QED BY <1>4, <2>2, <2>4 DEF CallInv
<1> QED BY <1>6, <1>7

LEMMA CallFlush ==
  ASSUME Types, DriveInv, CallInv, ~zero, Flush
  PROVE  CallInv'
<1> DEFINE order == [None EXCEPT !.cmd = "flush"]
<1>1. /\ UNCHANGED <<drive, call, i, buf, err, calls, media, before, failed, zero>>
      /\ pc = "move" /\ call.dir = "write" /\ ~(i < call.n) /\ pc' = "flush" /\ Command(order)
  BY DEF Flush, More
<1>2. i = call.n /\ i \in Nat
  BY <1>1, PlainTypes
<1>3. order.cmd = "flush"
  BY DEF None
<1>4. \A a : Token(a)' = Token(a) /\ Target(a)' = Target(a)
  BY <1>1 DEF Token, Target
<1>5. Accepted' /\ Reading' /\ Older'
  BY <1>1, <1>2 DEF CallInv, Accepted, Reading, Older, OutOfRange
<1> HIDE DEF order
<1>6. CASE status \intersect {"BSY", "DRQ"} = {}
  <2>1. job' = order /\ latch' = Junk
    BY <1>1, <1>6 DEF Command
  <2>2. Addressed'
    BY <1>3, <2>1 DEF Addressed
  <2>3. latch = Junk /\ Behind = 0 /\ Behind' = 0
    BY <1>6, <2>1 DEF DriveInv, Behind
  <2>4. i - Behind = i /\ i' - Behind' = i /\ ~(i < call.n)
    BY <1>1, <1>2, <2>3
  <2>5. ~failed => Stored(i)'
    BY <1>1, <1>4, <2>4 DEF CallInv, Writing, Stored
  <2>6. Writing'
    BY <1>1, <1>4, <2>1, <2>4, <2>5 DEF CallInv, Writing
  <2> QED BY <1>5, <2>2, <2>6 DEF CallInv
<1>7. CASE status \intersect {"BSY", "DRQ"} # {}
  <2>1. UNCHANGED <<job, latch>>
    BY <1>1, <1>7 DEF Command
  <2>2. Addressed' /\ Behind' = Behind
    BY <1>1, <2>1 DEF CallInv, Addressed, Behind
  <2>3. i' - Behind' = i - Behind
    BY <1>1, <2>2
  <2>4. Stored(i - Behind)' <=> Stored(i - Behind)
    BY <1>1, <1>4, <2>3 DEF Stored
  <2>5. Writing'
    BY <1>1, <1>4, <2>1, <2>3, <2>4 DEF CallInv, Writing
  <2> QED BY <1>5, <2>2, <2>5 DEF CallInv
<1> QED BY <1>6, <1>7

LEMMA CallWriteDone ==
  ASSUME Types, DriveInv, CallInv, ~zero, WriteDone
  PROVE  CallInv'
<1>1. /\ UNCHANGED <<drive, call, i, buf, calls, status, job, latch, media, before, failed, zero>>
      /\ pc = "flush" /\ pc' = "idle" /\ Ready
  BY DEF WriteDone, past, ata, Finish, Polled
<1>2. call.dir = "write" /\ i = call.n /\ latch = Junk
  BY <1>1 DEF CallInv, Accepted, DriveInv, Ready
<1>3. ~Moving
  BY <1>1, <1>2, AllMoved
<1>4. job.cmd = "none"
  BY <1>1, <1>3 DEF Ready, Types, AtaTypes, DriveInv
<1>5. i - Behind = call.n
  BY <1>2, PlainTypes DEF Behind
<1>6. Accepted' /\ Addressed'
  BY <1>1, <1>4 DEF Accepted, Addressed
<1>7. Reading' /\ Older'
  BY <1>1, <1>2 DEF CallInv, Reading, Older
<1>8. \A a : Token(a)' = Token(a) /\ Target(a)' = Target(a)
  BY <1>1 DEF Token, Target
<1>9. ~failed => Stored(call.n)'
  BY <1>1, <1>2, <1>5, <1>8 DEF CallInv, Writing, Stored
<1>10. Writing'
  BY <1>1, <1>2, <1>8, <1>9 DEF CallInv, Writing
<1> QED BY <1>6, <1>7, <1>10 DEF CallInv
-----------------------------------------------------------------------------
(***************************************************************************)
(* The theorems.                                                           *)
(***************************************************************************)
LEMMA Inductive == Spec => []IInv
<1>1. Init => IInv
  BY TypesInit, CallInit DEF IInv
<1>2. IInv /\ [Next]_vars => IInv'
  <2> SUFFICES ASSUME IInv, [Next]_vars PROVE IInv'
    OBVIOUS
  <2>1. Types /\ DriveInv /\ Settled
    BY DEF IInv
  <2>2. Types' /\ DriveInv' /\ Settled'
    BY <2>1, TypesNext, SettledNext
  <2>3. ASSUME ~zero' PROVE CallInv'
    <3>1. ~zero
      <4>1. zero \in BOOLEAN
        BY <2>1 DEF Types, PastTypes
      <4>2. zero => zero'
        BY <4>1 DEF Next, DriveStep, Driver, Issue, ReadFails, ReadSector, ReadDone,
                    WriteSector, Flush, WriteDone, Call, past, vars
      <4> QED BY <2>3, <4>2
    <3>2. CallInv
      BY <3>1 DEF IInv
    <3>3. CASE DriveStep
      BY <2>1, <3>1, <3>2, <3>3, CallDrive
    <3>4. CASE Driver
      BY <2>1, <3>1, <3>2, <3>4, CallIssue, CallReadFails, CallReadSector, CallReadDone,
         CallWriteSector, CallFlush, CallWriteDone DEF Driver
    <3>5. CASE \E dir \in {"read", "write"}, lba \in Lbas, n \in Counts : Call(dir, lba, n)
      BY <2>1, <2>3, <3>1, <3>2, <3>5, CallCall
    <3>6. CASE UNCHANGED vars
      BY <3>2, <3>6, CallSame DEF vars, host, ata, past
    <3> QED BY <3>3, <3>4, <3>5, <3>6 DEF Next
  <2> QED BY <2>2, <2>3 DEF IInv
<1> QED BY <1>1, <1>2, PTL DEF Spec

\* While a call moves sectors, drive and driver are at the same one.
THEOREM InStep == Spec => []Addressed
<1>1. IInv => Addressed
  <2> SUFFICES ASSUME IInv PROVE Addressed
    OBVIOUS
  <2>1. CASE zero
    BY <2>1 DEF Addressed
  <2>2. CASE ~zero
    BY <2>2 DEF IInv, CallInv
  <2> QED BY <2>1, <2>2
<1> QED BY <1>1, Inductive, PTL

\* What a read returns is what the sectors held when it was called.
THEOREM ReadsFaithful == Spec => []ReadFaithful
<1>1. IInv => ReadFaithful
  BY DEF IInv, CallInv, Reading, ReadFaithful
<1> QED BY <1>1, Inductive, PTL

\* What a call writes is above everything that was there before.
LEMMA TokenNew ==
  ASSUME Types, Older, NEW a \in DOMAIN media, Target(a)
  PROVE  Token(a) # before[a]
<1> DEFINE base == Wrap + calls * Byte
<1>1. base \in Nat
  <2>1. calls * Byte \in Nat
    BY PlainTypes, Bounds, Products
  <2> QED BY <2>1, Bounds
<1>2. a \in Nat /\ before[a] \in Nat /\ before[a] < base
  BY PlainTypes DEF Types, AtaTypes, PastTypes, Contents, Older
<1>3. a - call.lba \in Nat
  BY <1>2, PlainTypes DEF Target
<1>4. Token(a) = base + (a - call.lba)
  BY DEF Token
<1> HIDE DEF base
<1> QED BY <1>1, <1>2, <1>3, <1>4

\* A write changes its own sectors only, and all of them unless the drive failed.
THEOREM WritesExact == Spec => []WriteExact
<1>1. IInv => WriteExact
  <2> SUFFICES ASSUME IInv, ~zero PROVE WriteExact
    BY DEF WriteExact
  <2>1. Types /\ DriveInv /\ CallInv
    BY DEF IInv
  <2>2. ASSUME NEW a \in DOMAIN media, media[a] # before[a]
        PROVE  Target(a) /\ media[a] = Wrap + calls * Byte + (a - call.lba)
    <3>1. call.dir = "write"
      BY <2>1, <2>2, PlainTypes DEF CallInv, Reading
    <3> QED BY <2>1, <2>2, <3>1 DEF CallInv, Writing, Token
  <2>3. ASSUME pc = "idle", err = "ok", ~failed, NEW a \in DOMAIN media, Target(a)
        PROVE  media[a] # before[a]
    <3>1. media[a] = Token(a)
      BY <2>1, <2>3 DEF CallInv, Writing, Stored, Target
    <3> QED BY <2>1, <2>3, <3>1, TokenNew DEF CallInv
  <2> QED BY <2>2, <2>3 DEF WriteExact
<1> QED BY <1>1, Inductive, PTL

\* Between calls the drive has no transfer left.
THEOREM Quiet == Spec => []LeftQuiet
<1>1. IInv => LeftQuiet
  <2> SUFFICES ASSUME IInv, pc = "idle", ~zero PROVE status \subseteq {"ERR", "DF"}
    BY DEF LeftQuiet
  <2>1. status \in {{}, {"ERR"}, {"DF"}}
    BY IdleDrive DEF IInv, CallInv
  <2> QED BY <2>1
<1> QED BY <1>1, Inductive, PTL

\* A write that the drive heard to the end has left nothing in its cache.
THEOREM Flushed == Spec => []Durable
<1>1. IInv => Durable
  BY DEF IInv, Settled, Durable
<1> QED BY <1>1, Inductive, PTL
-----------------------------------------------------------------------------
(***************************************************************************)
(* The probe.                                                              *)
(***************************************************************************)
ProbeTypes ==
  /\ kind \in [Slot -> Kind]
  /\ step \in {"identify", "poll", "read", "done"}
  /\ turn \in 1 .. 4
  /\ type \in {"ata", "atapi"}
  /\ count \in Nat
  /\ devices \in [0 .. 3 -> Device \union {NoDevice}]
  /\ statuses \in [Slot -> SUBSET {"BSY", "DRQ", "ERR"}]

\* The slots before this one have been probed.
Probed == IF step = "done" THEN 5 ELSE turn

\* Entry k of devices[] is that of the drive in slot s, read early only if it is a packet
\* drive.
EntryOf(k, s) ==
  /\ devices[k].reserved /\ devices[k].slot = s /\ devices[k].type = kind[s]
  /\ devices[k].ident = s \/ (devices[k].ident = Noise /\ kind[s] = "atapi")

Entries ==
  /\ count = Place(Probed)
  /\ \A k \in 0 .. 3 : IF k < count THEN \E s \in Slot : EntryOf(k, s)
                                    ELSE devices[k] = NoDevice
  /\ \A j \in 1 .. 4 : j < Probed /\ Present(j) => EntryOf(Place(j), Order[j])

\* A drive that was read too early.
Early(s) == kind[s] = "atapi" /\ \E k \in 0 .. 3 : k < count /\ EntryOf(k, s)
                                                  /\ devices[k].ident = Noise

\* What the status bits of the slot say once it was probed ...
After(s) ==
  \/ kind[s] = "float" /\ statuses[s] = {"BSY", "DRQ", "ERR"}
  \/ kind[s] \in {"none", "ata", "atapi"} /\ statuses[s] = {}
  \/ kind[s] = "alien" /\ statuses[s] = {"ERR"}
  \/ Early(s) /\ statuses[s] \in {{"BSY"}, {"DRQ"}}

\* ... while it is, and before.
During(s) ==
  \/ step = "poll" /\ type = "ata" /\ kind[s] = "float" /\ statuses[s] = {"BSY", "DRQ", "ERR"}
  \/ step = "poll" /\ type = "ata" /\ kind[s] = "ata" /\ statuses[s] \in {{"BSY"}, {"DRQ"}}
  \/ step = "poll" /\ type = "ata" /\ kind[s] \in {"atapi", "alien"}
                   /\ statuses[s] \in {{"BSY"}, {"ERR"}}
  \/ step = "read" /\ type = "ata" /\ kind[s] = "ata" /\ statuses[s] = {"DRQ"}
  \/ step = "read" /\ type = "atapi" /\ kind[s] = "atapi" /\ statuses[s] \in {{"BSY"}, {"DRQ"}}

Before(s) == statuses[s] = IF kind[s] = "float" THEN {"BSY", "DRQ", "ERR"} ELSE {}

Bits ==
  \A j \in 1 .. 4 :
    LET s == Order[j]
    IN  IF j < Probed THEN After(s)
        ELSE IF j = turn /\ step \in {"poll", "read"} THEN During(s)
        ELSE Before(s)

ProbeInv == ProbeTypes /\ Entries /\ Bits
-----------------------------------------------------------------------------
LEMMA OrderFacts ==
  /\ \A j \in 1 .. 4 : Order[j] \in Slot
  /\ \A j, k \in 1 .. 4 : j # k => Order[j] # Order[k]
  /\ \A s \in Slot : \E j \in 1 .. 4 : Order[j] = s
<1>1. /\ Order[1] = <<0, 0>> /\ Order[2] = <<0, 1>>
      /\ Order[3] = <<1, 0>> /\ Order[4] = <<1, 1>>
  BY DEF Order
<1>2. \A j \in 1 .. 4 : j = 1 \/ j = 2 \/ j = 3 \/ j = 4
  OBVIOUS
<1>3. \A j \in 1 .. 4 : Order[j] \in Slot
  BY <1>1, <1>2 DEF Slot
<1>4. \A j, k \in 1 .. 4 : j # k => Order[j] # Order[k]
  BY <1>1, <1>2
<1>5. ASSUME NEW s \in Slot PROVE \E j \in 1 .. 4 : Order[j] = s
  <2>1. PICK c \in 0 .. 1, d \in 0 .. 1 : s = <<c, d>>
    BY DEF Slot
  <2>2. (c = 0 \/ c = 1) /\ (d = 0 \/ d = 1)
    OBVIOUS
  <2> QED BY <1>1, <2>1, <2>2
<1> QED
  BY <1>3, <1>4, <1>5

\* The drives before a slot are counted slot by slot.
LEMMA PlaceNext ==
  /\ Place(1) = 0
  /\ \A k \in 1 .. 4 : /\ Place(k) \in Nat /\ Place(k + 1) \in Nat
                       /\ Place(k + 1) = IF Present(k) THEN Place(k) + 1 ELSE Place(k)
<1> DEFINE S(k) == {j \in 1 .. k - 1 : Present(j)}
<1>1. Place(1) = 0
  <2>1. S(1) = {}
    OBVIOUS
  <2> QED BY <2>1, FS_EmptySet DEF Place
<1>2. ASSUME NEW k \in 1 .. 4
      PROVE  /\ Place(k) \in Nat /\ Place(k + 1) \in Nat
             /\ Place(k + 1) = IF Present(k) THEN Place(k) + 1 ELSE Place(k)
  <2>1. IsFiniteSet(S(k))
    <3>1. IsFiniteSet(1 .. k - 1) /\ S(k) \subseteq 1 .. k - 1
      BY FS_Interval
    <3> QED BY <3>1, FS_Subset
  <2>2. S(k + 1) = (IF Present(k) THEN S(k) \union {k} ELSE S(k)) /\ k \notin S(k)
    OBVIOUS
  <2>3. Cardinality(S(k)) \in Nat
    BY <2>1, FS_CardinalityType
  <2>4. Cardinality(S(k) \union {k}) = Cardinality(S(k)) + 1
    BY <2>1, <2>2, FS_AddElement
  <2>5. Place(k) = Cardinality(S(k)) /\ Place(k + 1) = Cardinality(S(k + 1))
    BY DEF Place
  <2> HIDE DEF S
  <2> QED BY <2>2, <2>3, <2>4, <2>5
<1> QED
  BY <1>1, <1>2

LEMMA PlaceOrder ==
  /\ \A k \in 1 .. 5 : Place(k) \in Nat /\ Place(k) < k
  /\ \A j, k \in 1 .. 5 : j < k => /\ Place(j) <= Place(k)
                                   /\ Present(j) => Place(j) < Place(k)
<1>1. /\ Place(1) = 0
      /\ Place(2) = (IF Present(1) THEN Place(1) + 1 ELSE Place(1)) /\ Place(2) \in Nat
      /\ Place(3) = (IF Present(2) THEN Place(2) + 1 ELSE Place(2)) /\ Place(3) \in Nat
      /\ Place(4) = (IF Present(3) THEN Place(3) + 1 ELSE Place(3)) /\ Place(4) \in Nat
      /\ Place(5) = (IF Present(4) THEN Place(4) + 1 ELSE Place(4)) /\ Place(5) \in Nat
  <2>1. 1 + 1 = 2 /\ 2 + 1 = 3 /\ 3 + 1 = 4 /\ 4 + 1 = 5
    OBVIOUS
  <2>2. /\ Place(1 + 1) = (IF Present(1) THEN Place(1) + 1 ELSE Place(1)) /\ Place(1 + 1) \in Nat
        /\ Place(2 + 1) = (IF Present(2) THEN Place(2) + 1 ELSE Place(2)) /\ Place(2 + 1) \in Nat
        /\ Place(3 + 1) = (IF Present(3) THEN Place(3) + 1 ELSE Place(3)) /\ Place(3 + 1) \in Nat
        /\ Place(4 + 1) = (IF Present(4) THEN Place(4) + 1 ELSE Place(4)) /\ Place(4 + 1) \in Nat
    BY PlaceNext
  <2> QED BY <2>1, <2>2, PlaceNext
<1>2. \A k \in 1 .. 5 : k = 1 \/ k = 2 \/ k = 3 \/ k = 4 \/ k = 5
  OBVIOUS
<1> QED
  BY <1>1, <1>2
-----------------------------------------------------------------------------
LEMMA EarlyStays ==
  ASSUME kind' = kind, devices' = devices, count' = count, NEW s \in Slot
  PROVE  Early(s)' <=> Early(s)
BY DEF Early, EntryOf

LEMMA Initially == ProbeInit => ProbeInv
<1> SUFFICES ASSUME ProbeInit PROVE ProbeInv
  OBVIOUS
<1>1. kind \in [Slot -> Kind]
  BY ProbeAssumption DEF ProbeInit
<1>2. ProbeTypes
  BY <1>1 DEF ProbeInit, ProbeTypes
<1>3. Entries
  BY PlaceNext DEF ProbeInit, Entries, Probed
<1>4. Bits
  BY OrderFacts DEF ProbeInit, Bits, Probed, Before
<1> QED
  BY <1>2, <1>3, <1>4 DEF ProbeInv

\* `continue' and the end of the loop go to the next slot, or end the probe.
LEMMA ProbeAdvance ==
  ASSUME ProbeTypes, step # "done", NextSlot
  PROVE  /\ Probed = turn /\ Probed' = turn + 1 /\ turn' \in 1 .. 4
         /\ step' \in {"identify", "done"}
         /\ step' = "identify" => turn' = turn + 1
<1>1. turn \in 1 .. 4 /\ Probed = turn
  BY DEF ProbeTypes, Probed
<1>2. CASE turn < 4
  <2>1. turn' = turn + 1 /\ step' = "identify"
    BY <1>2 DEF NextSlot
  <2> QED BY <1>1, <1>2, <2>1 DEF Probed
<1>3. CASE turn = 4
  <2>1. turn' = turn /\ step' = "done"
    BY <1>3 DEF NextSlot
  <2> QED BY <1>1, <1>3, <2>1 DEF Probed
<1> QED
  BY <1>1, <1>2, <1>3

\* The bits of the other slots stay when one slot has been probed.
LEMMA BitsAdvance ==
  ASSUME ProbeInv, step # "done", NextSlot, kind' = kind, NEW now, now = slot,
         \A s \in Slot : s # now => statuses'[s] = statuses[s],
         \A s \in Slot : Early(s) => Early(s)',
         After(now)'
  PROVE  Bits'
<1>1. /\ Probed = turn /\ Probed' = turn + 1 /\ turn' \in 1 .. 4
      /\ step' \in {"identify", "done"} /\ turn \in 1 .. 4
  BY ProbeAdvance DEF ProbeInv, ProbeTypes
<1> SUFFICES ASSUME NEW j \in 1 .. 4
             PROVE  IF j < turn + 1 THEN After(Order[j])' ELSE Before(Order[j])'
  BY <1>1 DEF Bits
<1>2. CASE j = turn
  BY <1>1, <1>2 DEF slot
<1>3. CASE j # turn
  <2>1. Order[j] \in Slot /\ Order[j] # now
    BY <1>1, <1>3, OrderFacts DEF slot
  <2>2. statuses'[Order[j]] = statuses[Order[j]]
    BY <2>1
  <2>3. CASE j < turn
    <3>1. After(Order[j])
      BY <1>1, <2>3 DEF ProbeInv, Bits
    <3> QED BY <1>1, <2>1, <2>2, <2>3, <3>1 DEF After
  <2>4. CASE ~(j < turn)
    <3>1. Before(Order[j])
      BY <1>1, <1>3, <2>4 DEF ProbeInv, Bits
    <3> QED BY <1>1, <1>3, <2>1, <2>2, <2>4, <3>1 DEF Before
  <2> QED BY <2>3, <2>4
<1> QED BY <1>2, <1>3

\* The slot that is probed gets other bits, or the probe of it goes on.
LEMMA BitsStay ==
  ASSUME ProbeInv, step # "done", step' \in {"poll", "read"}, UNCHANGED <<kind, turn, count>>,
         NEW now, now = slot,
         \A s \in Slot : s # now => statuses'[s] = statuses[s],
         \A s \in Slot : Early(s) => Early(s)',
         During(now)'
  PROVE  Bits'
<1>1. Probed = turn /\ Probed' = turn /\ turn \in 1 .. 4
  BY DEF ProbeInv, ProbeTypes, Probed
<1> SUFFICES ASSUME NEW j \in 1 .. 4
             PROVE  IF j < turn THEN After(Order[j])'
                    ELSE IF j = turn THEN During(Order[j])' ELSE Before(Order[j])'
  BY <1>1 DEF Bits
<1>2. CASE j = turn
  BY <1>1, <1>2 DEF slot
<1>3. CASE j # turn
  <2>1. Order[j] \in Slot /\ Order[j] # now
    BY <1>1, <1>3, OrderFacts DEF slot
  <2>2. statuses'[Order[j]] = statuses[Order[j]]
    BY <2>1
  <2>3. CASE j < turn
    <3>1. After(Order[j])
      BY <1>1, <2>3 DEF ProbeInv, Bits
    <3> QED BY <1>1, <2>1, <2>2, <2>3, <3>1 DEF After
  <2>4. CASE ~(j < turn)
    <3>1. Before(Order[j])
      BY <1>1, <1>3, <2>4 DEF ProbeInv, Bits
    <3> QED BY <1>1, <1>3, <2>1, <2>2, <2>4, <3>1 DEF Before
  <2> QED BY <2>3, <2>4
<1> QED BY <1>2, <1>3

\* Nothing is entered.
LEMMA EntriesStay ==
  ASSUME Entries, UNCHANGED <<kind, count, devices>>, Probed' \in {1, 2, 3, 4, 5},
         Probed' = Probed \/ (Probed' = Probed + 1 /\ Probed \in 1 .. 4 /\ ~Present(Probed))
  PROVE  Entries'
<1>1. \A k : Place(k)' = Place(k) /\ (Present(k)' <=> Present(k))
  BY DEF Place, Present
<1>2. \A k, s : EntryOf(k, s)' <=> EntryOf(k, s)
  BY DEF EntryOf
<1>3. Place(Probed') = Place(Probed)
  BY PlaceNext
<1>4. count' = Place(Probed')
  BY <1>3 DEF Entries
<1>5. \A j \in 1 .. 4 : j < Probed' /\ Present(j) => j < Probed
  OBVIOUS
<1> QED
  BY <1>1, <1>2, <1>4, <1>5 DEF Entries

\* What holds of the slot that is probed.
LEMMA Probing ==
  ASSUME ProbeInv, step # "done", NEW now, now = slot
  PROVE  /\ now \in Slot /\ now = Order[turn] /\ kind[now] \in Kind
         /\ turn \in 1 .. 4 /\ Probed = turn
         /\ Present(turn) <=> kind[now] \in {"ata", "atapi"}
         /\ count = Place(turn) /\ count \in 0 .. 3 /\ devices[count] = NoDevice
         /\ step \in {"poll", "read"} => During(now)
         /\ step = "identify" => Before(now)
<1>1. turn \in 1 .. 4 /\ Probed = turn /\ now = Order[turn]
  BY DEF ProbeInv, ProbeTypes, Probed, slot
<1>2. now \in Slot /\ kind[now] \in Kind
  BY <1>1, OrderFacts DEF ProbeInv, ProbeTypes
<1>3. count = Place(turn) /\ Place(turn) \in Nat /\ Place(turn) < turn
  BY <1>1, PlaceOrder DEF ProbeInv, Entries
<1>4. count \in 0 .. 3
  BY <1>1, <1>3
<1>5. devices[count] = NoDevice
  BY <1>4 DEF ProbeInv, Entries
<1>6. /\ step \in {"poll", "read"} => During(now)
      /\ step = "identify" => Before(now)
  BY <1>1 DEF ProbeInv, Bits, ProbeTypes
<1> QED
  BY <1>1, <1>2, <1>3, <1>4, <1>5, <1>6 DEF Present

LEMMA CommandBits ==
  ASSUME ProbeTypes, SendCommand, NEW now \in Slot, now = slot
  PROVE  /\ statuses' \in [Slot -> SUBSET {"BSY", "DRQ", "ERR"}]
         /\ \A s \in Slot : s # now => statuses'[s] = statuses[s]
         /\ statuses'[now] = IF kind[now] \in Drive THEN {"BSY"} ELSE statuses[now]
BY DEF ProbeTypes, SendCommand

LEMMA IdentifyKeeps ==
  ASSUME ProbeInv, Identify
  PROVE  ProbeInv'
<1>0. PICK now : now = slot
  OBVIOUS
<1>1. /\ now \in Slot /\ now = Order[turn] /\ kind[now] \in Kind
      /\ turn \in 1 .. 4 /\ Probed = turn
      /\ Present(turn) <=> kind[now] \in {"ata", "atapi"}
      /\ count \in 0 .. 3 /\ devices[count] = NoDevice /\ Before(now)
  BY <1>0, Probing DEF Identify
<1>2. /\ type' = "ata" /\ UNCHANGED <<kind, count>> /\ step = "identify" /\ SendCommand
      /\ devices' = [devices EXCEPT ![count] = NoDevice]
      /\ kind[now] = "none" => NextSlot
      /\ kind[now] # "none" => step' = "poll" /\ turn' = turn
  BY <1>0 DEF Identify
<1>3. devices' = devices
  BY <1>1, <1>2 DEF ProbeInv, ProbeTypes
<1>4. /\ statuses' \in [Slot -> SUBSET {"BSY", "DRQ", "ERR"}]
      /\ \A s \in Slot : s # now => statuses'[s] = statuses[s]
      /\ statuses'[now] = IF kind[now] \in Drive THEN {"BSY"} ELSE statuses[now]
  BY <1>0, <1>1, <1>2, CommandBits DEF ProbeInv
<1>5. \A s \in Slot : Early(s) => Early(s)'
  BY <1>2, <1>3, EarlyStays
<1>6. CASE kind[now] = "none"
  <2>1. /\ Probed' = turn + 1 /\ turn' \in 1 .. 4 /\ step' \in {"identify", "done"}
    BY <1>2, <1>6, ProbeAdvance DEF ProbeInv
  <2>2. ProbeTypes'
    BY <1>2, <1>3, <1>4, <2>1 DEF ProbeInv, ProbeTypes
  <2>3. Entries'
    BY <1>1, <1>2, <1>3, <1>6, <2>1, EntriesStay DEF ProbeInv
  <2>4. After(now)'
    BY <1>1, <1>2, <1>4, <1>6 DEF After, Before, Drive
  <2>5. Bits'
    BY <1>0, <1>1, <1>2, <1>4, <1>5, <1>6, <2>4, BitsAdvance
  <2> QED BY <2>2, <2>3, <2>5 DEF ProbeInv
<1>7. CASE kind[now] # "none"
  <2>1. Probed' = turn
    BY <1>2, <1>7 DEF Probed
  <2>2. ProbeTypes'
    BY <1>1, <1>2, <1>3, <1>4, <1>7 DEF ProbeInv, ProbeTypes
  <2>3. Entries'
    BY <1>1, <1>2, <1>3, <2>1, EntriesStay DEF ProbeInv
  <2>4. During(now)'
    BY <1>1, <1>2, <1>4, <1>7 DEF During, Before, Drive, Kind
  <2>5. Bits'
    BY <1>0, <1>1, <1>2, <1>4, <1>5, <1>7, <2>4, BitsStay
  <2> QED BY <2>2, <2>3, <2>5 DEF ProbeInv
<1> QED BY <1>6, <1>7

LEMMA PollAnsweredKeeps ==
  ASSUME ProbeInv, PollAnswered
  PROVE  ProbeInv'
<1>0. PICK now : now = slot
  OBVIOUS
<1>1. /\ now \in Slot /\ turn \in 1 .. 4 /\ Probed = turn /\ During(now)
  BY <1>0, Probing DEF PollAnswered
<1>2. /\ step = "poll" /\ step' = "read" /\ "ERR" \notin statuses[now]
      /\ "BSY" \notin statuses[now] /\ "DRQ" \in statuses[now]
      /\ UNCHANGED <<kind, turn, type, count, devices, statuses>>
  BY <1>0 DEF PollAnswered, Refused, Answered
<1>3. ProbeTypes'
  BY <1>2 DEF ProbeInv, ProbeTypes
<1>4. Probed' = turn
  BY <1>2 DEF Probed
<1>5. Entries'
  BY <1>1, <1>2, <1>4, EntriesStay DEF ProbeInv
<1>6. \A s \in Slot : Early(s) => Early(s)'
  BY <1>2, EarlyStays
<1>7. During(now)'
  BY <1>1, <1>2 DEF During
<1>8. Bits'
  BY <1>2, <1>6, <1>0, <1>7, BitsStay
<1> QED BY <1>3, <1>5, <1>8 DEF ProbeInv

LEMMA PollRefusedKeeps ==
  ASSUME ProbeInv, PollRefused
  PROVE  ProbeInv'
<1>0. PICK now : now = slot
  OBVIOUS
<1>1. /\ now \in Slot /\ now = Order[turn] /\ kind[now] \in Kind
      /\ turn \in 1 .. 4 /\ Probed = turn
      /\ Present(turn) <=> kind[now] \in {"ata", "atapi"}
      /\ During(now)
  BY <1>0, Probing DEF PollRefused
<1>2. /\ step = "poll" /\ "ERR" \in statuses[now] /\ UNCHANGED <<kind, count, devices>>
      /\ kind[now] = "atapi" => /\ type' = "atapi" /\ SendCommand
                                /\ step' = "read" /\ turn' = turn
      /\ kind[now] # "atapi" => NextSlot /\ UNCHANGED <<type, statuses>>
  BY <1>0 DEF PollRefused, Refused, Signature
<1>3. \A s \in Slot : Early(s) => Early(s)'
  BY <1>2, EarlyStays
<1>4. CASE kind[now] = "atapi"
  <2>1. /\ statuses' \in [Slot -> SUBSET {"BSY", "DRQ", "ERR"}]
        /\ \A s \in Slot : s # now => statuses'[s] = statuses[s]
        /\ statuses'[now] = {"BSY"}
    BY <1>1, <1>2, <1>0, <1>4, CommandBits DEF ProbeInv, Drive
  <2>2. ProbeTypes'
    BY <1>2, <1>4, <2>1 DEF ProbeInv, ProbeTypes
  <2>3. Probed' = turn
    BY <1>2, <1>4 DEF Probed
  <2>4. Entries'
    BY <1>1, <1>2, <2>3, EntriesStay DEF ProbeInv
  <2>5. During(now)'
    BY <1>2, <1>4, <2>1 DEF During
  <2>6. Bits'
    BY <1>2, <1>3, <1>0, <1>4, <2>1, <2>5, BitsStay
  <2> QED BY <2>2, <2>4, <2>6 DEF ProbeInv
<1>5. CASE kind[now] # "atapi"
  <2>1. kind[now] \in {"float", "alien"}
    BY <1>1, <1>2, <1>5 DEF During
  <2>2. /\ Probed' = turn + 1 /\ turn' \in 1 .. 4 /\ step' \in {"identify", "done"}
    BY <1>2, <1>5, ProbeAdvance DEF ProbeInv
  <2>3. ProbeTypes'
    BY <1>2, <1>5, <2>2 DEF ProbeInv, ProbeTypes
  <2>4. Entries'
    BY <1>1, <1>2, <2>1, <2>2, EntriesStay DEF ProbeInv
  <2>5. After(now)'
    BY <1>1, <1>2, <1>5, <2>1 DEF After, During
  <2>6. Bits'
    BY <1>2, <1>3, <1>0, <1>5, <2>5, BitsAdvance
  <2> QED BY <2>3, <2>4, <2>6 DEF ProbeInv
<1> QED BY <1>4, <1>5

LEMMA ReadBufferKeeps ==
  ASSUME ProbeInv, ReadBuffer
  PROVE  ProbeInv'
<1>0. PICK now, n : now = slot /\ n = count
  OBVIOUS
<1>1. /\ now \in Slot /\ now = Order[turn] /\ kind[now] \in Kind
      /\ turn \in 1 .. 4 /\ Probed = turn
      /\ Present(turn) <=> kind[now] \in {"ata", "atapi"}
      /\ n = Place(turn) /\ n \in 0 .. 3 /\ devices[n] = NoDevice
      /\ During(now)
  BY <1>0, Probing DEF ReadBuffer
<1>2. /\ step = "read" /\ count' = n + 1 /\ NextSlot /\ UNCHANGED <<kind, type>>
  BY <1>0 DEF ReadBuffer
<1>3. /\ kind[now] \in {"ata", "atapi"} /\ type = kind[now]
      /\ statuses[now] \in {{"BSY"}, {"DRQ"}}
      /\ kind[now] = "ata" => statuses[now] = {"DRQ"}
  BY <1>1, <1>2 DEF During
<1>4. PICK ident : ident = IF statuses[now] = {"DRQ"} THEN now ELSE Noise
  OBVIOUS
<1>5. PICK entry : entry = [reserved |-> TRUE, type |-> type, slot |-> now, ident |-> ident]
  OBVIOUS
<1>6. /\ devices' = [devices EXCEPT ![n] = entry]
      /\ statuses' = IF statuses[now] = {"DRQ"} THEN [statuses EXCEPT ![now] = {}] ELSE statuses
  <2>1. (Answered(statuses[now]) /\ statuses[now] = {"DRQ"}) <=> statuses[now] = {"DRQ"}
    BY <1>3 DEF Answered
  <2> QED BY <1>0, <1>4, <1>5, <2>1 DEF ReadBuffer
<1>7. entry \in Device
  BY <1>1, <1>3, <1>4, <1>5 DEF Device
<1>8. /\ devices' \in [0 .. 3 -> Device \union {NoDevice}]
      /\ devices'[n] = entry
      /\ \A k \in 0 .. 3 : k # n => devices'[k] = devices[k]
  BY <1>1, <1>6, <1>7 DEF ProbeInv, ProbeTypes
<1>9. /\ statuses' \in [Slot -> SUBSET {"BSY", "DRQ", "ERR"}]
      /\ \A s \in Slot : s # now => statuses'[s] = statuses[s]
      /\ statuses'[now] = IF statuses[now] = {"DRQ"} THEN {} ELSE {"BSY"}
  BY <1>1, <1>3, <1>6 DEF ProbeInv, ProbeTypes
<1>10. /\ Probed' = turn + 1 /\ turn' \in 1 .. 4 /\ step' \in {"identify", "done"}
  BY <1>2, ProbeAdvance DEF ProbeInv
<1>11. ProbeTypes'
  BY <1>1, <1>2, <1>8, <1>9, <1>10 DEF ProbeInv, ProbeTypes
<1>12. EntryOf(n, now)' /\ (ident = Noise => devices'[n].ident = Noise)
  BY <1>1, <1>2, <1>3, <1>4, <1>5, <1>8 DEF EntryOf
<1>13. \A k \in 0 .. 3 : k < n => \A s : EntryOf(k, s) => EntryOf(k, s)'
  BY <1>1, <1>2, <1>8 DEF EntryOf
<1>14. Entries'
  <2>1. \A k : Place(k)' = Place(k) /\ (Present(k)' <=> Present(k))
    BY <1>2 DEF Place, Present
  <2>2. Place(turn + 1) = n + 1
    BY <1>1, <1>3, PlaceNext
  <2>3. \A k \in 0 .. 3 : IF k < n + 1 THEN \E s \in Slot : EntryOf(k, s)'
                                       ELSE devices'[k] = NoDevice
    <3>1. \A k \in 0 .. 3 : IF k < n THEN \E s \in Slot : EntryOf(k, s) ELSE devices[k] = NoDevice
      BY <1>0 DEF ProbeInv, Entries
    <3>2. \A k \in 0 .. 3 : k < n + 1 <=> k < n \/ k = n
      BY <1>1
    <3> QED BY <1>1, <1>8, <1>12, <1>13, <3>1, <3>2
  <2>4. ASSUME NEW j \in 1 .. 4, j < turn + 1, Present(j) PROVE EntryOf(Place(j), Order[j])'
    <3>1. CASE j = turn
      <4>1. \A k, s : k = n /\ s = now => EntryOf(k, s)'
        BY <1>12
      <4> QED BY <1>1, <2>1, <3>1, <4>1
    <3>2. CASE j # turn
      <4>1. j < turn /\ EntryOf(Place(j), Order[j])
        BY <1>1, <2>4, <3>2 DEF ProbeInv, Entries
      <4>2. Place(j) \in 0 .. 3 /\ Place(j) < n
        BY <1>1, <2>4, <4>1, PlaceOrder
      <4>3. \A k \in 0 .. 3 : k = Place(j) => EntryOf(k, Order[j])'
        BY <1>13, <4>1, <4>2
      <4> QED BY <2>1, <4>2, <4>3
    <3> QED BY <3>1, <3>2
  <2> QED BY <1>2, <1>10, <2>1, <2>2, <2>3, <2>4 DEF Entries
<1>15. \A s \in Slot : Early(s) => Early(s)'
  <2> SUFFICES ASSUME NEW s \in Slot, Early(s) PROVE Early(s)'
    OBVIOUS
  <2>1. PICK k \in 0 .. 3 : k < n /\ EntryOf(k, s) /\ devices[k].ident = Noise
    BY <1>0 DEF Early
  <2>2. EntryOf(k, s)' /\ devices'[k].ident = Noise /\ k < count'
    BY <1>1, <1>2, <1>8, <1>13, <2>1
  <2> QED BY <1>2, <2>2 DEF Early
<1>16. After(now)'
  <2>1. CASE statuses[now] = {"DRQ"}
    BY <1>2, <1>3, <1>9, <2>1 DEF After
  <2>2. CASE statuses[now] # {"DRQ"}
    <3>1. kind[now] = "atapi" /\ statuses'[now] = {"BSY"} /\ ident = Noise
      BY <1>3, <1>4, <1>9, <2>2
    <3>2. Early(now)'
      <4>1. n \in 0 .. 3 /\ n < count'
        BY <1>1, <1>2
      <4> QED BY <1>2, <1>12, <3>1, <4>1 DEF Early
    <3> QED BY <3>1, <3>2 DEF After
  <2> QED BY <2>1, <2>2
<1>17. Bits'
  BY <1>0, <1>2, <1>9, <1>15, <1>16, BitsAdvance
<1> QED BY <1>11, <1>14, <1>17 DEF ProbeInv

\* A drive that ends its command is being probed, or was read before it did.
LEMMA AnswerKeeps ==
  ASSUME ProbeInv, NEW s \in Slot, Answer(s)
  PROVE  ProbeInv'
<1>1. /\ statuses[s] = {"BSY"} /\ UNCHANGED <<kind, step, turn, type, count, devices>>
      /\ statuses' = [statuses EXCEPT ![s] = IF Refuses(s) THEN {"ERR"} ELSE {"DRQ"}]
  BY DEF Answer
<1>2. /\ statuses' \in [Slot -> SUBSET {"BSY", "DRQ", "ERR"}]
      /\ \A r \in Slot : r # s => statuses'[r] = statuses[r]
      /\ statuses'[s] = IF Refuses(s) THEN {"ERR"} ELSE {"DRQ"}
  BY <1>1 DEF ProbeInv, ProbeTypes
<1>3. ProbeTypes'
  BY <1>1, <1>2 DEF ProbeInv, ProbeTypes
<1>4. Probed' = Probed /\ Probed \in {1, 2, 3, 4, 5} /\ turn \in 1 .. 4
  BY <1>1 DEF Probed, ProbeInv, ProbeTypes
<1>5. Entries'
  BY <1>1, <1>4, EntriesStay DEF ProbeInv
<1>6. \A r \in Slot : Early(r) <=> Early(r)'
  BY <1>1, EarlyStays
<1>7. ASSUME NEW j \in 1 .. 4
      PROVE  IF j < Probed THEN After(Order[j])'
             ELSE IF j = turn /\ step \in {"poll", "read"} THEN During(Order[j])'
             ELSE Before(Order[j])'
  <2>1. PICK r \in Slot : r = Order[j]
    BY OrderFacts
  <2>2. IF j < Probed THEN After(r)
        ELSE IF j = turn /\ step \in {"poll", "read"} THEN During(r)
        ELSE Before(r)
    BY <2>1 DEF ProbeInv, Bits
  <2>3. CASE r # s
    <3>1. statuses'[r] = statuses[r]
      BY <1>2, <2>3
    <3>2. (After(r) => After(r)') /\ (During(r) => During(r)') /\ (Before(r) => Before(r)')
      BY <1>1, <1>6, <3>1 DEF After, During, Before
    <3> QED BY <2>1, <2>2, <3>2
  <2>4. CASE r = s /\ j < Probed
    <3>1. Early(r)
      BY <1>1, <2>2, <2>4 DEF After
    <3>2. kind[r] = "atapi" /\ ~(r = slot /\ step = "poll")
      <4>1. kind[r] = "atapi"
        BY <3>1 DEF Early
      <4>2. step = "poll" => j # turn
        BY <1>4, <2>4 DEF Probed
      <4> QED BY <1>4, <2>1, <4>1, <4>2, OrderFacts DEF slot
    <3>3. statuses'[r] = {"DRQ"}
      BY <1>2, <2>4, <3>2 DEF Refuses
    <3>4. After(r)'
      BY <1>6, <3>1, <3>3 DEF After
    <3> QED BY <2>1, <2>4, <3>4
  <2>5. CASE r = s /\ ~(j < Probed) /\ j = turn /\ step \in {"poll", "read"}
    <3>1. During(r) /\ r = slot
      BY <2>1, <2>2, <2>5 DEF slot
    <3>2. During(r)'
      BY <1>1, <1>2, <2>5, <3>1 DEF During, Refuses
    <3> QED BY <2>1, <2>5, <3>2
  <2>6. CASE r = s /\ ~(j < Probed) /\ ~(j = turn /\ step \in {"poll", "read"})
    BY <1>1, <2>2, <2>6 DEF Before
  <2> QED BY <2>3, <2>4, <2>5, <2>6
<1>8. Bits'
  BY <1>1, <1>4, <1>7 DEF Bits
<1> QED BY <1>3, <1>5, <1>8 DEF ProbeInv

\* Whenever drives end their commands between two reads of the status register, the bits
\* of each slot and its entry agree on how far the probe of it has come.
THEOREM Invariant == ProbeSpec => []ProbeInv
<1>1. ProbeInv /\ [ProbeNext]_probeVars => ProbeInv'
  <2> SUFFICES ASSUME ProbeInv, [ProbeNext]_probeVars PROVE ProbeInv'
    OBVIOUS
  <2>1. CASE UNCHANGED probeVars
    <3>1. UNCHANGED <<kind, step, turn, type, count, devices, statuses>>
      BY <2>1 DEF probeVars
    <3>2. ProbeTypes'
      BY <3>1 DEF ProbeInv, ProbeTypes
    <3>3. Probed' = Probed /\ Probed \in {1, 2, 3, 4, 5}
      BY <3>1 DEF Probed, ProbeInv, ProbeTypes
    <3>4. Entries'
      BY <3>1, <3>3, EntriesStay DEF ProbeInv
    <3>5. \A s : Early(s)' <=> Early(s)
      BY <3>1 DEF Early, EntryOf
    <3>6. \A s : /\ After(s)' <=> After(s)
                 /\ During(s)' <=> During(s)
                 /\ Before(s)' <=> Before(s)
      BY <3>1, <3>5 DEF After, During, Before
    <3>7. Bits'
      BY <3>1, <3>3, <3>6 DEF ProbeInv, Bits
    <3> QED BY <3>2, <3>4, <3>7 DEF ProbeInv
  <2> QED
    BY <2>1, IdentifyKeeps, PollAnsweredKeeps, PollRefusedKeeps, ReadBufferKeeps, AnswerKeeps
    DEF ProbeNext, Probe
<1> QED BY <1>1, Initially, PTL DEF ProbeSpec

\* devices[] lists the disks and packet drives in the order of the channels, whatever is
\* attached: every `continue' leaves its entry to the next drive (ide.c:458, ide.c:481).
THEOREM ProbeComplete == ProbeSpec => []Listed
<1>1. ProbeInv => Listed
  <2> SUFFICES ASSUME ProbeInv, step = "done"
               PROVE  /\ \A k \in 1 .. 4 : Present(k) => /\ devices[Place(k)].reserved
                                                         /\ devices[Place(k)].slot = Order[k]
                                                         /\ devices[Place(k)].type = kind[Order[k]]
                      /\ count = Place(5)
                      /\ \A k \in 0 .. 3 : k >= count => ~devices[k].reserved
    BY DEF Listed
  <2>1. Probed = 5 /\ count \in Nat
    BY DEF Probed, ProbeInv, ProbeTypes
  <2>2. count = Place(5)
    BY <2>1 DEF ProbeInv, Entries
  <2>3. \A k \in 0 .. 3 : k >= count => devices[k] = NoDevice
    BY <2>1 DEF ProbeInv, Entries
  <2>4. \A k \in 1 .. 4 : Present(k) => EntryOf(Place(k), Order[k])
    BY <2>1 DEF ProbeInv, Entries
  <2> QED BY <2>2, <2>3, <2>4 DEF EntryOf, NoDevice
<1> QED BY <1>1, Invariant, PTL

\* What is entered is the drive's own identity, and no drive is left in the middle of a
\* transfer but for packet drives, whose identity was read too early (ide.c:488).
THEOREM IdentitiesOwn == ProbeSpec => []OwnIdentity
<1>1. ProbeInv => OwnIdentity
  <2> SUFFICES ASSUME ProbeInv PROVE OwnIdentity
    OBVIOUS
  <2>1. ASSUME NEW k \in 0 .. 3, devices[k].reserved
        PROVE  \/ devices[k].ident = devices[k].slot
               \/ devices[k].ident = Noise /\ devices[k].type = "atapi"
    <3>1. PICK s \in Slot : EntryOf(k, s)
      BY <2>1 DEF ProbeInv, Entries, NoDevice
    <3> QED BY <3>1 DEF EntryOf
  <2>2. ASSUME step = "done", NEW s \in Slot, kind[s] # "float", statuses[s] \in {{"BSY"}, {"DRQ"}}
        PROVE  /\ kind[s] = "atapi"
               /\ \E k \in 0 .. 3 : /\ devices[k].reserved
                                    /\ devices[k].slot = s /\ devices[k].ident = Noise
    <3>1. PICK j \in 1 .. 4 : Order[j] = s
      BY OrderFacts
    <3>2. After(s)
      BY <2>2, <3>1 DEF ProbeInv, Bits, Probed
    <3>3. Early(s)
      BY <2>2, <3>2 DEF After
    <3> QED BY <3>3 DEF Early, EntryOf
  <2> QED BY <2>1, <2>2 DEF OwnIdentity
<1> QED BY <1>1, Invariant, PTL
=============================================================================
