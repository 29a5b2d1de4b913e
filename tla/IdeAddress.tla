----------------------------- MODULE IdeAddress -----------------------------
(***************************************************************************)
(* How ide_ata_access (drivers/ide/ide.c) puts a sector number into the    *)
(* registers of an ATA drive, and which sector a drive takes them for.     *)
(* The driver writes them byte by byte, in one of three modes: cylinder,   *)
(* head and sector; 28 bits; 48 bits.                                      *)
(***************************************************************************)
EXTENDS Naturals

CONSTANTS
  Byte,     \* values of a register (256)
  Nibble,   \* values of the head field of the drive register (16)
  Heads,    \* heads the driver assumes (16)
  Spt       \* sectors per track the driver assumes (63)

ASSUME AddressAssumption ==
  /\ Byte \in Nat \ {0}
  /\ Nibble \in 1 .. Byte - 1
  /\ Heads \in 1 .. Nibble
  /\ Spt \in 1 .. Byte - 1

Limit28 == Byte * (Byte * (Byte * Nibble))
Wrap    == Byte * (Byte * (Byte * Byte))     \* unsigned int

\* Sectors that 16-bit cylinder numbers reach.
LimitChs == Byte * (Byte * (Heads * Spt))

Low(x)  == x % Byte
High(x) == x \div Byte

\* Mutant: 48 bits a sector too late.
ModeLate(lba, lba28) == IF lba > Limit28 THEN 2 ELSE IF lba28 THEN 1 ELSE 0

Mode(lba, lba28) == IF lba >= Limit28 THEN 2 ELSE IF lba28 THEN 1 ELSE 0

\* `lba + 1 - sect': where the track of the sector begins.
Track(lba)    == lba - (lba % Spt)
Cylinder(lba) == (Track(lba) \div (Heads * Spt)) % (Byte * Byte)

\* Mutant: a remainder for the quotient.
HeadNrRest(lba) == (Track(lba) % (Heads * Spt)) % Spt

HeadNr(lba)   == (Track(lba) % (Heads * Spt)) \div Spt

Registers(lba, mode) ==
  IF mode = 0
    THEN [head |-> HeadNr(lba),
          lba0 |-> (lba % Spt) + 1,
          lba1 |-> Low(Cylinder(lba)),
          lba2 |-> Low(High(Cylinder(lba))),
          lba3 |-> 0]
    ELSE [head |-> IF mode = 1 THEN High(High(High(lba))) % Nibble ELSE 0,
          lba0 |-> Low(lba),
          lba1 |-> Low(High(lba)),
          lba2 |-> Low(High(High(lba))),
          lba3 |-> IF mode = 2 THEN Low(High(High(High(lba)))) ELSE 0]

\* The sector a drive with the assumed geometry takes the registers for.
Sector(r, mode) ==
  IF mode = 0
    THEN ((r.lba1 + Byte * r.lba2) * Heads + r.head) * Spt + r.lba0 - 1
    ELSE r.lba0 + Byte * (r.lba1 + Byte * r.lba2)
           + Byte * (Byte * (Byte * (IF mode = 1 THEN r.head ELSE r.lba3)))
=============================================================================
