------------------------------- MODULE Tarfs -------------------------------
(***************************************************************************)
(* The initial ramdisk (fs/tarfs/tarfs.c): init_tarfs walks over the       *)
(* headers of the tar archive the boot loader left at loc, and             *)
(* tarfs_list_headers prints the name and the content of each file.        *)
(*                                                                         *)
(* An archive is the sequence of the sizes of its files.  In memory each   *)
(* file is a block with its name and size, and its content in blocks       *)
(* filled up with zeros; blocks of zeros end the archive.  A byte is the   *)
(* number of a file with a position in its content, 0 for its name, which  *)
(* counts as one byte.                                                     *)
(***************************************************************************)
EXTENDS Naturals, Sequences

CONSTANTS
  Block,       \* bytes of a tar block (512)
  Radix,       \* of the size in a header (8)
  Places,      \* digits of the size in a header (11)
  MaxHeaders,  \* entries of headers (32)
  Cbuf,        \* bytes of cbuf (256)
  Mapped,      \* end of the identity mapping (4 MiB)
  Locs,        \* where the boot loader puts the archive
  Archives     \* the archives

\* `count' of tarfs_getsize: what the digit before the last k is worth.
Weight[k \in Nat] == IF k = 0 THEN 1 ELSE Weight[k - 1] * Radix

ASSUME TarfsAssumption ==
  /\ Block \in Nat \ {0, 1} /\ Radix \in Nat \ {0, 1} /\ Places \in Nat \ {0}
  /\ MaxHeaders \in Nat /\ Cbuf \in Nat \ {0, 1} /\ Mapped \in Nat
  /\ Locs \subseteq Nat
  /\ Archives \subseteq Seq(0 .. Weight[Places] - 1)

VARIABLES
  pc,        \* what start_kernel has reached in init_tarfs and after
  loc, archive,
  addr,      \* the walk's position
  headers,   \* addresses of the headers found; its length is the loop's i
  caddr,     \* what the walk stores into each of these headers
  nr_files,
  listing    \* the lines printed: the bytes of a name, and of a content

vars == <<pc, loc, archive, addr, headers, caddr, nr_files, listing>>

Init ==
  /\ pc = "tarfs_parse"
  /\ loc \in Locs /\ archive \in Archives
  /\ addr = loc
  /\ headers = <<>> /\ caddr = <<>> /\ nr_files = 0
  /\ listing = <<>>
-----------------------------------------------------------------------------
(***************************************************************************)
(* The archive in memory: its format, by which tar wrote it.               *)
(***************************************************************************)
NUL == [file |-> 0, at |-> 0]

Blocks(size) == (size + Block - 1) \div Block

\* Where the files of these sizes are when the first is at `first', and what is behind
\* the last.
Place(first, sizes) ==
  LET start[i \in 1 .. Len(sizes) + 1] ==
        IF i = 1 THEN first ELSE start[i - 1] + (1 + Blocks(sizes[i - 1])) * Block
  IN  start

\* Where file i is.
Start == Place(loc, archive)

\* Where the first block of zeros is.
End == Start[Len(archive) + 1]

Byte(a) ==
  LET at(i) == (a + 1) - (Start[i] + Block)
      file  == {i \in DOMAIN archive : Start[i] <= a /\ a < Start[i + 1]}
  IN  CASE \E i \in file : a = Start[i] ->
             [file |-> CHOOSE i \in file : TRUE, at |-> 0]
        [] \E i \in file : at(i) \in 1 .. archive[i] ->
             LET i == CHOOSE i \in file : TRUE IN [file |-> i, at |-> at(i)]
        [] OTHER -> NUL

\* The size as the header at a has it, the most significant digit first.
SizeField(a) ==
  LET i == CHOOSE i \in DOMAIN archive : a = Start[i]
  IN  [j \in 1 .. Places |-> (archive[i] \div Weight[Places - j]) % Radix]
-----------------------------------------------------------------------------
(***************************************************************************)
(* tarfs_parse.                                                            *)
(***************************************************************************)
\* Mutant: the digits are weighed from the front.
GetSizeForward(in) ==
  LET size[j \in 0 .. Places] == IF j = 0 THEN 0 ELSE size[j - 1] + in[j] * Weight[j - 1]
  IN  size[Places]

\* 11 digits reach beyond an unsigned int; a file in 32-bit memory does not.
tarfs_getsize(in) ==
  LET size[j \in 0 .. Places] ==
        IF j = 0 THEN 0 ELSE size[j - 1] + in[Places + 1 - j] * Weight[j - 1]
  IN  size[Places]

\* The header's block and the full blocks of the content; what is left fills another.
Full(size)    == (size \div Block + 1) * Block
Padding(size) == IF size % Block # 0 THEN Block ELSE 0

\* Mutant: the address is taken before it is moved.
CaddrBefore(a, size) == a
Caddr(a, size)       == a + Full(size)

Header ==
  /\ pc = "tarfs_parse" /\ addr < Mapped /\ Byte(addr) # NUL
  /\ Len(headers) < MaxHeaders
  /\ LET size == tarfs_getsize(SizeField(addr))
     IN  /\ caddr' = Append(caddr, Caddr(addr, size))
         /\ addr' = addr + Full(size) + Padding(size)
  /\ headers' = Append(headers, addr)
  /\ UNCHANGED <<pc, loc, archive, nr_files, listing>>

LastHeader ==
  /\ pc = "tarfs_parse" /\ addr < Mapped /\ Byte(addr) = NUL
  /\ nr_files' = Len(headers)
  /\ pc' = "list"
  /\ UNCHANGED <<loc, archive, addr, headers, caddr, listing>>

\* The entry behind headers is something else of the kernel's data.
Overrun ==
  /\ pc = "tarfs_parse" /\ addr < Mapped /\ Byte(addr) # NUL
  /\ Len(headers) = MaxHeaders
  /\ pc' = "overrun"
  /\ UNCHANGED <<loc, archive, addr, headers, caddr, nr_files, listing>>

\* Above the identity mapping a read is a page fault.
PageFault ==
  /\ pc = "tarfs_parse" /\ addr >= Mapped
  /\ pc' = "panic"
  /\ UNCHANGED <<loc, archive, addr, headers, caddr, nr_files, listing>>
-----------------------------------------------------------------------------
(***************************************************************************)
(* tarfs_list_headers, one file after the other.                           *)
(***************************************************************************)
Text(a) ==
  LET length == CHOOSE k \in 0 .. End + Block : /\ Byte(a + k) = NUL
                                                /\ \A l \in 0 .. k - 1 : Byte(a + l) # NUL
  IN  [k \in 1 .. length |-> Byte(a + k - 1)]

Fits(text) == Len(text) < Cbuf

\* strcpy into cbuf, and the line.
List ==
  LET i == Len(listing) + 1
  IN  /\ pc = "list" /\ i <= nr_files
      /\ IF Fits(Text(caddr[i]))
           THEN /\ listing' = Append(listing, [name |-> Byte(headers[i]),
                                               text |-> Text(caddr[i])])
                /\ UNCHANGED pc
           ELSE pc' = "smashed" /\ UNCHANGED listing
      /\ UNCHANGED <<loc, archive, addr, headers, caddr, nr_files>>

ListEnds ==
  /\ pc = "list" /\ Len(listing) = nr_files
  /\ pc' = "init_ide"
  /\ UNCHANGED <<loc, archive, addr, headers, caddr, nr_files, listing>>

Next == Header \/ LastHeader \/ Overrun \/ PageFault \/ List \/ ListEnds

Spec == Init /\ [][Next]_vars
-----------------------------------------------------------------------------
\* The walk finds the headers of the archive, each once, in order, and no other block,
\* whatever the sizes between them are (tarfs.c:33); it fails only for an archive with
\* more files than headers has entries, or one that ends above the first 4 MiB.
Walked ==
  /\ Len(headers) <= Len(archive) /\ addr = Start[Len(headers) + 1]
  /\ \A i \in DOMAIN headers : headers[i] = Start[i]
  /\ pc \in {"list", "init_ide"} => nr_files = Len(archive)
  /\ pc = "overrun" => Len(archive) > MaxHeaders
  /\ pc = "panic" => End >= Mapped

\* A line has the name of its file and, of its content, what lies in the last block that
\* is not full: all of it only if it is shorter than a block (tarfs.c:34).  Where no
\* such block is the line has the name of the next file.  cbuf is too short only for
\* the rest of some file.
Rest(i) ==
  LET full == (archive[i] \div Block) * Block
  IN  IF archive[i] > full
        THEN [k \in 1 .. archive[i] - full |-> [file |-> i, at |-> full + k]]
        ELSE IF i = Len(archive) THEN <<>> ELSE <<[file |-> i + 1, at |-> 0]>>

Listed ==
  /\ \A i \in DOMAIN listing :
       listing[i] = [name |-> [file |-> i, at |-> 0], text |-> Rest(i)]
  /\ pc = "init_ide" => Len(listing) = Len(archive)
  /\ pc = "smashed" => \E i \in DOMAIN archive : archive[i] % Block >= Cbuf
=============================================================================
