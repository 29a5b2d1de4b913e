------------------------------ MODULE PmmImage ------------------------------
(***************************************************************************)
(* The page allocator and what was loaded before it: the kernel, the boot  *)
(* module and the tables of the boot loader lie in memory that the map     *)
(* calls available, and pmm_free_available_pages (mm/pmm.c:40) frees their *)
(* frames with the others.  Only the order of the stack protects them.     *)
(***************************************************************************)
EXTENDS Pmm

CONSTANT Image  \* the frames of the kernel, the module and the loader's tables

ASSUME ImageAssumption == Image \subseteq Frame

VARIABLE peak  \* history: the most frames that were held at once

Most == IF Cardinality(owned') > peak THEN Cardinality(owned') ELSE peak

ImageInit == Init /\ peak = 0
ImageNext == Next /\ peak' = Most
ImageSpec == ImageInit /\ [][ImageNext]_<<vars, peak>>
-----------------------------------------------------------------------------
\* The frames above the image that are there to be handed out.
Above == {f \in Managed \ StackPages : \A i \in Image : f > i}

\* However calls to allocate and to free follow each other, the allocator hands out no
\* frame of the kernel's until more frames were held at once than the map has above the
\* image; pmm_alloc_page (pmm.c:13) then does so long before it is out of memory.
ImageKept ==
  ~drained /\ Image \intersect StackPages = {} /\ peak <= Cardinality(Above) =>
    owned \intersect Image = {}
=============================================================================
