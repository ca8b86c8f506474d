--------------------------- MODULE FrameAllocator ---------------------------
(***************************************************************************)
(* What the physical memory manager promises its clients: alloc_frames     *)
(* hands out a naturally aligned run of free pages, and a page has one     *)
(* owner at a time.  How free memory is organised does not show.           *)
(***************************************************************************)
EXTENDS Frames

VARIABLES
  pages,   \* the addresses of the free pages
  held     \* the blocks clients hold

Init == pages = {} /\ held = {}

\* Boot: memory of the firmware's map becomes available.
Donate(S) ==
  /\ S \cap (pages \cup AllPages(held)) = {}
  /\ pages' = pages \cup S
  /\ UNCHANGED held

Alloc(b) ==
  /\ b.addr % Bytes[b.order] = 0
  /\ PagesOf(b) \subseteq pages
  /\ pages' = pages \ PagesOf(b)
  /\ held' = held \cup {b}

Free(b) ==
  /\ b \in held
  /\ pages' = pages \cup PagesOf(b)
  /\ held' = held \ {b}

\* A step is determined by the pages and blocks it adds.
Next ==
  \/ Donate(pages' \ pages)
  \/ \E b \in held' \ held : Alloc(b)
  \/ \E b \in held : Free(b)

Spec == Init /\ [][Next]_<<pages, held>>
=============================================================================
