------------------------------- MODULE Memphy --------------------------------
(* Physical memory devices (mm-memphy.c): a device is its contents, one value *)
(* per frame, and its list of free frames.  Every operation runs under        *)
(* memphy_lock.  A serial device (swap) moves a cursor before each access, but*)
(* the cell it then uses is the one the address names, as on a random one.    *)
EXTENDS Naturals, Sequences, SequencesExt

\* MEMPHY_read: an address outside the device leaves the caller's byte, which
\* the system call has set to zero.
ReadFrame(dev, f) == IF f \in DOMAIN dev THEN dev[f] ELSE 0

\* MEMPHY_write: a write outside the device is refused, and nobody looks.
WriteFrame(dev, f, v) == IF f \in DOMAIN dev THEN [dev EXCEPT ![f] = v] ELSE dev

\* __swap_cp_page: what the device to holds after frame f of from is copied to
\* its frame g.
CopyPage(from, f, to, g) == WriteFrame(to, g, ReadFrame(from, f))

\* MEMPHY_format: the frames of a device of n frames, all free, in order.
FormatFree(n) == [i \in 1 .. n |-> i - 1]

\* MEMPHY_get_freefp takes the head of the list ...
FirstFree(free) == Head(free)
AfterGet(free)  == Tail(free)

\* ... and MEMPHY_put_freefp puts a frame back at the head.
AfterPut(free, f) == <<f>> \o free

\* The run of n free frames that MEMPHY_get_contiguous_freefp finds in a device
\* of total frames: the lowest one.
IsFreeRun(free, f, n, total) ==
  /\ f + n <= total
  /\ f .. f + n - 1 \subseteq ToSet(free)

HasFreeRun(free, n, total) == \E f \in 0 .. total : IsFreeRun(free, f, n, total)

FreeRun(free, n, total) ==
  CHOOSE f \in 0 .. total :
    /\ IsFreeRun(free, f, n, total)
    /\ \A e \in 0 .. f - 1 : ~IsFreeRun(free, e, n, total)

\* MEMPHY_get_contiguous_freefp takes those frames out and keeps the order of
\* the others.
AfterGetRun(free, f, n) ==
  LET Kept[i \in 0 .. Len(free)] ==
        IF i = 0 THEN <<>>
        ELSE IF free[i] \in f .. f + n - 1 THEN Kept[i - 1]
        ELSE Append(Kept[i - 1], free[i])
  IN  Kept[Len(free)]
=============================================================================
