------------------------------- MODULE PageMap -------------------------------
(* What the page tables promise the paging code: every process, and the       *)
(* kernel, has a private map from page numbers to entries, and an operation   *)
(* on one page changes the entry of no other page and of no other space.      *)
EXTENDS Entries

CONSTANTS Procs, Kernel, Pages, Frames, Slots, Grants, Pattern

Spaces == Procs \cup {Kernel}

VARIABLE map                \* the entry of each page of each space

MapInit == map = [s \in Spaces |-> [g \in Pages |-> EmptyEntry]]

(* The maps that one operation may make of map m.                             *)

\* n pages from page g on get the entries E(0), E(1) ...
Fill(m, s, g, n, E(_)) ==
  [m EXCEPT ![s] =
     [h \in Pages |-> IF h \in g .. g + n - 1 THEN E(h - g) ELSE @[h]]]

\* The pages exist from now on, and are nowhere.
Extended(m) ==
  {Fill(m, p, g, n, LAMBDA i : EmptyEntry) :
     p \in Procs, g \in Pages, n \in Grants}

\* The kernel's pages get consecutive frames.
PinnedPages(m) ==
  {Fill(m, Kernel, g, n, LAMBDA i : Pinned(f + i)) :
     g \in Pages, n \in Grants, f \in Frames}

\* The pages get the entry that the pattern of vmap_pgd_memset amounts to.
Reserved(m) ==
  {Fill(m, p, g, n, LAMBDA i : Pattern) :
     p \in Procs, g \in Pages, n \in Grants}

\* A page moves into a free frame ...
PagedIn(m) ==
  {[m EXCEPT ![at[1]][at[2]] = Loaded(@, f)] :
     at \in {pg \in Procs \X Pages : ~InRam(m[pg[1]][pg[2]])}, f \in Frames}

\* ... or into the frame of a page of its process, which goes to a slot.
Replaced(m) ==
  {[m EXCEPT ![at[1]][at[2]] = Loaded(@, m[at[1]][at[3]].loc),
             ![at[1]][at[3]] = SetSwap(@, s)] :
     at \in {pgv \in Procs \X Pages \X Pages : /\ ~InRam(m[pgv[1]][pgv[2]])
                                               /\ InRam(m[pgv[1]][pgv[3]])},
     s \in Slots}

\* A page in RAM is written.
Dirtied(m) ==
  {[m EXCEPT ![at[1]][at[2]] = Touched(@)] :
     at \in {pg \in Procs \X Pages : InRam(m[pg[1]][pg[2]])}}

MapNext ==
  map' \in Extended(map) \cup PinnedPages(map) \cup Reserved(map)
           \cup PagedIn(map) \cup Replaced(map) \cup Dirtied(map)

MapSpec == MapInit /\ [][MapNext]_map
=============================================================================
