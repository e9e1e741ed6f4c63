---------------------------- MODULE ExecutableMap ----------------------------
(***************************************************************************)
(* ExecutableMap (x64): how the threads of one task fault its program into *)
(* memory.  The program's image is mapped read-only, a sector at a time;   *)
(* the first write to a sector splits it into pages, each of which gets a  *)
(* copy of its own when it is written.  The handler runs under a           *)
(* NoncriticalLock, but the threads that do not fault go on reading and    *)
(* writing what is mapped, and a fault may be old when it is handled.      *)
(*                                                                         *)
(* The hold that HandlePageFault takes on the task is in Lifecycle.tla.    *)
(***************************************************************************)
EXTENDS Integers, FiniteSets, Functions

CONSTANTS
  Threads,
  Sectors,   \* the 2 MB sectors of the program
  Pages,     \* their 4 KB pages
  SectorOf,  \* SectorOf[p]: the sector page p is in
  Outside,   \* an address that is not the program's
  Frames,    \* the physical pages that AllocPhys can return
  Image,     \* the physical memory of the program itself
  None

ASSUME ExecutableMapAssumption ==
  /\ SectorOf \in [Pages -> Sectors]
  /\ Outside \notin Pages /\ Image \notin Frames /\ None \notin Frames \cup Threads \cup {Image}

VARIABLES
  mode,       \* Sector::mode
  writables,  \* Sector::writables, by page
  grain,      \* the page size for which each sector's addresses are reserved
  mapped,     \* what each page of the task's memory map leads to
  writable,   \* the pages that are mapped writable
  allocated,  \* the frames that have been allocated
  content,    \* what each frame contains
  lock,       \* who holds ExecutableMap::lock, or None
  pc,         \* where each thread is in HandlePageFault
  fault,      \* what each thread faulted on
  panicked,   \* the kernel has stopped
  deleted,    \* the map has been deleted
  wrote,      \* the pages that the program has written to (history)
  raced       \* the pages accessed while another's fault on them was pending (history)

mapVars == <<mode, writables, grain, mapped, writable>>
vars == <<mapVars, allocated, content, lock, pc, fault, panicked, deleted, wrote, raced>>

NoFault == [page |-> None, write |-> FALSE]
Pending == {"fault", "handle", "alloc", "map", "copy"}

\* The constructor reserves the sectors for large pages.
Init ==
  /\ mode = [s \in Sectors |-> 0] /\ grain = [s \in Sectors |-> "large"]
  /\ writables = [p \in Pages |-> None]
  /\ mapped = [p \in Pages |-> None] /\ writable = {}
  /\ allocated = {} /\ content = [f \in Frames |-> "junk"]
  /\ lock = None /\ pc = [th \in Threads |-> "user"]
  /\ fault = [th \in Threads |-> NoFault]
  /\ panicked = FALSE /\ deleted = FALSE /\ wrote = {} /\ raced = {}

Running == ~panicked /\ ~deleted
At(th, l) == Running /\ pc[th] = l
Goto(th, l) == pc' = [pc EXCEPT ![th] = l]

InSector(p) == {q \in Pages : SectorOf[q] = SectorOf[p]}

-----------------------------------------------------------------------------
(* The program.                                                            *)

Allowed(p, write) == p \in Pages /\ mapped[p] # None /\ (write => p \in writable)

\* A thread reads or writes a page, or repeats the access that faulted.
Access(th, p, write) ==
  /\ At(th, "user") \/ (At(th, "retry") /\ fault[th] = [page |-> p, write |-> write])
  /\ raced' = raced \cup {q \in {p} \cap Pages :
                          \E o \in Threads \ {th} : pc[o] \in Pending /\ fault[o].page = q}
  /\ \/ /\ Allowed(p, write)
        /\ Goto(th, "user")
        /\ content' = [f \in Frames |-> IF write /\ f = mapped[p] THEN "data" ELSE content[f]]
        /\ wrote' = IF write THEN wrote \cup {p} ELSE wrote
        /\ fault' = [fault EXCEPT ![th] = NoFault]
     \/ /\ ~Allowed(p, write)
        /\ Goto(th, "fault")
        /\ fault' = [fault EXCEPT ![th] = [page |-> p, write |-> write]]
        /\ UNCHANGED <<content, wrote>>
  /\ UNCHANGED <<mapVars, allocated, lock, panicked, deleted>>

-----------------------------------------------------------------------------
(* HandlePageFault, under the lock.                                        *)

SeizeLock(th) ==
  /\ At(th, "fault") /\ lock = None
  /\ lock' = th /\ Goto(th, "handle")
  /\ UNCHANGED <<mapVars, allocated, content, fault, panicked, deleted, wrote, raced>>

\* The address is not the program's: HandlePageFault returns false, and the
\* kernel panics.
NotMine(th) ==
  /\ At(th, "handle") /\ fault[th].page \notin Pages
  /\ panicked' = TRUE /\ lock' = None
  /\ UNCHANGED <<mapVars, allocated, content, pc, fault, deleted, wrote, raced>>

\* MapAt of S to the image, read-only.
MapImageWritable(S) ==                             \* mutant of MapImage
  /\ mapped' = [p \in Pages |-> IF p \in S THEN Image ELSE mapped[p]]
  /\ writable' = writable \cup S
MapImage(S) ==
  /\ mapped' = [p \in Pages |-> IF p \in S THEN Image ELSE mapped[p]]
  /\ writable' = writable \ S

HandleReadFault(th) ==
  LET p == fault[th].page
      s == SectorOf[p]
  IN /\ At(th, "handle") /\ p \in Pages /\ ~fault[th].write
     /\ \/ mode[s] = 0 /\ MapImage(InSector(p)) /\ mode' = [mode EXCEPT ![s] = 1]
        \/ mode[s] = 1 /\ UNCHANGED <<mapped, writable, mode>>
        \/ mode[s] = 2 /\ MapImage({p}) /\ UNCHANGED mode
     /\ lock' = None /\ Goto(th, "retry")
     /\ UNCHANGED <<writables, grain, allocated, content, fault, panicked, deleted, wrote, raced>>

UnmapAndReserve(S) == mapped' = [p \in Pages |-> IF p \in S THEN None ELSE mapped[p]]

SplitsAgain(s) == TRUE                             \* mutant of MustSplit
MustSplit(s) == mode[s] # 2

\* SwitchToWritable, unless the sector has been split before.
HandleWriteFault(th) ==
  LET p == fault[th].page
      s == SectorOf[p]
  IN /\ At(th, "handle") /\ p \in Pages /\ fault[th].write
     /\ \/ /\ MustSplit(s)
           /\ UnmapAndReserve(InSector(p))
           /\ mode' = [mode EXCEPT ![s] = 2] /\ grain' = [grain EXCEPT ![s] = "small"]
           /\ writables' = [q \in Pages |-> IF q \in InSector(p) THEN None ELSE writables[q]]
           /\ UNCHANGED writable
        \/ ~MustSplit(s) /\ UNCHANGED mapVars
     /\ Goto(th, "alloc")
     /\ UNCHANGED <<allocated, content, lock, fault, panicked, deleted, wrote, raced>>

\* MapWritablePage: allocate a frame, map it, copy the image into it.
AllocPhys(th) ==
  LET p == fault[th].page
  IN /\ At(th, "alloc")
     /\ \/ \E f \in Frames \ allocated :
             /\ allocated' = allocated \cup {f}
             /\ content' = [content EXCEPT ![f] = "junk"]
             /\ writables' = [writables EXCEPT ![p] = f]
             /\ Goto(th, "map") /\ UNCHANGED panicked
        \/ /\ Frames \subseteq allocated
           /\ panicked' = TRUE /\ UNCHANGED <<allocated, content, writables, pc>>
     /\ UNCHANGED <<mode, grain, mapped, writable, lock, fault, deleted, wrote, raced>>

MapWritable(th) ==
  LET p == fault[th].page
  IN /\ At(th, "map")
     /\ mapped' = [mapped EXCEPT ![p] = writables[p]] /\ writable' = writable \cup {p}
     /\ Goto(th, "copy")
     /\ UNCHANGED <<mode, writables, grain, allocated, content, lock, fault, panicked,
                    deleted, wrote, raced>>

StaysLocked(th) == UNCHANGED lock                  \* mutant of Unlock
Unlock(th) == lock' = None

Memcpy(th) ==
  /\ At(th, "copy")
  /\ content' = [content EXCEPT ![mapped[fault[th].page]] = "image"]
  /\ Unlock(th) /\ Goto(th, "retry")
  /\ UNCHANGED <<mapVars, allocated, fault, panicked, deleted, wrote, raced>>

-----------------------------------------------------------------------------

\* ~UserTask deletes the memory map and then this one.  No thread is inside the
\* kernel by then (QuiescentWhenThrown in Lifecycle.tla).
FreesNothing == {}                                 \* mutant of FreedFrames
FreedFrames == {writables[p] : p \in {q \in Pages : mode[SectorOf[q]] = 2}} \ {None}

Delete ==
  /\ Running /\ \A th \in Threads : pc[th] \notin Pending
  /\ deleted' = TRUE
  /\ mapped' = [p \in Pages |-> None] /\ writable' = {}
  /\ allocated' = allocated \ FreedFrames
  /\ UNCHANGED <<mode, writables, grain, content, lock, pc, fault, panicked, wrote, raced>>

Handle(th) ==
  NotMine(th) \/ HandleReadFault(th) \/ HandleWriteFault(th) \/ AllocPhys(th)
    \/ MapWritable(th) \/ Memcpy(th)

Next ==
  \/ \E th \in Threads : \/ \E p \in Pages \cup {Outside}, w \in BOOLEAN : Access(th, p, w)
                         \/ SeizeLock(th) \/ Handle(th)
  \/ Delete

Spec == Init /\ [][Next]_vars

\* The handler goes on, the lock is fair, and an access that faulted is repeated.
Repeat(th) == pc[th] = "retry" /\ Access(th, fault[th].page, fault[th].write)
Fairness ==
  \A th \in Threads : SF_vars(SeizeLock(th)) /\ WF_vars(Handle(th)) /\ SF_vars(Repeat(th))

FairSpec == Spec /\ Fairness

-----------------------------------------------------------------------------

TypeOK ==
  /\ mode \in [Sectors -> 0..2] /\ grain \in [Sectors -> {"large", "small"}]
  /\ writables \in [Pages -> Frames \cup {None}]
  /\ mapped \in [Pages -> Frames \cup {Image, None}] /\ writable \subseteq Pages
  /\ allocated \subseteq Frames /\ content \in [Frames -> {"junk", "image", "data"}]
  /\ lock \in Threads \cup {None} /\ pc \in [Threads -> Pending \cup {"user", "retry"}]
  /\ fault \in [Threads -> [page : Pages \cup {Outside}, write : BOOLEAN] \cup {NoFault}]
  /\ panicked \in BOOLEAN /\ deleted \in BOOLEAN /\ wrote \subseteq Pages /\ raced \subseteq Pages
  /\ Running => \A th \in Threads : lock = th <=> pc[th] \in Pending \ {"fault"}

\* The program's image, which every task of the program shares, is never mapped
\* writable.
ImageReadOnly == \A p \in writable : mapped[p] \in Frames

\* The mappings fit the mode on which the handler decides, and with it the page
\* size of the reservation in which it maps: nothing, one large read-only page, or
\* small pages, of which the writable ones are the frames that writables lists.
MappingFitsMode ==
  Running => \A p \in Pages :
    /\ mode[SectorOf[p]] = 0 => mapped[p] = None
    /\ mode[SectorOf[p]] = 1 => mapped[p] = Image /\ p \notin writable
    /\ mode[SectorOf[p]] = 2 <=> grain[SectorOf[p]] = "small"
    /\ mapped[p] \in Frames =>
         \/ writables[p] = mapped[p]
         \/ \E th \in Threads : pc[th] = "map" /\ fault[th].page = p

\* Whatever is mapped, the hardware lets nobody write to what is shared, and the handler
\* can tell from mode and writables what it has to take away and to free.
MappingsSound == ImageReadOnly /\ MappingFitsMode

\* What the program wrote stays there, in a frame of that page's own, as long as no
\* thread accesses a page while another's fault on it is pending.
WritesKeptUnlessRaced ==
  Running => \A p \in wrote \ raced :
    /\ mapped[p] \in Frames /\ content[mapped[p]] = "data" /\ p \in writable
    /\ \A q \in Pages : mapped[q] = mapped[p] => q = p

\* Without such accesses every frame that was allocated is freed with the map.  (With
\* them a frame is lost: the second of two write faults allocates the page again.)
FreedUnlessRaced == deleted /\ raced = {} => allocated = {}

\* An access that faults goes through in the end, unless the kernel panics.
FaultResolved ==
  \A th \in Threads : pc[th] = "fault" ~> pc[th] = "user" \/ ~Running
=============================================================================
