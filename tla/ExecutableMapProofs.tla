------------------------- MODULE ExecutableMapProofs -------------------------
(***************************************************************************)
(* Theorems about ExecutableMap.tla, for every program, every number of    *)
(* threads and every amount of memory: the image is never mapped writable, *)
(* the mappings fit what the fault handler has recorded, and without a     *)
(* race for a page nothing written is lost and every frame is freed.       *)
(***************************************************************************)
EXTENDS ExecutableMap, TLAPS

\* A thread in HandlePageFault has a fault to handle.  From the split of the sector on
\* it is a write to a page of the program, whose frame is in writables as soon as it
\* has been allocated, and in the memory map as soon as it has been mapped.
Faults == [page : Pages \cup {Outside}, write : BOOLEAN]
HandlerKnows ==
  Running => \A th \in Threads :
    /\ pc[th] \in Pending \cup {"retry"} => fault[th] \in Faults
    /\ pc[th] \in {"alloc", "map", "copy"} =>
         fault[th].page \in Pages /\ mode[SectorOf[fault[th].page]] = 2
    /\ pc[th] \in {"map", "copy"} => writables[fault[th].page] \in Frames
    /\ pc[th] = "copy" => mapped[fault[th].page] = writables[fault[th].page]

IInv == TypeOK /\ ImageReadOnly /\ MappingFitsMode /\ HandlerKnows

-----------------------------------------------------------------------------

\* The invariant holds when the constructor is done.
LEMMA InitInv == Init => IInv
<1> SUFFICES ASSUME Init PROVE IInv OBVIOUS
<1> USE ExecutableMapAssumption DEF Init
<1>1. TypeOK
  <2>1. fault \in [Threads -> [page : Pages \cup {Outside}, write : BOOLEAN] \cup {NoFault}]
    OBVIOUS
  <2>2. /\ mode \in [Sectors -> 0..2] /\ grain \in [Sectors -> {"large", "small"}]
        /\ writables \in [Pages -> Frames \cup {None}]
        /\ mapped \in [Pages -> Frames \cup {Image, None}]
        /\ content \in [Frames -> {"junk", "image", "data"}]
        /\ pc \in [Threads -> Pending \cup {"user", "retry"}]
    OBVIOUS
  <2>3. \A th \in Threads : lock # th /\ pc[th] \notin Pending BY DEF Pending
  <2> QED BY <2>1, <2>2, <2>3 DEF TypeOK
<1>2. ImageReadOnly BY DEF ImageReadOnly
<1>3. MappingFitsMode BY DEF MappingFitsMode
<1>4. HandlerKnows BY DEF HandlerKnows, Pending
<1> QED BY <1>1, <1>2, <1>3, <1>4 DEF IInv

\* Each step of the program and of the handler preserves it.
LEMMA AccessInv ==
  ASSUME IInv, NEW th \in Threads, NEW p \in Pages \cup {Outside}, NEW w \in BOOLEAN,
         Access(th, p, w)
  PROVE  IInv'
<1> USE ExecutableMapAssumption DEF IInv, Access, At, Goto, Running, mapVars, Pending
<1>1. [page |-> p, write |-> w] \in Faults BY DEF Faults
<1>2. raced' \subseteq Pages /\ wrote' \subseteq Pages
  BY DEF TypeOK, Allowed
<1>3. content' \in [Frames -> {"junk", "image", "data"}]
  BY DEF TypeOK
<1>4. TypeOK' BY <1>1, <1>2, <1>3 DEF TypeOK, Faults
<1>5. ImageReadOnly' BY DEF ImageReadOnly
<1>6. MappingFitsMode' BY DEF MappingFitsMode, TypeOK
<1>7. HandlerKnows' BY <1>1 DEF HandlerKnows, TypeOK
<1> QED BY <1>4, <1>5, <1>6, <1>7

\* SeizeLock keeps the invariant.
LEMMA SeizeLockInv ==
  ASSUME IInv, NEW th \in Threads, SeizeLock(th) \/ NotMine(th)
  PROVE  IInv'
<1> USE ExecutableMapAssumption
    DEF IInv, At, Goto, Running, mapVars, Pending, TypeOK, ImageReadOnly, MappingFitsMode, HandlerKnows
<1>1. CASE SeizeLock(th) BY <1>1 DEF SeizeLock
<1>2. CASE NotMine(th) BY <1>2 DEF NotMine
<1> QED BY <1>1, <1>2

\* ReadFault keeps the invariant.
LEMMA ReadFaultInv ==
  ASSUME IInv, NEW th \in Threads, HandleReadFault(th)
  PROVE  IInv'
<1> USE ExecutableMapAssumption DEF IInv, HandleReadFault, At, Goto, Running, Pending, MapImage, InSector
<1>1. TypeOK' BY DEF TypeOK
<1>2. ImageReadOnly' BY DEF ImageReadOnly, TypeOK
<1>3. MappingFitsMode' BY DEF MappingFitsMode, TypeOK
<1>4. HandlerKnows' BY DEF HandlerKnows, TypeOK
<1> QED BY <1>1, <1>2, <1>3, <1>4

\* WriteFault keeps the invariant.
LEMMA WriteFaultInv ==
  ASSUME IInv, NEW th \in Threads, HandleWriteFault(th)
  PROVE  IInv'
<1> USE ExecutableMapAssumption
    DEF IInv, HandleWriteFault, At, Goto, Running, Pending, MustSplit, UnmapAndReserve, InSector, mapVars
<1>1. TypeOK' BY DEF TypeOK
<1>2. ImageReadOnly' BY DEF ImageReadOnly, TypeOK, MappingFitsMode
<1>3. MappingFitsMode' BY DEF MappingFitsMode, TypeOK
<1>4. HandlerKnows' BY DEF HandlerKnows, TypeOK
<1> QED BY <1>1, <1>2, <1>3, <1>4

\* AllocPhys keeps the invariant.
LEMMA AllocPhysInv ==
  ASSUME IInv, NEW th \in Threads, AllocPhys(th)
  PROVE  IInv'
<1> USE ExecutableMapAssumption DEF IInv, AllocPhys, At, Goto, Running, Pending
<1>1. TypeOK'
  <2>1. ASSUME NEW f \in Frames \ allocated,
               allocated' = allocated \cup {f},
               content' = [content EXCEPT ![f] = "junk"],
               writables' = [writables EXCEPT ![fault[th].page] = f],
               Goto(th, "map"), UNCHANGED panicked
        PROVE  TypeOK'
    <3>1. /\ allocated' \subseteq Frames
          /\ content' \in [Frames -> {"junk", "image", "data"}]
          /\ writables' \in [Pages -> Frames \cup {None}]
      BY <2>1 DEF TypeOK
    <3>2. pc' \in [Threads -> Pending \cup {"user", "retry"}] BY <2>1 DEF TypeOK
    <3>3. Running' => \A o \in Threads : lock' = o <=> pc'[o] \in Pending \ {"fault"}
      BY <2>1 DEF TypeOK
    <3> QED BY <2>1, <3>1, <3>2, <3>3 DEF TypeOK
  <2>2. CASE panicked' = TRUE /\ UNCHANGED <<allocated, content, writables, pc>>
    BY <2>2 DEF TypeOK
  <2> QED BY <2>1, <2>2
<1>2. ImageReadOnly' BY DEF ImageReadOnly
<1>3. MappingFitsMode' BY DEF MappingFitsMode, TypeOK, HandlerKnows
<1>4. HandlerKnows' BY DEF HandlerKnows, TypeOK
<1> QED BY <1>1, <1>2, <1>3, <1>4

\* MapWritable keeps the invariant.
LEMMA MapWritableInv ==
  ASSUME IInv, NEW th \in Threads, MapWritable(th)
  PROVE  IInv'
<1> USE ExecutableMapAssumption DEF IInv, MapWritable, At, Goto, Running, Pending
<1>1. fault[th].page \in Pages /\ writables[fault[th].page] \in Frames BY DEF HandlerKnows
<1>2. TypeOK' BY <1>1 DEF TypeOK
<1>3. ImageReadOnly' BY <1>1 DEF ImageReadOnly, TypeOK
<1>4. MappingFitsMode' BY <1>1 DEF MappingFitsMode, TypeOK, HandlerKnows
<1>5. HandlerKnows' BY <1>1 DEF HandlerKnows, TypeOK
<1> QED BY <1>2, <1>3, <1>4, <1>5

\* Memcpy keeps the invariant.
LEMMA MemcpyInv ==
  ASSUME IInv, NEW th \in Threads, Memcpy(th)
  PROVE  IInv'
<1> USE ExecutableMapAssumption DEF IInv, Memcpy, At, Goto, Running, Pending, Unlock, mapVars
<1>1. TypeOK'
  <2>1. content' \in [Frames -> {"junk", "image", "data"}] /\ lock' = None BY DEF TypeOK
  <2>2. pc' \in [Threads -> Pending \cup {"user", "retry"}] BY DEF TypeOK
  <2>3. Running' => \A o \in Threads : lock' = o <=> pc'[o] \in Pending \ {"fault"} BY DEF TypeOK
  <2> QED BY <2>1, <2>2, <2>3 DEF TypeOK
<1>2. ImageReadOnly' BY DEF ImageReadOnly
<1>3. MappingFitsMode' BY DEF MappingFitsMode, TypeOK
<1>4. HandlerKnows' BY DEF HandlerKnows, TypeOK
<1> QED BY <1>1, <1>2, <1>3, <1>4

\* Delete keeps the invariant.
LEMMA DeleteInv == IInv /\ (Delete \/ UNCHANGED vars) => IInv'
<1>1. ASSUME IInv, Delete PROVE IInv'
  <2> USE DEF Delete, Running
  <2>1. TypeOK' BY <1>1 DEF IInv, TypeOK
  <2>2. ImageReadOnly' BY <1>1 DEF ImageReadOnly
  <2>3. MappingFitsMode' /\ HandlerKnows' BY <1>1 DEF MappingFitsMode, HandlerKnows
  <2> QED BY <2>1, <2>2, <2>3 DEF IInv
<1>2. ASSUME IInv, UNCHANGED vars PROVE IInv'
  <2> USE DEF vars, mapVars, Running
  <2>1. TypeOK' BY <1>2 DEF IInv, TypeOK
  <2>2. ImageReadOnly' /\ MappingFitsMode' /\ HandlerKnows'
    BY <1>2 DEF IInv, ImageReadOnly, MappingFitsMode, HandlerKnows
  <2> QED BY <2>1, <2>2 DEF IInv
<1> QED BY <1>1, <1>2

\* The invariant holds in every reachable state.
LEMMA Inductive == Spec => []IInv
<1>1. IInv /\ [Next]_vars => IInv'
  BY AccessInv, SeizeLockInv, ReadFaultInv, WriteFaultInv, AllocPhysInv, MapWritableInv,
     MemcpyInv, DeleteInv DEF Next, Handle
<1> QED BY InitInv, <1>1, PTL DEF Spec

-----------------------------------------------------------------------------

\* ExecutableMap's variables keep their types, and only one thread at a time is in
\* HandlePageFault.
THEOREM TypeCorrect == Spec => []TypeOK
<1>1. IInv => TypeOK BY DEF IInv
<1> QED BY Inductive, <1>1, PTL

\* However the faults and accesses of a task's threads interleave, none of them can
\* ever write to the memory that all tasks of the program share.
THEOREM ImageProtected == Spec => []ImageReadOnly
<1>1. IInv => ImageReadOnly BY DEF IInv
<1> QED BY Inductive, <1>1, PTL

\* The page size and the contents of every mapping are those the sector's mode and
\* writables say, so that every MapAt finds the reservation it needs; and the image is
\* read-only.
THEOREM MappingsFit == Spec => []MappingsSound
<1>1. IInv => MappingsSound BY DEF IInv, MappingsSound
<1> QED BY Inductive, <1>1, PTL

-----------------------------------------------------------------------------
(* What the program wrote, and the frames.                                 *)

\* A page that was not raced for has at most one fault pending, on a page that was not
\* written before and, until the fault has mapped it, is not writable.
PendingOn(th, p) == pc[th] \in Pending /\ fault[th].page = p
Alone ==
  Running => \A p \in Pages \ raced : \A th \in Threads : PendingOn(th, p) =>
    /\ p \notin wrote /\ (pc[th] # "copy" => p \notin writable)
    /\ \A o \in Threads : PendingOn(o, p) => o = th

\* A frame that a page is mapped to, or is listed with, belongs to that page only.
FramesOf(p) == Frames \cap {mapped[p], writables[p]}
Owned ==
  Running => \A p \in Pages :
    /\ FramesOf(p) \subseteq allocated
    /\ \A q \in Pages \ {p} : FramesOf(p) \cap FramesOf(q) = {}

\* The frame that writables lists for such a page is in use, or about to be.
Recorded ==
  Running => \A p \in Pages \ raced :
    mode[SectorOf[p]] = 2 /\ writables[p] \in Frames =>
      p \in writable \/ \E th \in Threads : pc[th] = "map" /\ fault[th].page = p

\* So the destructor finds every frame.
AllListed == Running /\ raced = {} => allocated = FreedFrames

History == Alone /\ Owned /\ Recorded /\ AllListed /\ WritesKeptUnlessRaced /\ FreedUnlessRaced

\* The constructor has written to nothing and allocated nothing.
LEMMA InitHistory == Init => History
<1> SUFFICES ASSUME Init PROVE History OBVIOUS
<1> USE ExecutableMapAssumption DEF Init
<1>1. Alone /\ Recorded /\ WritesKeptUnlessRaced BY DEF Alone, PendingOn, Pending, Recorded, WritesKeptUnlessRaced
<1>2. Owned BY DEF Owned, FramesOf
<1>3. AllListed /\ FreedUnlessRaced BY DEF AllListed, FreedFrames, FreedUnlessRaced
<1> QED BY <1>1, <1>2, <1>3 DEF History

\* An access to a page for which another's fault is pending counts as a race; otherwise
\* what it writes to is a frame of the page's own, and what it faults on is not writable.
LEMMA AccessHistory ==
  ASSUME IInv, History, NEW th \in Threads, NEW p \in Pages \cup {Outside}, NEW w \in BOOLEAN,
         Access(th, p, w)
  PROVE  History'
<1> USE ExecutableMapAssumption DEF IInv, History
<1>1. /\ UNCHANGED <<mode, writables, mapped, writable, allocated, lock, panicked, deleted>>
      /\ Running /\ raced \subseteq raced' /\ pc[th] \in {"user", "retry"}
      /\ p \in Pages => p \in raced' \/ \A o \in Threads \ {th} : ~PendingOn(o, p)
  BY DEF Access, At, mapVars, Running, PendingOn
<1>2. /\ \A o \in Threads \ {th} : pc'[o] = pc[o] /\ fault'[o] = fault[o]
      /\ \/ /\ Allowed(p, w) /\ pc'[th] = "user"
            /\ content' = [f \in Frames |-> IF w /\ f = mapped[p] THEN "data" ELSE content[f]]
            /\ wrote' = IF w THEN wrote \cup {p} ELSE wrote
         \/ /\ ~Allowed(p, w) /\ pc'[th] = "fault" /\ fault'[th].page = p
            /\ UNCHANGED <<content, wrote>>
  BY DEF Access, Goto, TypeOK
<1>3. Alone'
  <2> SUFFICES ASSUME NEW q \in Pages, q \notin raced', NEW o \in Threads, PendingOn(o, q)'
               PROVE  /\ q \notin wrote' /\ (pc'[o] # "copy" => q \notin writable')
                      /\ \A u \in Threads : PendingOn(u, q)' => u = o
    BY DEF Alone
  <2>1. \A u \in Threads \ {th} : PendingOn(u, q)' <=> PendingOn(u, q) BY <1>2 DEF PendingOn
  <2>2. PendingOn(th, q)' => q = p /\ ~Allowed(p, w) BY <1>2 DEF PendingOn, Pending
  <2>3. CASE o = th
    <3>1. q \notin writable
      BY <1>1, <2>2, <2>3 DEF Allowed, ImageReadOnly, TypeOK
    <3>2. q \notin wrote BY <1>1, <3>1 DEF WritesKeptUnlessRaced
    <3> QED BY <1>1, <1>2, <2>1, <2>2, <2>3, <3>1, <3>2
  <2>4. CASE o # th
    <3>1. PendingOn(o, q) /\ q # p BY <1>1, <2>1, <2>4
    <3> QED BY <1>1, <1>2, <2>1, <2>2, <2>4, <3>1 DEF Alone
  <2> QED BY <2>3, <2>4
<1>4. Owned' BY <1>1 DEF Owned, FramesOf, Running
<1>5. Recorded' BY <1>1, <1>2 DEF Recorded, Running
<1>6. AllListed' BY <1>1 DEF AllListed, FreedFrames, Running
<1>7. WritesKeptUnlessRaced'
  <2> SUFFICES ASSUME NEW q \in Pages, q \in wrote', q \notin raced'
               PROVE  /\ mapped[q] \in Frames /\ content'[mapped[q]] = "data" /\ q \in writable
                      /\ \A r \in Pages : mapped[r] = mapped[q] => r = q
    <3>1. wrote' \subseteq Pages BY <1>2 DEF Allowed, TypeOK
    <3> QED BY <1>1, <3>1 DEF WritesKeptUnlessRaced
  <2>1. CASE q \in wrote BY <1>1, <1>2, <2>1 DEF WritesKeptUnlessRaced, TypeOK
  <2>2. CASE q \notin wrote
    <3>1. /\ q = p /\ w /\ Allowed(p, w)
          /\ content' = [f \in Frames |-> IF w /\ f = mapped[p] THEN "data" ELSE content[f]]
      BY <1>2, <2>2
    <3>2. mapped[q] \in Frames /\ q \in writable BY <3>1 DEF Allowed, ImageReadOnly
    <3>3. \A r \in Pages : mapped[r] = mapped[q] => r = q
      BY <1>1, <3>2 DEF Owned, FramesOf
    <3> QED BY <3>1, <3>2, <3>3
  <2> QED BY <2>1, <2>2
<1>8. FreedUnlessRaced' BY <1>1 DEF FreedUnlessRaced, Running
<1> QED BY <1>3, <1>4, <1>5, <1>6, <1>7, <1>8

\* Taking the lock changes nothing that is mapped.
LEMMA SeizeLockHistory ==
  ASSUME IInv, History, NEW th \in Threads, SeizeLock(th) \/ NotMine(th)
  PROVE  History'
<1> USE DEF IInv, History
<1>1. CASE SeizeLock(th)
  <2>1. /\ UNCHANGED <<mode, writables, mapped, writable, allocated, content, fault, panicked,
                       deleted, wrote, raced>>
        /\ Running /\ pc[th] = "fault" /\ pc' = [pc EXCEPT ![th] = "handle"]
    BY <1>1 DEF SeizeLock, At, Goto, mapVars
  <2>2. \A o \in Threads : /\ pc'[o] \in Pending <=> pc[o] \in Pending
                           /\ pc[o] \in {"map", "copy"} <=> pc'[o] \in {"map", "copy"}
                           /\ pc[o] = "map" <=> pc'[o] = "map"
    BY <2>1 DEF TypeOK, Pending
  <2>3. Alone' BY <2>1, <2>2 DEF Alone, PendingOn, Running
  <2>4. Recorded' BY <2>1, <2>2 DEF Recorded, Running
  <2> QED BY <2>1, <2>3, <2>4
          DEF Owned, FramesOf, AllListed, FreedFrames, WritesKeptUnlessRaced, FreedUnlessRaced, Running
<1>2. CASE NotMine(th)
  BY <1>2 DEF NotMine, At, Running, Alone, Owned, Recorded, AllListed, WritesKeptUnlessRaced,
              FreedUnlessRaced
<1> QED BY <1>1, <1>2

\* A read fault takes at most its own page away, which nobody has written to: the other
\* pages of a sector that is not split are not frames.
LEMMA ReadFaultHistory ==
  ASSUME IInv, History, NEW th \in Threads, HandleReadFault(th)
  PROVE  History'
<1> USE ExecutableMapAssumption DEF IInv, History
<1> DEFINE p == fault[th].page
<1>1. /\ UNCHANGED <<writables, allocated, content, fault, panicked, deleted, wrote, raced>>
      /\ Running /\ pc[th] = "handle" /\ pc' = [pc EXCEPT ![th] = "retry"] /\ p \in Pages
  BY DEF HandleReadFault, At, Goto
<1>2. /\ \A o \in Threads \ {th} : pc'[o] = pc[o]
      /\ pc'[th] = "retry" /\ PendingOn(th, p)
  BY <1>1 DEF TypeOK, PendingOn, Pending
<1>3. /\ \A q \in Pages : mapped'[q] \in {mapped[q], Image}
      /\ \A q \in Pages : mode'[SectorOf[q]] = 2 <=> mode[SectorOf[q]] = 2
      /\ \A q \in Pages \ {p} : mode[SectorOf[q]] = 2 =>
           mapped'[q] = mapped[q] /\ (q \in writable <=> q \in writable')
      /\ writable' \subseteq writable
  BY <1>1 DEF HandleReadFault, MapImage, InSector, TypeOK
<1>4. p \notin raced => /\ p \notin wrote /\ p \notin writable
                        /\ \A o \in Threads : PendingOn(o, p) => o = th
  BY <1>1, <1>2 DEF Alone
<1> HIDE DEF p
<1>5. \A o \in Threads, q \in Pages : PendingOn(o, q)' => PendingOn(o, q) /\ o # th
  BY <1>1, <1>2 DEF PendingOn, Pending
<1>6. Alone' BY <1>1, <1>2, <1>3, <1>5 DEF Alone, Running
<1>7. Owned'
  <2>1. \A q \in Pages : FramesOf(q)' \subseteq FramesOf(q) BY <1>1, <1>3 DEF FramesOf
  <2> QED BY <1>1, <2>1 DEF Owned, Running
<1>8. Recorded'
  <2> SUFFICES ASSUME NEW q \in Pages, q \notin raced, mode[SectorOf[q]] = 2, writables[q] \in Frames
               PROVE  q \in writable' \/ \E o \in Threads : pc'[o] = "map" /\ fault[o].page = q
    BY <1>1, <1>3 DEF Recorded
  <2>1. q \in writable \/ \E o \in Threads : pc[o] = "map" /\ fault[o].page = q
    BY <1>1 DEF Recorded
  <2>2. q # p BY <1>1, <1>4, <2>1 DEF PendingOn, Pending
  <2> QED BY <1>1, <1>2, <1>3, <2>1, <2>2
<1>9. AllListed'
  <2>1. FreedFrames' = FreedFrames BY <1>1, <1>3 DEF FreedFrames
  <2> QED BY <1>1, <2>1 DEF AllListed, Running
<1>10. WritesKeptUnlessRaced'
  <2> SUFFICES ASSUME NEW q \in wrote, q \notin raced
               PROVE  /\ mapped'[q] \in Frames /\ content[mapped'[q]] = "data" /\ q \in writable'
                      /\ \A r \in Pages : mapped'[r] = mapped'[q] => r = q
    BY <1>1 DEF WritesKeptUnlessRaced
  <2>1. /\ mapped[q] \in Frames /\ content[mapped[q]] = "data" /\ q \in writable /\ q \in Pages
        /\ \A r \in Pages : mapped[r] = mapped[q] => r = q
    BY <1>1 DEF WritesKeptUnlessRaced, TypeOK
  <2>2. mode[SectorOf[q]] = 2
    <3>1. mode[SectorOf[q]] \in 0..2 BY <2>1 DEF TypeOK
    <3> QED BY <1>1, <2>1, <3>1 DEF MappingFitsMode
  <2> QED BY <1>3, <1>4, <2>1, <2>2
<1>11. FreedUnlessRaced' BY <1>1 DEF FreedUnlessRaced, Running
<1> QED BY <1>6, <1>7, <1>8, <1>9, <1>10, <1>11

\* A write fault splits a sector in which no page has a frame yet.
LEMMA WriteFaultHistory ==
  ASSUME IInv, History, NEW th \in Threads, HandleWriteFault(th)
  PROVE  History'
<1> USE ExecutableMapAssumption DEF IInv, History
<1>1. /\ UNCHANGED <<writable, allocated, content, fault, panicked, deleted, wrote, raced>>
      /\ Running /\ pc[th] = "handle" /\ pc' = [pc EXCEPT ![th] = "alloc"]
  BY DEF HandleWriteFault, At, Goto, mapVars
<1>2. /\ \A o \in Threads : /\ pc'[o] \in Pending <=> pc[o] \in Pending
                            /\ pc'[o] = "map" <=> pc[o] = "map"
                            /\ pc'[o] = "copy" <=> pc[o] = "copy"
  BY <1>1 DEF TypeOK, Pending
<1>3. /\ \A q \in Pages : mapped'[q] \in {mapped[q], None} /\ writables'[q] \in {writables[q], None}
      /\ \A q \in Pages : mode[SectorOf[q]] = 2 =>
           mode'[SectorOf[q]] = 2 /\ mapped'[q] = mapped[q] /\ writables'[q] = writables[q]
      /\ \A q \in Pages : mode'[SectorOf[q]] = 2 /\ mode[SectorOf[q]] # 2 => writables'[q] = None
  BY DEF HandleWriteFault, MustSplit, UnmapAndReserve, InSector, mapVars, TypeOK
<1>4. Alone' BY <1>1, <1>2 DEF Alone, PendingOn, Running
<1>5. Owned'
  <2>1. \A q \in Pages : FramesOf(q)' \subseteq FramesOf(q) BY <1>3 DEF FramesOf
  <2> QED BY <1>1, <2>1 DEF Owned, Running
<1>6. Recorded' BY <1>1, <1>2, <1>3 DEF Recorded, Running
<1>7. AllListed'
  <2>1. FreedFrames' = FreedFrames
    <3>1. \A f : f \in FreedFrames <=>
            f # None /\ \E q \in Pages : mode[SectorOf[q]] = 2 /\ f = writables[q]
      BY DEF FreedFrames
    <3>2. \A f : f \in FreedFrames' <=>
            f # None /\ \E q \in Pages : mode'[SectorOf[q]] = 2 /\ f = writables'[q]
      BY DEF FreedFrames
    <3>3. \A f : f \in FreedFrames' <=> f \in FreedFrames BY <1>3, <3>1, <3>2
    <3> QED BY <3>3, <3>1, <3>2 DEF FreedFrames
  <2> QED BY <1>1, <2>1 DEF AllListed, Running
<1>8. WritesKeptUnlessRaced'
  <2> SUFFICES ASSUME NEW q \in wrote, q \notin raced
               PROVE  /\ mapped'[q] \in Frames /\ content[mapped'[q]] = "data" /\ q \in writable
                      /\ \A r \in Pages : mapped'[r] = mapped'[q] => r = q
    BY <1>1 DEF WritesKeptUnlessRaced
  <2>1. /\ mapped[q] \in Frames /\ content[mapped[q]] = "data" /\ q \in writable /\ q \in Pages
        /\ \A r \in Pages : mapped[r] = mapped[q] => r = q
    BY <1>1 DEF WritesKeptUnlessRaced, TypeOK
  <2>2. mode[SectorOf[q]] = 2
    <3>1. mode[SectorOf[q]] \in 0..2 BY <2>1 DEF TypeOK
    <3> QED BY <1>1, <2>1, <3>1 DEF MappingFitsMode
  <2> QED BY <1>3, <2>1, <2>2
<1>9. FreedUnlessRaced' BY <1>1 DEF FreedUnlessRaced, Running
<1> QED BY <1>4, <1>5, <1>6, <1>7, <1>8, <1>9

\* AllocPhys takes a frame that no page has.  Unless the page was raced for, writables
\* lists no other for it, which would be lost.
LEMMA AllocPhysHistory ==
  ASSUME IInv, History, NEW th \in Threads, AllocPhys(th)
  PROVE  History'
<1> USE ExecutableMapAssumption DEF IInv, History
<1> DEFINE p == fault[th].page
<1>1. /\ UNCHANGED <<mode, mapped, writable, fault, deleted, wrote, raced>>
      /\ Running /\ pc[th] = "alloc" /\ p \in Pages /\ mode[SectorOf[p]] = 2
  BY DEF AllocPhys, At, HandlerKnows
<1>2. CASE panicked' = TRUE
  BY <1>1, <1>2 DEF Running, Alone, Owned, Recorded, AllListed, WritesKeptUnlessRaced,
                    FreedUnlessRaced
<1>3. CASE panicked' # TRUE
  <2>1. PICK f \in Frames \ allocated :
          /\ allocated' = allocated \cup {f} /\ content' = [content EXCEPT ![f] = "junk"]
          /\ writables' = [writables EXCEPT ![p] = f] /\ pc' = [pc EXCEPT ![th] = "map"]
          /\ UNCHANGED panicked
    BY <1>3 DEF AllocPhys, Goto
  <2>2. \A o \in Threads : /\ pc'[o] \in Pending <=> pc[o] \in Pending
                           /\ pc'[o] = "map" <=> pc[o] = "map" \/ o = th
                           /\ pc'[o] = "copy" <=> pc[o] = "copy"
    BY <1>1, <2>1 DEF TypeOK, Pending
  <2>3. writables'[p] = f /\ \A q \in Pages \ {p} : writables'[q] = writables[q]
    BY <1>1, <2>1 DEF TypeOK
  <2>4. p \notin raced => writables[p] \notin Frames
    <3>1. PendingOn(th, p) BY <1>1 DEF PendingOn, Pending
    <3>2. \A o \in Threads : pc[o] = "map" => o # th BY <1>1
    <3> QED BY <1>1, <3>1, <3>2 DEF Alone, Recorded, PendingOn, Pending
  <2> HIDE DEF p
  <2>5. Alone' BY <1>1, <2>1, <2>2 DEF Alone, PendingOn, Running
  <2>6. Owned'
    <3>1. \A q \in Pages \ {p} : FramesOf(q)' = FramesOf(q) BY <1>1, <2>3 DEF FramesOf
    <3>2. \A q \in Pages : FramesOf(q)' \subseteq FramesOf(q) \cup {f}
      BY <1>1, <2>3 DEF FramesOf
    <3>3. \A q \in Pages : /\ FramesOf(q) \subseteq allocated
                          /\ \A r \in Pages \ {q} : FramesOf(q) \cap FramesOf(r) = {}
      BY <1>1 DEF Owned
    <3>4. \A q \in Pages : FramesOf(q)' \subseteq allocated' BY <2>1, <3>2, <3>3
    <3>5. \A q \in Pages, r \in Pages : q # r => FramesOf(q)' \cap FramesOf(r)' = {}
      <4> SUFFICES ASSUME NEW q \in Pages, NEW r \in Pages, q # r, NEW g, g \in FramesOf(q)',
                          g \in FramesOf(r)'
                   PROVE  FALSE
        OBVIOUS
      <4>1. CASE g # f BY <3>2, <3>3, <4>1
      <4>2. CASE g = f
        <5>1. q # p \/ r # p OBVIOUS
        <5>2. f \in FramesOf(q) \/ f \in FramesOf(r) BY <3>1, <4>2, <5>1
        <5> QED BY <3>3, <5>2
      <4> QED BY <4>1, <4>2
    <3> QED BY <3>4, <3>5 DEF Owned
  <2>7. Recorded'
    <3> SUFFICES ASSUME NEW q \in Pages, q \notin raced, mode[SectorOf[q]] = 2,
                        writables'[q] \in Frames
                 PROVE  q \in writable \/ \E o \in Threads : pc'[o] = "map" /\ fault[o].page = q
      BY <1>1 DEF Recorded
    <3>1. CASE q = p BY <2>2, <3>1 DEF p
    <3>2. CASE q # p BY <1>1, <2>2, <2>3, <3>2 DEF Recorded
    <3> QED BY <3>1, <3>2
  <2>8. AllListed'
    <3>1. raced = {} => writables[p] = None BY <1>1, <2>4 DEF TypeOK
    <3>2. \A g : g \in FreedFrames <=>
            g # None /\ \E q \in Pages : mode[SectorOf[q]] = 2 /\ g = writables[q]
      BY DEF FreedFrames
    <3>3. \A g : g \in FreedFrames' <=>
            g # None /\ \E q \in Pages : mode[SectorOf[q]] = 2 /\ g = writables'[q]
      BY <1>1 DEF FreedFrames
    <3>4. raced = {} => \A g : g \in FreedFrames' <=> g \in FreedFrames \/ g = f
      BY <1>1, <2>3, <3>1, <3>2, <3>3
    <3> QED BY <1>1, <2>1, <3>4 DEF AllListed
  <2>9. WritesKeptUnlessRaced'
    <3> SUFFICES ASSUME NEW q \in wrote, q \notin raced
                 PROVE  /\ mapped[q] \in Frames /\ content'[mapped[q]] = "data" /\ q \in writable
                        /\ \A r \in Pages : mapped[r] = mapped[q] => r = q
      BY <1>1 DEF WritesKeptUnlessRaced
    <3>1. /\ mapped[q] \in Frames /\ content[mapped[q]] = "data" /\ q \in writable /\ q \in Pages
          /\ \A r \in Pages : mapped[r] = mapped[q] => r = q
      BY <1>1 DEF WritesKeptUnlessRaced, TypeOK
    <3>2. mapped[q] # f BY <1>1, <3>1, <2>1 DEF Owned, FramesOf
    <3> QED BY <2>1, <3>1, <3>2 DEF TypeOK
  <2>10. FreedUnlessRaced' BY <1>1 DEF FreedUnlessRaced, Running
  <2> QED BY <2>5, <2>6, <2>7, <2>8, <2>9, <2>10
<1> QED BY <1>2, <1>3

\* What MapWritable replaces is not a page that somebody wrote to.
LEMMA MapWritableHistory ==
  ASSUME IInv, History, NEW th \in Threads, MapWritable(th)
  PROVE  History'
<1> USE ExecutableMapAssumption DEF IInv, History
<1> DEFINE p == fault[th].page
<1>1. /\ UNCHANGED <<mode, writables, allocated, content, fault, panicked, deleted, wrote, raced>>
      /\ Running /\ pc[th] = "map" /\ pc' = [pc EXCEPT ![th] = "copy"]
      /\ mapped' = [mapped EXCEPT ![p] = writables[p]] /\ writable' = writable \cup {p}
  BY DEF MapWritable, At, Goto
<1>2. p \in Pages /\ writables[p] \in Frames BY <1>1 DEF HandlerKnows
<1>3. /\ \A o \in Threads \ {th} : pc'[o] = pc[o]
      /\ pc'[th] = "copy" /\ PendingOn(th, p)
      /\ mapped'[p] = writables[p] /\ \A q \in Pages \ {p} : mapped'[q] = mapped[q]
  BY <1>1, <1>2 DEF TypeOK, PendingOn, Pending
<1>4. p \notin raced => p \notin wrote /\ \A o \in Threads : PendingOn(o, p) => o = th
  BY <1>1, <1>2, <1>3 DEF Alone
<1>5. \A o \in Threads, q \in Pages : PendingOn(o, q)' <=> PendingOn(o, q)
  BY <1>1, <1>3 DEF PendingOn, Pending
<1>6. PendingOn(th, p) /\ \A q \in Pages : PendingOn(th, q) => q = p BY <1>3 DEF PendingOn
<1> HIDE DEF p
<1>7. Alone' BY <1>1, <1>3, <1>4, <1>5, <1>6 DEF Alone, Running
<1>8. Owned'
  <2>1. \A q \in Pages : FramesOf(q)' \subseteq FramesOf(q) BY <1>1, <1>3 DEF FramesOf
  <2> QED BY <1>1, <2>1 DEF Owned, Running
<1>9. Recorded'
  <2> SUFFICES ASSUME NEW q \in Pages, q \notin raced, mode[SectorOf[q]] = 2, writables[q] \in Frames,
                      q # p
               PROVE  q \in writable \/ \E o \in Threads : pc'[o] = "map" /\ fault[o].page = q
    BY <1>1 DEF Recorded
  <2>1. q \in writable \/ \E o \in Threads : pc[o] = "map" /\ fault[o].page = q
    BY <1>1 DEF Recorded
  <2> QED BY <1>3, <2>1 DEF p
<1>10. AllListed' BY <1>1 DEF AllListed, FreedFrames, Running
<1>11. WritesKeptUnlessRaced'
  <2> SUFFICES ASSUME NEW q \in wrote, q \notin raced
               PROVE  /\ mapped'[q] \in Frames /\ content[mapped'[q]] = "data" /\ q \in writable'
                      /\ \A r \in Pages : mapped'[r] = mapped'[q] => r = q
    BY <1>1 DEF WritesKeptUnlessRaced
  <2>1. /\ mapped[q] \in Frames /\ content[mapped[q]] = "data" /\ q \in writable /\ q \in Pages
        /\ \A r \in Pages : mapped[r] = mapped[q] => r = q
    BY <1>1 DEF WritesKeptUnlessRaced, TypeOK
  <2>2. q # p BY <1>4
  <2>3. mapped[q] # writables[p] BY <1>1, <1>2, <2>1, <2>2 DEF Owned, FramesOf
  <2> QED BY <1>1, <1>3, <2>1, <2>2, <2>3
<1>12. FreedUnlessRaced' BY <1>1 DEF FreedUnlessRaced, Running
<1> QED BY <1>7, <1>8, <1>9, <1>10, <1>11, <1>12

\* Memcpy writes into a frame of that page's own, to which nobody has written.
LEMMA MemcpyHistory ==
  ASSUME IInv, History, NEW th \in Threads, Memcpy(th)
  PROVE  History'
<1> USE ExecutableMapAssumption DEF IInv, History
<1> DEFINE p == fault[th].page
<1>1. /\ UNCHANGED <<mode, writables, mapped, writable, allocated, fault, panicked, deleted,
                     wrote, raced>>
      /\ Running /\ pc[th] = "copy" /\ pc' = [pc EXCEPT ![th] = "retry"]
      /\ content' = [content EXCEPT ![mapped[p]] = "image"] /\ p \in Pages
  BY DEF Memcpy, At, Goto, mapVars, HandlerKnows
<1>2. /\ \A o \in Threads \ {th} : pc'[o] = pc[o]
      /\ pc'[th] = "retry" /\ PendingOn(th, p)
  BY <1>1 DEF TypeOK, PendingOn, Pending
<1>3. p \notin raced => p \notin wrote BY <1>1, <1>2 DEF Alone
<1> HIDE DEF p
<1>4. \A o \in Threads, q \in Pages : PendingOn(o, q)' => PendingOn(o, q) /\ o # th
  BY <1>1, <1>2 DEF PendingOn, Pending
<1>5. Alone' BY <1>1, <1>2, <1>4 DEF Alone, Running
<1>6. Owned' BY <1>1 DEF Owned, FramesOf, Running
<1>7. Recorded'
  <2>1. \A o \in Threads : pc[o] = "map" => pc'[o] = "map" BY <1>1, <1>2
  <2> QED BY <1>1, <2>1 DEF Recorded, Running
<1>8. AllListed' BY <1>1 DEF AllListed, FreedFrames, Running
<1>9. WritesKeptUnlessRaced'
  <2> SUFFICES ASSUME NEW q \in wrote, q \notin raced
               PROVE  /\ mapped[q] \in Frames /\ content'[mapped[q]] = "data" /\ q \in writable
                      /\ \A r \in Pages : mapped[r] = mapped[q] => r = q
    BY <1>1 DEF WritesKeptUnlessRaced
  <2>1. /\ mapped[q] \in Frames /\ content[mapped[q]] = "data" /\ q \in writable
        /\ \A r \in Pages : mapped[r] = mapped[q] => r = q
    BY <1>1 DEF WritesKeptUnlessRaced
  <2>2. mapped[p] # mapped[q] BY <1>1, <1>3, <2>1
  <2> QED BY <1>1, <2>1, <2>2 DEF TypeOK
<1>10. FreedUnlessRaced' BY <1>1 DEF FreedUnlessRaced, Running
<1> QED BY <1>5, <1>6, <1>7, <1>8, <1>9, <1>10

\* The destructor frees the frames that writables lists.
LEMMA DeleteHistory == IInv /\ History /\ (Delete \/ UNCHANGED vars) => History'
<1>1. ASSUME History, Delete PROVE History'
  <2>1. ~Running' /\ FreedUnlessRaced'
    BY <1>1 DEF Delete, Running, History, AllListed, FreedUnlessRaced
  <2> QED BY <2>1 DEF History, Alone, Owned, Recorded, AllListed, WritesKeptUnlessRaced
<1>2. ASSUME History, UNCHANGED vars PROVE History'
  BY <1>2 DEF vars, mapVars, Running, History, Alone, PendingOn, Owned, FramesOf, Recorded,
              AllListed, FreedFrames, WritesKeptUnlessRaced, FreedUnlessRaced
<1> QED BY <1>1, <1>2

\* The two together are inductive.
LEMMA HistoryInductive == Spec => []History
<1>1. Init => History BY InitHistory
<1>2. IInv /\ History /\ [Next]_vars => History'
  BY AccessHistory, SeizeLockHistory, ReadFaultHistory, WriteFaultHistory, AllocPhysHistory,
     MapWritableHistory, MemcpyHistory, DeleteHistory DEF Next, Handle
<1> QED BY <1>1, <1>2, Inductive, PTL DEF Spec

\* What the program writes is neither overwritten by the copy of the image, nor mapped
\* away, nor shared with another page, unless a thread accesses the page while another's
\* fault on it is pending: then the second fault, which is old when it is handled, makes
\* MapWritablePage copy the image again, or HandlePageFault map the image over the page.
THEOREM WritesKept == Spec => []WritesKeptUnlessRaced
<1>1. History => WritesKeptUnlessRaced BY DEF History
<1> QED BY HistoryInductive, <1>1, PTL

\* Without such accesses ~ExecutableMap gives back every frame that MapWritablePage has
\* allocated.
THEOREM AllFreed == Spec => []FreedUnlessRaced
<1>1. History => FreedUnlessRaced BY DEF History
<1> QED BY HistoryInductive, <1>1, PTL

=============================================================================
