------------------------------ MODULE MetaRsrc ------------------------------
(***************************************************************************)
(* Meta data buffers: the bookkeeping of MetaRsrc (Singletons/             *)
(* metaRsrc.cpp), the buffer a command owns (Cmds/metaData.cpp), dnvme's   *)
(* table of buffers as far as tnvme's ioctl()s use it, and the tests that  *)
(* allocate and send.                                                      *)
(*                                                                         *)
(* A buffer is its ID.  Tests keep commands in two ways: for the whole     *)
(* test, across every disable it performs (NLBAMeta_r10b and its kin keep  *)
(* writeCmd and readCmd over a loop which disables for each namespace), or *)
(* within one turn of such a loop (LBAOutOfRangeMeta_r12).                 *)
(***************************************************************************)
EXTENDS Integers, Sequences, FiniteSets

CONSTANTS
  TestCmds,   \* commands that live as long as their test
  LoopCmds,   \* commands that live between two disables of a test
  NumIDs,     \* 1 << METADATA_UNIQUE_ID_BITS
  Sizes,      \* allocation sizes the tests ask for, multiples of 4
  NoBuf       \* a default constructed MetaDataBuf

ASSUME MetaAssumption ==
  /\ NumIDs \in Nat \ {0}
  /\ Sizes \subseteq Nat \ {0}
  /\ NoBuf \notin Nat
  /\ TestCmds \cap LoopCmds = {}

Cmds == TestCmds \cup LoopCmds
IDs == 0 .. NumIDs - 1

VARIABLES
  pc,               \* "test", or "unwind" while the test's objects are destroyed
  alive,            \* the command objects that exist
  mMetaData,        \* MetaData::mMetaData of each command
  mMetaAllocSize, mMetaReserved, mMetaReleased,
  kernel,           \* the IDs dnvme holds memory for
  (*************************************************************************)
  (* History, read by no action.                                           *)
  (*************************************************************************)
  fresh,            \* commands whose buffer was reserved since the last disable
  sent,             \* the last command sent with MASK_MPTR, or NoBuf
  refused           \* ReserveMetaBuf() has returned false

lists == <<mMetaAllocSize, mMetaReserved, mMetaReleased>>
vars == <<pc, alive, mMetaData, lists, kernel, fresh, sent, refused>>

Init ==
  /\ pc = "test"
  /\ alive = {} /\ mMetaData = [c \in Cmds |-> NoBuf]
  /\ mMetaAllocSize = 0 /\ mMetaReserved = <<>> /\ mMetaReleased = <<>>
  /\ kernel = {}
  /\ fresh = {} /\ sent = NoBuf /\ refused = FALSE

RangeOf(s) == {s[i] : i \in DOMAIN s}

-----------------------------------------------------------------------------
(***************************************************************************)
(* MetaRsrc                                                                *)
(***************************************************************************)

\* The place in the ordered list where the search for a larger ID stops.
InsertAt(s, id) ==
  CHOOSE n \in 1 .. Len(s) + 1 :
    /\ \A i \in 1 .. n - 1 : s[i] <= id
    /\ n = Len(s) + 1 \/ s[n] > id

Insert(s, id) ==
  LET n == InsertAt(s, id)
  IN  [i \in 1 .. Len(s) + 1 |->
         IF i < n THEN s[i] ELSE IF i = n THEN id ELSE s[i - 1]]

\* Variant: counting starts at 1.
FreeIDFromOne(s) == Len(s) + 1

\* The search for a unique ID: counts up while the ordered list holds 0, 1, ...
FreeID(s) ==
  CHOOSE n \in 0 .. Len(s) :
    /\ \A i \in 1 .. n : s[i] = i - 1
    /\ n = Len(s) \/ s[n + 1] # n

\* The list without its first entry for id.
Erase(s, id) ==
  LET n == CHOOSE n \in DOMAIN s :
             s[n] = id /\ \A i \in 1 .. n - 1 : s[i] # id
  IN  [i \in 1 .. Len(s) - 1 |-> IF i < n THEN s[i] ELSE s[i + 1]]

\* ReleaseMetaBuf() moves the ID to the end of the released list; an ID which
\* is not reserved, and a default constructed buffer, are ignored.
ReleaseMetaBuf(id) ==
  IF id \in RangeOf(mMetaReserved)
    THEN /\ mMetaReserved' = Erase(mMetaReserved, id)
         /\ mMetaReleased' = Append(mMetaReleased, id)
    ELSE UNCHANGED <<mMetaReserved, mMetaReleased>>

\* Variant: the released list is not emptied.
FreeReservedOnly ==
  /\ mMetaReserved' = <<>> /\ UNCHANGED mMetaReleased
  /\ mMetaAllocSize' = 0

\* Everything moves to released, then is unmapped and deleted in dnvme.
FreeAllMetaBuf ==
  /\ mMetaReserved' = <<>> /\ mMetaReleased' = <<>>
  /\ mMetaAllocSize' = 0

\* CtrlrConfig::SetState(ST_DISABLE...): dnvme drops its buffers, then tells
\* RsrcMngr, which frees all of its own.
Disable ==
  /\ kernel' = {}
  /\ FreeAllMetaBuf
  /\ fresh' = {}

\* A FrmwkEx disables the controller, then the test's objects go out of scope.
Throw ==
  /\ Disable
  /\ pc' = "unwind"
  /\ UNCHANGED <<alive, mMetaData>>

\* AllocMetaBuffer() has stored id in the command.
Reserved(c, id) ==
  /\ mMetaData' = [mMetaData EXCEPT ![c] = id]
  /\ mMetaReserved' = Insert(mMetaReserved, id)
  /\ fresh' = fresh \cup {c}
  /\ UNCHANGED <<pc, alive, mMetaAllocSize, sent, refused>>

-----------------------------------------------------------------------------
(***************************************************************************)
(* What tests do                                                           *)
(***************************************************************************)
\* A test that keeps its commands across disables prepares all of them first,
\* and for a namespace gives each of them a buffer, or none.
Settled == fresh \cap TestCmds \in {{}, alive \cap TestCmds}

NewCmd(c) ==
  /\ pc = "test" /\ c \notin alive
  /\ c \in TestCmds => fresh \cap TestCmds = {}
  /\ alive' = alive \cup {c}
  /\ mMetaData' = [mMetaData EXCEPT ![c] = NoBuf]
  /\ UNCHANGED <<pc, lists, kernel, fresh, sent, refused>>

\* Returning false, for another size while one is set or for an ioctl() that
\* fails, makes the test throw.
SetMetaAllocSize(n) ==
  /\ pc = "test"
  /\ \/ /\ mMetaAllocSize \in {0, n}
        /\ mMetaAllocSize' = n
        /\ UNCHANGED <<pc, alive, mMetaData, mMetaReserved, mMetaReleased,
                       kernel, fresh, sent, refused>>
     \/ /\ mMetaAllocSize # n
        /\ Throw
        /\ UNCHANGED <<sent, refused>>

\* Tests set the size first and allocate once per command and disable.
Allocs(c) == /\ pc = "test" /\ c \in alive \ fresh
             /\ mMetaAllocSize # 0

\* Variant: what is reserved again stays on the released list.
ReserveReleasedKept(c) ==
  /\ Allocs(c) /\ mMetaReleased # <<>>
  /\ Reserved(c, Head(mMetaReleased))
  /\ UNCHANGED <<mMetaReleased, kernel>>

\* ReserveMetaBuf() out of the released list.
ReserveReleased(c) ==
  /\ Allocs(c) /\ mMetaReleased # <<>>
  /\ Reserved(c, Head(mMetaReleased))
  /\ mMetaReleased' = Tail(mMetaReleased)
  /\ UNCHANGED kernel

\* ReserveMetaBuf() of a new ID; NVME_IOCTL_METABUF_ALLOC, then mmap().
ReserveNew(c) ==
  /\ Allocs(c) /\ mMetaReleased = <<>>
  /\ FreeID(mMetaReserved) < NumIDs
  /\ Reserved(c, FreeID(mMetaReserved))
  /\ kernel' = kernel \cup {FreeID(mMetaReserved)}
  /\ UNCHANGED mMetaReleased

\* The ioctl() is denied: ReserveMetaBuf() itself throws.
ReserveDenied(c) ==
  /\ Allocs(c) /\ mMetaReleased = <<>>
  /\ FreeID(mMetaReserved) < NumIDs
  /\ Throw
  /\ UNCHANGED <<sent, refused>>

\* Variant: the last ID is never given out.
ReserveRefusedEarly(c) ==
  /\ Allocs(c) /\ mMetaReleased = <<>>
  /\ FreeID(mMetaReserved) >= NumIDs - 1
  /\ Throw
  /\ refused' = TRUE
  /\ UNCHANGED sent

\* No ID is left: ReserveMetaBuf() returns false and AllocMetaBuffer() throws.
ReserveRefused(c) ==
  /\ Allocs(c) /\ mMetaReleased = <<>>
  /\ FreeID(mMetaReserved) >= NumIDs
  /\ Throw
  /\ refused' = TRUE
  /\ UNCHANGED sent

\* SQ::Send(): GetMetaBitmask() says MASK_MPTR for every command that has ever
\* been given a buffer; dnvme denies an ID it does not hold.
Send(c) ==
  /\ pc = "test" /\ Settled
  /\ c \in alive /\ mMetaData[c] # NoBuf
  /\ sent' = c
  /\ IF mMetaData[c] \in kernel
       THEN UNCHANGED <<pc, alive, mMetaData, lists, kernel, fresh>>
       ELSE Throw
  /\ UNCHANGED refused

\* A test disables the controller between two turns of its loop.
DisableInTest ==
  /\ pc = "test" /\ Settled /\ alive \cap LoopCmds = {}
  /\ Disable
  /\ UNCHANGED <<pc, alive, mMetaData, sent, refused>>

\* ~MetaData().
Delete(c) ==
  /\ alive' = alive \ {c}
  /\ fresh' = fresh \ {c}
  /\ ReleaseMetaBuf(mMetaData[c])
  /\ UNCHANGED <<mMetaData, mMetaAllocSize, kernel, refused>>
  /\ sent' = NoBuf

EndOfLoop(c) ==
  /\ pc = "test" /\ c \in alive \cap LoopCmds
  /\ Delete(c)
  /\ UNCHANGED pc

\* The test returns.
EndTest ==
  /\ pc = "test" /\ Settled /\ alive \cap LoopCmds = {}
  /\ pc' = "unwind"
  /\ UNCHANGED <<alive, mMetaData, lists, kernel, fresh, sent, refused>>

Unwind(c) ==
  /\ pc = "unwind" /\ c \in alive
  /\ Delete(c)
  /\ UNCHANGED pc

\* The next test begins with the lists as the last one left them.
NextTest ==
  /\ pc = "unwind" /\ alive = {}
  /\ pc' = "test" /\ sent' = NoBuf /\ refused' = FALSE
  /\ UNCHANGED <<alive, mMetaData, lists, kernel, fresh>>

Next ==
  \/ \E c \in Cmds : \/ NewCmd(c) \/ ReserveReleased(c) \/ ReserveNew(c)
                     \/ ReserveDenied(c) \/ ReserveRefused(c) \/ Send(c)
                     \/ EndOfLoop(c) \/ Unwind(c)
  \/ \E n \in Sizes : SetMetaAllocSize(n)
  \/ DisableInTest \/ EndTest \/ NextTest

Spec == Init /\ [][Next]_vars

-----------------------------------------------------------------------------
(***************************************************************************)
(* Properties                                                              *)
(***************************************************************************)
TypeOK ==
  /\ pc \in {"test", "unwind"}
  /\ alive \subseteq Cmds /\ mMetaData \in [Cmds -> IDs \cup {NoBuf}]
  /\ mMetaAllocSize \in Nat
  /\ mMetaReserved \in Seq(IDs) /\ mMetaReleased \in Seq(IDs)
  /\ kernel \subseteq IDs
  /\ fresh \subseteq alive /\ sent \in Cmds \cup {NoBuf} /\ refused \in BOOLEAN

\* The reserved list is "ordered", which both searches of ReserveMetaBuf()
\* rely on.
ReservedOrdered ==
  \A i, j \in DOMAIN mMetaReserved : i < j => mMetaReserved[i] < mMetaReserved[j]

\* tnvme and dnvme agree: dnvme holds memory for exactly the IDs on the two
\* lists, and no ID is on a list twice or on both.
ListsMatchKernel ==
  /\ kernel = RangeOf(mMetaReserved) \cup RangeOf(mMetaReleased)
  /\ Cardinality(kernel) = Len(mMetaReserved) + Len(mMetaReleased)

\* "This class will yield a non-reserved unique meta data ID": commands with a
\* buffer reserved since the last disable have IDs of their own, on the
\* reserved list.
HoldersDistinct ==
  /\ \A c \in fresh : mMetaData[c] \in RangeOf(mMetaReserved)
  /\ \A c, d \in fresh : c # d => mMetaData[c] # mMetaData[d]

\* Reusing released buffers first keeps the IDs in use contiguous from 0: dnvme
\* never has more buffers than commands had at once, and IDs stay clear of the
\* 2^16 beyond which the uint16_t of KernelAPI::mmap() would confuse them.
IDsContiguous == kernel = 0 .. Cardinality(kernel) - 1

\* ReserveMetaBuf() refuses a buffer only when every ID is reserved.
RefusedOnlyWhenFull ==
  [][refused' /\ ~refused => RangeOf(mMetaReserved) = IDs]_vars

\* "Meta data buffers are reserved and solely associated with the cmd for the
\* entire lifetime of that cmd" (metaData.h:43-44): a command is only ever sent
\* with a buffer that is reserved for it.
SentBufferIsOwn == [][sent' # sent /\ sent' \in Cmds => sent' \in fresh]_vars
=============================================================================
