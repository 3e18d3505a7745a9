--------------------------- MODULE FrmwkExProofs ---------------------------
(***************************************************************************)
(* Proofs about FrmwkEx, for any IO queues, with and without --postfail.   *)
(***************************************************************************)
EXTENDS FrmwkEx, TLAPS

\* mObjGrpLife after a Disable() is a part of what it was.
LEMMA RemainPart ==
  ASSUME NEW state, NEW left \in Remain(state)
  PROVE  left \subseteq mObjGrpLife
BY DEF Remain

\* A Disable() leaves the device disabled and goes on, or ends the process.
LEMMA DisableEnds ==
  ASSUME NEW state, NEW then, Disable(state, then)
  PROVE  hdw' = "disabled" /\ pc' \in {then, "dead"}
BY DEF Disable

\* The variables a Disable() changes keep their types.
LEMMA DisableTyped ==
  ASSUME TypeOK, NEW state, NEW then, Disable(state, then)
  PROVE  /\ kq' \subseteq Queues /\ mObjGrpLife' \subseteq Queues
         /\ raw' \subseteq {"group", "test", "post"} \X Queues
         /\ held' = held /\ local' = local /\ post' = post
         /\ missed' \subseteq IOQs /\ deleted' \subseteq IOQs
<1>1. mObjGrpLife' \subseteq mObjGrpLife
  BY RemainPart DEF Disable
<1>2. missed' \subseteq IOQs /\ deleted' \subseteq IOQs
  BY <1>1 DEF Disable, TypeOK, Queues
<1> QED
  BY <1>1, <1>2 DEF Disable, TypeOK

\* A queue that is constructed is one of the queues.
LEMMA ConstructTyped ==
  ASSUME TypeOK, NEW o \in Objects, Construct(o)
  PROVE  /\ o \in {"group", "test"} \X Queues
         /\ local' \subseteq Queues /\ mObjGrpLife' \subseteq Queues
         /\ held' \subseteq Queues /\ post' = post
<1>1. o \in {"group", "test"} \X Queues
  BY DEF Objects, Group
<1>2. o[2] \in Queues
  BY <1>1
<1> QED
  BY <1>1, <1>2 DEF Construct, TypeOK

\* The Boolean part of TypeOK.
Flags ==
  /\ postfail \in BOOLEAN /\ mPrelimProcessingInProgress \in BOOLEAN
  /\ leaked \in BOOLEAN /\ stuck \in BOOLEAN /\ mute \in BOOLEAN

\* The variables have their types initially.
LEMMA TypeInit == Init => TypeOK
<1> SUFFICES ASSUME Init
             PROVE  TypeOK
  OBVIOUS
<1>1. Flags
  BY FrmwkExAssumption, Zenon DEF Init, Flags
<1> QED
  BY <1>1, FrmwkExAssumption DEF Init, TypeOK, Flags

\* The variables keep their types: one case per action.
LEMMA TypeStep == TypeOK /\ [Next]_vars => TypeOK'
<1> SUFFICES ASSUME TypeOK, [Next]_vars
             PROVE  TypeOK'
  OBVIOUS
<1> USE FrmwkExAssumption
<1>1. CASE StartGroup
  BY <1>1, DisableEnds, DisableTyped DEF StartGroup, TypeOK, ex, dev, objs, hist
<1>2. CASE StartTest
  BY <1>2 DEF StartTest, TypeOK, ex, dev, objs, hist
<1>3. CASE CreateQ
  BY <1>3, ConstructTyped DEF CreateQ, TypeOK, ex, hist
<1>4. CASE CreateQFails
  BY <1>4, ConstructTyped DEF CreateQFails, Throw, TypeOK, dev, hist
<1>5. CASE GetObj
  BY <1>5 DEF GetObj, TypeOK, ex, dev, hist
<1>6. CASE EnableInTest
  BY <1>6 DEF EnableInTest, TypeOK, ex, objs, hist
<1>7. CASE DisableInTest
  BY <1>7, DisableEnds, DisableTyped DEF DisableInTest, TypeOK, ex
<1>8. CASE TestThrows
  BY <1>8 DEF TestThrows, Throw, TypeOK, dev, objs, hist
<1>9. CASE TestThrowsNew
  BY <1>9 DEF TestThrowsNew, TypeOK, dev, objs
<1>10. CASE TestLeaves
  BY <1>10 DEF TestLeaves, TypeOK, dev, objs, hist
<1>11. CASE Unwind
  <2>1. Flags'
    BY <1>11, Zenon DEF Unwind, TypeOK, Flags
  <2>2. pc' \in {"dead", "idle"} /\ raw' \subseteq raw
    BY <1>11 DEF Unwind
  <2>3. /\ hdw' = hdw /\ kq' = kq /\ mObjGrpLife' = mObjGrpLife
        /\ held' = {} /\ local' = {} /\ post' = {}
        /\ depth' = 0 /\ exc' = "none"
        /\ missed' = missed /\ deleted' = deleted
    BY <1>11 DEF Unwind, dev
  <2> QED
    BY <2>1, <2>2, <2>3 DEF TypeOK, Flags
<1>12. CASE WriteToLog
  BY <1>12 DEF WriteToLog, TypeOK, dev, objs, hist
<1>13. CASE WriteToLogFails
  BY <1>13 DEF WriteToLogFails, Nested, TypeOK, dev, objs
<1>14. CASE Reset
  <2>1. Flags'
    BY <1>14, Zenon, DisableTyped DEF Reset, Nested, TypeOK, ex, dev, objs, Flags
  <2> QED
    BY <1>14, DisableEnds, DisableTyped, <2>1 DEF Reset, Nested, TypeOK, ex, dev, objs, Flags
<1>15. CASE DumpFiles
  BY <1>15 DEF DumpFiles, Nested, TypeOK, ex, dev, objs, hist
<1>16. CASE PostQueues
  <2>1. Flags'
    BY <1>16, Zenon DEF PostQueues, Nested, TypeOK, ex, hist, Flags
  <2>2. /\ post' = {"AQ"} /\ hdw' = hdw /\ mObjGrpLife' = mObjGrpLife
        /\ held' = held /\ local' = local /\ missed' = missed /\ deleted' = deleted
    BY <1>16 DEF PostQueues, hist
  <2>3. "AQ" \in Queues
    BY DEF Queues, Admin
  <2>4. kq' \subseteq kq \cup {"AQ"} /\ raw' \subseteq raw \cup {<<"post", "AQ">>}
    BY <1>16 DEF PostQueues
  <2>5. /\ kq' \subseteq Queues
        /\ raw' \subseteq {"group", "test", "post"} \X Queues
    BY <2>3, <2>4 DEF TypeOK
  <2>6. /\ pc' \in {"postenable", "dead", "log"}
        /\ depth' \in 0 .. MaxDepth
        /\ exc' \in {exc, "FrmwkEx"}
    BY <1>16 DEF PostQueues, Nested, TypeOK, ex
  <2> QED
    BY <2>1, <2>2, <2>5, <2>6 DEF TypeOK, Admin, Flags
<1>17. CASE PostEnable
  BY <1>17 DEF PostEnable, Nested, TypeOK, ex, dev, objs, hist
<1>18. CASE PostLogPage
  BY <1>18 DEF PostLogPage, Nested, TypeOK, ex, dev, objs, hist
<1>19. CASE PostStop
  BY <1>19, DisableEnds, DisableTyped DEF PostStop, TypeOK, ex, dev, objs
<1>20. CASE AllocObjTaken
  BY <1>20 DEF AllocObjTaken, TypeOK, ex, dev, objs, hist
<1>21. CASE DeleteQ
  BY <1>21 DEF DeleteQ, TypeOK, Queues, ex, objs
<1>22. CASE UNCHANGED vars
  BY <1>22 DEF TypeOK, vars, dev, objs, ex, hist
<1> QED
  BY <1>1, <1>2, <1>3, <1>4, <1>5, <1>6, <1>7, <1>8, <1>9, <1>10, <1>11, <1>12,
     <1>13, <1>14, <1>15, <1>16, <1>17, <1>18, <1>19, <1>20,
     <1>21, <1>22 DEF Next

\* The objects, the handler's state and the nesting of constructors stay within
\* their types, whatever fails and in whatever order.
THEOREM FrmwkExTypeCorrect == Spec => []TypeOK
BY TypeInit, TypeStep, PTL DEF Spec

-----------------------------------------------------------------------------
\* What the mark says of an exception that is being handled.

\* Outside of a handler the mark is reset, unless a FrmwkEx was leaked.
MarkOutside ==
  /\ pc \in {"idle", "test"} /\ ~leaked => ~mPrelimProcessingInProgress
  /\ pc = "unwind" /\ exc \in {"none", "other"} /\ ~leaked =>
       ~mPrelimProcessingInProgress

\* An exception that finds the mark set, without --postfail, was thrown because
\* the device would not disable.
MarkInside ==
  pc = "log" /\ mPrelimProcessingInProgress /\ ~postfail /\ ~leaked => stuck

\* The two branches of DumpStateOfTheSystem().
Branches ==
  /\ pc = "disable" => ~postfail
  /\ pc \in {"dump", "postdisable", "postqueues", "postenable", "postlog",
             "poststop"} => postfail

\* The handler handles a FrmwkEx.
Handling ==
  pc \in {"log", "disable", "dump", "postdisable", "postqueues", "postenable",
         "postlog", "poststop"} => exc \in {"FrmwkEx", "FrmwkEx*"}

\* An exception that is thrown by pointer is leaked.
PointersLeak == exc = "FrmwkEx*" => leaked

\* The inductive invariant behind MarkIsReset and DisabledOnThrow.
HandlerInv ==
  /\ MarkOutside
  /\ MarkInside
  /\ Branches
  /\ Handling
  /\ PointersLeak
  /\ DisabledOnThrow

\* The handler's invariant holds before the first test.
LEMMA HandlerInit == Init => HandlerInv
BY DEF Init, HandlerInv, MarkOutside, MarkInside, Branches, Handling,
            PointersLeak,
       DisabledOnThrow, DisabledOnException

\* Every step of a test, of the handler and of unwinding keeps it.
LEMMA HandlerStep == TypeOK /\ HandlerInv /\ [Next]_vars => HandlerInv'
<1> USE DEF HandlerInv, MarkOutside, MarkInside, Branches, Handling,
            PointersLeak,
            DisabledOnThrow, DisabledOnException
<1> SUFFICES ASSUME TypeOK, HandlerInv, [Next]_vars
             PROVE  HandlerInv'
  OBVIOUS
<1>1. CASE StartGroup
  BY <1>1, DisableEnds DEF StartGroup, ex, dev, objs, hist
<1>2. CASE StartTest
  BY <1>2 DEF StartTest, ex, dev, objs, hist
<1>3. CASE CreateQ
  BY <1>3 DEF CreateQ, ex, hist
<1>4. CASE CreateQFails
  BY <1>4 DEF CreateQFails, Throw, dev, hist
<1>5. CASE GetObj
  BY <1>5 DEF GetObj, ex, dev, hist
<1>6. CASE EnableInTest
  BY <1>6 DEF EnableInTest, ex, objs, hist
<1>7. CASE DisableInTest
  BY <1>7, DisableEnds DEF DisableInTest, ex
<1>8. CASE TestThrows
  BY <1>8 DEF TestThrows, Throw, dev, objs, hist
<1>9. CASE TestThrowsNew
  BY <1>9 DEF TestThrowsNew, dev, objs
<1>10. CASE TestLeaves
  BY <1>10 DEF TestLeaves, dev, objs, hist
<1>11. CASE Unwind
  BY <1>11 DEF Unwind, TypeOK, dev
<1>12. CASE WriteToLog
  <2>1. /\ pc' = IF mPrelimProcessingInProgress THEN "unwind"
                 ELSE IF postfail THEN "dump" ELSE "disable"
        /\ hdw' = hdw /\ exc' = exc /\ leaked' = leaked /\ stuck' = stuck
        /\ postfail' = postfail /\ pc = "log"
    BY <1>12 DEF WriteToLog, dev, hist
  <2>2. CASE mPrelimProcessingInProgress
    BY <2>1, <2>2
  <2>3. CASE ~mPrelimProcessingInProgress /\ postfail
    BY <2>1, <2>3
  <2>4. CASE ~mPrelimProcessingInProgress /\ ~postfail
    BY <2>1, <2>4
  <2> QED
    BY <2>2, <2>3, <2>4
<1>13. CASE WriteToLogFails
  BY <1>13 DEF WriteToLogFails, Nested, dev, objs
<1>14. CASE Reset
  <2>1. CASE Disable("ST_DISABLE_COMPLETELY",
                     IF pc = "disable" THEN "unwind" ELSE "postqueues")
             /\ UNCHANGED <<postfail, ex, leaked, stuck, mute>>
    <3>1. pc' \in {IF pc = "disable" THEN "unwind" ELSE "postqueues", "dead"}
          /\ hdw' = "disabled"
      BY <2>1, DisableEnds
    <3> QED
      BY <1>14, <2>1, <3>1 DEF Reset, ex
  <2>2. CASE Nested /\ stuck' = TRUE /\ UNCHANGED <<dev, objs, leaked, mute, missed, deleted>>
    BY <2>2 DEF Nested, dev
  <2> QED
    BY <1>14, <2>1, <2>2 DEF Reset
<1>15. CASE DumpFiles
  BY <1>15 DEF DumpFiles, Nested, ex, dev, objs, hist
<1>16. CASE PostQueues
  BY <1>16 DEF PostQueues, Nested, ex, hist
<1>17. CASE PostEnable
  BY <1>17 DEF PostEnable, Nested, ex, dev, objs, hist
<1>18. CASE PostLogPage
  BY <1>18 DEF PostLogPage, Nested, ex, dev, objs, hist
<1>19. CASE PostStop
  <2>1. /\ pc = "poststop" /\ pc' \in {"unwind", "dead"}
        /\ postfail' = postfail /\ leaked' = leaked /\ exc' = exc
        /\ mPrelimProcessingInProgress' = mPrelimProcessingInProgress
    BY <1>19, DisableEnds DEF PostStop, ex
  <2> QED
    BY <2>1
<1>20. CASE AllocObjTaken
  BY <1>20 DEF AllocObjTaken, ex, dev, objs, hist
<1>21. CASE DeleteQ
  BY <1>21 DEF DeleteQ, ex, objs
<1>22. CASE UNCHANGED vars
  BY <1>22 DEF vars, dev, objs, ex, hist
<1> QED
  BY <1>1, <1>2, <1>3, <1>4, <1>5, <1>6, <1>7, <1>8, <1>9, <1>10, <1>11, <1>12,
     <1>13, <1>14, <1>15, <1>16, <1>17, <1>18, <1>19, <1>20,
     <1>21, <1>22 DEF Next

\* No test starts with the mark of an earlier exception (~FrmwkEx() has reset
\* it), as long as every FrmwkEx was thrown by value.
THEOREM MarksReset == Spec => []MarkIsReset
<1>1. HandlerInv => MarkIsReset
  BY DEF HandlerInv, MarkOutside, MarkIsReset
<1> QED
  BY <1>1, HandlerInit, HandlerStep, FrmwkExTypeCorrect, PTL DEF Spec

\* When a FrmwkEx has been constructed and the stack unwinds, the device is
\* disabled, unless it refused to, --postfail was given, or an earlier FrmwkEx
\* was thrown by pointer.
THEOREM DisabledBeforeUnwinding == Spec => []DisabledOnThrow
<1>1. HandlerInv => DisabledOnThrow
  BY DEF HandlerInv
<1> QED
  BY <1>1, HandlerInit, HandlerStep, FrmwkExTypeCorrect, PTL DEF Spec
-----------------------------------------------------------------------------
\* Past the check for an exception within an exception there is one constructor
\* on the stack and the mark is set; a second one finds it set.
NestingInv ==
  /\ NestingBounded
  /\ ~mute /\ pc = "log" => depth = 1 \/ mPrelimProcessingInProgress
  /\ ~mute /\ pc \in {"disable", "dump", "postdisable", "postqueues",
                      "postenable", "postlog", "poststop"} =>
       depth = 1 /\ mPrelimProcessingInProgress

\* Nothing is nested before the first test.
LEMMA NestingInit == Init => NestingInv
BY DEF Init, NestingInv, NestingBounded

\* A step of the handler that fails is the only way to nest.
LEMMA NestedOnce ==
  ASSUME TypeOK, NestingInv, Nested, mute' = mute,
         pc \in {"disable", "dump", "postdisable", "postqueues", "postenable",
                 "postlog", "poststop"}
  PROVE  NestingInv'
<1>1. /\ pc' \in {"log", "dead"}
      /\ mPrelimProcessingInProgress' = mPrelimProcessingInProgress
      /\ depth' \in {depth, depth + 1}
  BY DEF Nested
<1>2. CASE mute
  BY <1>1, <1>2 DEF NestingInv, NestingBounded
<1>3. CASE ~mute
  BY <1>1, <1>3 DEF NestingInv, NestingBounded
<1> QED
  BY <1>2, <1>3

\* Every step keeps it: one case per action.
LEMMA NestingStep == TypeOK /\ NestingInv /\ [Next]_vars => NestingInv'
<1> SUFFICES ASSUME TypeOK, NestingInv, [Next]_vars
             PROVE  NestingInv'
  OBVIOUS
<1> USE DEF NestingInv, NestingBounded
<1>1. CASE StartGroup
  BY <1>1, DisableEnds DEF StartGroup, ex, dev, objs, hist
<1>2. CASE StartTest
  BY <1>2 DEF StartTest, ex, dev, objs, hist
<1>3. CASE CreateQ
  BY <1>3 DEF CreateQ, ex, hist
<1>4. CASE CreateQFails
  BY <1>4 DEF CreateQFails, Throw, dev, hist
<1>5. CASE GetObj
  BY <1>5 DEF GetObj, ex, dev, hist
<1>6. CASE EnableInTest
  BY <1>6 DEF EnableInTest, ex, objs, hist
<1>7. CASE DisableInTest
  BY <1>7, DisableEnds DEF DisableInTest, ex
<1>8. CASE TestThrows
  BY <1>8 DEF TestThrows, Throw, dev, objs, hist
<1>9. CASE TestThrowsNew
  BY <1>9 DEF TestThrowsNew, dev, objs
<1>10. CASE TestLeaves
  BY <1>10 DEF TestLeaves, dev, objs, hist
<1>11. CASE Unwind
  <2>1. pc' \in {"dead", "idle"} /\ depth' = 0
    BY <1>11 DEF Unwind
  <2> QED
    BY <2>1
<1>12. CASE WriteToLog
  <2>1. /\ pc = "log" /\ pc' \in {"unwind", "dump", "disable"}
        /\ depth' = depth /\ mute' = mute
        /\ mPrelimProcessingInProgress' = TRUE
    BY <1>12 DEF WriteToLog, hist
  <2>2. mPrelimProcessingInProgress => pc' = "unwind"
    BY <1>12 DEF WriteToLog
  <2> QED
    BY <2>1, <2>2
<1>13. CASE WriteToLogFails
  BY <1>13 DEF WriteToLogFails
<1>14. CASE Reset
  <2>1. CASE Disable("ST_DISABLE_COMPLETELY",
                     IF pc = "disable" THEN "unwind" ELSE "postqueues")
             /\ UNCHANGED <<postfail, ex, leaked, stuck, mute>>
    <3>1. pc' \in {IF pc = "disable" THEN "unwind" ELSE "postqueues", "dead"}
      BY <2>1, DisableEnds
    <3> QED
      BY <1>14, <2>1, <3>1 DEF Reset, ex
  <2>2. CASE Nested /\ stuck' = TRUE /\ UNCHANGED <<dev, objs, leaked, mute, missed, deleted>>
    BY <1>14, <2>2, NestedOnce DEF Reset
  <2> QED
    BY <1>14, <2>1, <2>2 DEF Reset
<1>15. CASE DumpFiles
  BY <1>15, NestedOnce DEF DumpFiles, ex, dev, objs, hist
<1>16. CASE PostQueues
  BY <1>16, NestedOnce DEF PostQueues, ex, hist
<1>17. CASE PostEnable
  BY <1>17, NestedOnce DEF PostEnable, ex, dev, objs, hist
<1>18. CASE PostLogPage
  BY <1>18, NestedOnce DEF PostLogPage, ex, dev, objs, hist
<1>19. CASE PostStop
  <2>1. /\ pc' \in {"unwind", "dead"} /\ depth' = depth /\ mute' = mute
    BY <1>19, DisableEnds DEF PostStop, ex
  <2> QED
    BY <2>1
<1>20. CASE AllocObjTaken
  BY <1>20 DEF AllocObjTaken, ex, dev, objs, hist
<1>21. CASE DeleteQ
  BY <1>21 DEF DeleteQ, ex, objs
<1>22. CASE UNCHANGED vars
  BY <1>22 DEF vars, dev, objs, ex, hist
<1> QED
  BY <1>1, <1>2, <1>3, <1>4, <1>5, <1>6, <1>7, <1>8, <1>9, <1>10, <1>11, <1>12,
     <1>13, <1>14, <1>15, <1>16, <1>17, <1>18, <1>19, <1>20,
     <1>21, <1>22 DEF Next

\* As long as dnvme accepts log entries, no more than one FrmwkEx is ever
\* constructed within the construction of another.
THEOREM NestsOnce == Spec => []NestingBounded
<1>1. NestingInv => NestingBounded
  BY DEF NestingInv
<1> QED
  BY <1>1, NestingInit, NestingStep, FrmwkExTypeCorrect, PTL DEF Spec
-----------------------------------------------------------------------------
\* GroupObjectsBacked wherever the program is, in the handler too.
BackedInv ==
  \A q \in mObjGrpLife :
    <<"group", q>> \in raw \/ q \in kq \/ q \in missed \cup deleted

\* There are no objects before the first test.
LEMMA BackedInit == Init => BackedInv
BY DEF Init, BackedInv

\* A Disable() takes memory away only from queues whose objects it drops or
\* passes over; ACQ and ASQ keep theirs as long as they keep their objects.
LEMMA DisableBacked ==
  ASSUME TypeOK, BackedInv, NEW then,
         NEW state \in {"ST_DISABLE", "ST_DISABLE_COMPLETELY"},
         Disable(state, then)
  PROVE  BackedInv'
<1> SUFFICES ASSUME NEW q \in mObjGrpLife'
             PROVE  <<"group", q>> \in raw' \/ q \in kq' \/ q \in missed' \cup deleted'
  BY DEF BackedInv
<1>1. q \in mObjGrpLife /\ state = "ST_DISABLE"
  BY DEF Disable, Remain
<1>2. CASE q \notin Admin
  BY <1>2 DEF Disable
<1>3. CASE q \in Admin
  <2>1. q \notin missed \cup deleted
    BY <1>3, FrmwkExAssumption DEF TypeOK, Admin
  <2>2. <<"group", q>> \in raw \/ q \in kq
    BY <1>1, <2>1 DEF BackedInv
  <2>3. <<"group", q>> \notin Group(mObjGrpLife \ (mObjGrpLife' \cup held))
    BY DEF Group
  <2> QED
    BY <1>1, <1>3, <2>2, <2>3 DEF Disable
<1> QED
  BY <1>2, <1>3

\* Every step keeps it: objects come with memory or without Init(), a queue
\* that is deleted is marked so, and unwinding destroys only what mObjGrpLife
\* does not hold.
LEMMA BackedStep == TypeOK /\ BackedInv /\ [Next]_vars => BackedInv'
<1> SUFFICES ASSUME TypeOK, BackedInv, [Next]_vars
             PROVE  BackedInv'
  OBVIOUS
<1>1. CASE StartGroup
  BY <1>1, DisableBacked DEF StartGroup, BackedInv, dev, objs, hist
<1>2. CASE CreateQ
  <2>1. PICK o \in Objects :
          /\ Construct(o) /\ kq' = kq \cup {o[2]} /\ deleted' = deleted \ {o[2]}
    BY <1>2 DEF CreateQ
  <2>2. raw' = raw /\ missed' = missed
    BY <1>2 DEF CreateQ
  <2> QED
    BY <2>1, <2>2 DEF Construct, BackedInv
<1>3. CASE CreateQFails
  <2>1. PICK o \in Objects : Construct(o) /\ raw' = raw \cup {o}
    BY <1>3 DEF CreateQFails
  <2>2. o[1] = "group" => o = <<"group", o[2]>>
    BY DEF Objects, Group
  <2>3. kq' = kq /\ missed' = missed /\ deleted' = deleted
    BY <1>3 DEF CreateQFails, dev, hist
  <2> QED
    BY <2>1, <2>2, <2>3 DEF Construct, BackedInv
<1>4. CASE DisableInTest
  BY <1>4, DisableBacked DEF DisableInTest
<1>5. CASE Unwind
  <2>1. /\ mObjGrpLife' = mObjGrpLife /\ kq' = kq
        /\ missed' = missed /\ deleted' = deleted
        /\ raw' = raw \ ({<<"test", k>> : k \in local} \cup
                         {<<"post", k>> : k \in post} \cup
                         Group(held \ mObjGrpLife))
    BY <1>5 DEF Unwind, dev
  <2> QED
    BY <2>1 DEF BackedInv, Group
<1>6. CASE Reset
  <2>1. CASE Disable("ST_DISABLE_COMPLETELY",
                     IF pc = "disable" THEN "unwind" ELSE "postqueues")
    BY <2>1, DisableBacked
  <2>2. CASE UNCHANGED <<dev, objs, leaked, mute, missed, deleted>>
    BY <2>2 DEF BackedInv, dev, objs
  <2> QED
    BY <1>6, <2>1, <2>2 DEF Reset
<1>7. CASE PostQueues
  BY <1>7 DEF PostQueues, BackedInv, hist
<1>8. CASE PostStop
  BY <1>8, DisableBacked DEF PostStop, BackedInv, dev, objs
<1>9. CASE DeleteQ
  BY <1>9 DEF DeleteQ, BackedInv, objs
<1>10. CASE \/ StartTest \/ AllocObjTaken \/ GetObj \/ EnableInTest \/ TestThrows
            \/ TestThrowsNew \/ TestLeaves \/ WriteToLog \/ WriteToLogFails
            \/ DumpFiles \/ PostEnable \/ PostLogPage \/ UNCHANGED vars
  <2>1. /\ mObjGrpLife' = mObjGrpLife /\ raw' = raw /\ kq' = kq
        /\ missed' = missed /\ deleted' = deleted
    BY <1>10 DEF StartTest, AllocObjTaken, GetObj, EnableInTest, TestThrows,
                TestThrowsNew, TestLeaves, WriteToLog, WriteToLogFails, DumpFiles,
                PostEnable, PostLogPage, vars, dev, objs, hist
  <2> QED
    BY <2>1 DEF BackedInv
<1> QED
  BY <1>1, <1>2, <1>3, <1>4, <1>5, <1>6, <1>7, <1>8, <1>9, <1>10 DEF Next

\* Whatever a test finds in mObjGrpLife is a queue dnvme has memory for, one
\* whose Init() failed, one a test has deleted with a Delete IOSQ/IOCQ command,
\* or one FreeAllObjNotASQACQ() has passed over: nothing else, an exception and
\* its handler included, takes the memory of an object away.
THEOREM ObjectsBacked == Spec => []GroupObjectsBacked
<1>1. BackedInv => GroupObjectsBacked
  BY DEF BackedInv, GroupObjectsBacked
<1> QED
  BY <1>1, BackedInit, BackedStep, FrmwkExTypeCorrect, PTL DEF Spec
=============================================================================
