--------------------------- MODULE AsanFakeStack ---------------------------
(***************************************************************************)
(* The fake stack of one thread, lib/asan/asan_allocator.cc: the locals of *)
(* a function live in a frame taken from a fifo per size class, and the    *)
(* frame is reused only after the function is gone.  A function may leave  *)
(* without __asan_stack_free (longjmp, an exception), so the frames of     *)
(* functions that are gone are found by the position of the real stack.    *)
(***************************************************************************)
EXTENDS Integers, FiniteSets, Sequences, SequencesExt, FiniteSetsExt

CONSTANTS
  StackSize,   \* stack_size_, a power of two
  MinFrame,    \* 1 << kMinStackFrameSizeLog
  FrameSizes   \* sizes the instrumented functions ask for, above 1

VARIABLES
  alive,       \* alive_
  mapped,      \* the classes with allocated_size_classes_[c] set
  fifo,        \* size_classes_: class -> free frames
  call_stack,  \* call_stack_, the newest frame first
  frame,       \* frame -> [size, real, open]: size_minus_one, real_stack, and
               \* whether its shadow is open
  active,      \* the functions that are running, the newest first: the
               \* pointer and real stack each was given
  exhausted    \* the CHECK in FifoPop failed

fakeStackVars == <<alive, mapped, fifo, call_stack, frame, active, exhausted>>

\* A frame is [cls, at]: the at-th piece of the memory of its class.
FramePowers == {2 ^ i : i \in 0 .. 16}
ComputeSizeClass(size) ==
  Max({MinFrame, Min({p \in FramePowers : p >= size})})
FrameClasses == {ComputeSizeClass(size) : size \in FrameSizes}
ClassMmapSize == Min({p \in FramePowers : p >= StackSize})
NewFrames(cls) == [i \in 1 .. ClassMmapSize \div cls |-> [cls |-> cls, at |-> i - 1]]

\* Real stack positions grow downwards from StackSize.
RealTop == IF active = << >> THEN StackSize ELSE active[1].real

\* The frames on top of call_stack_ that are not above the new function.
BugGone(real) ==
  SubSeq(call_stack, 1,
         Cardinality({i \in DOMAIN call_stack :
                        \A j \in 1 .. i : frame[call_stack[j]].real >= real}))
Gone(real) ==
  SubSeq(call_stack, 1,
         Cardinality({i \in DOMAIN call_stack :
                        \A j \in 1 .. i : frame[call_stack[j]].real <= real}))

AllocateStack(size) ==
  LET real == RealTop - size
      cls == ComputeSizeClass(size)
      free == IF cls \in mapped THEN fifo[cls] ELSE NewFrames(cls)
      gone == Gone(real)
      Returned(c) == SelectSeq(gone, LAMBDA f : f.cls = c)
  IN
  /\ ~exhausted /\ real >= 0
  /\ IF ~alive
     THEN /\ active' = <<[real |-> real, ptr |-> << >>, size |-> size]>> \o active
          /\ UNCHANGED <<mapped, fifo, call_stack, frame, exhausted>>
     ELSE IF free = << >>
     THEN exhausted' = TRUE /\ UNCHANGED <<mapped, fifo, call_stack, frame, active>>
     ELSE /\ mapped' = mapped \cup {cls}
          /\ fifo' = [c \in FrameClasses |->
                        (IF c = cls THEN Tail(free) ELSE fifo[c]) \o Returned(c)]
          /\ call_stack' = <<free[1]>> \o SubSeq(call_stack, Len(gone) + 1, Len(call_stack))
          /\ frame' = (free[1] :> [size |-> size, real |-> real, open |-> TRUE]) @@ frame
          /\ active' = <<[real |-> real, ptr |-> <<free[1]>>, size |-> size]>> \o active
          /\ UNCHANGED exhausted
  /\ UNCHANGED alive

\* The newest function returns: __asan_stack_free poisons what it got, unless
\* that was the real stack.
OnFree ==
  /\ ~exhausted /\ active # << >>
  /\ frame' = IF active[1].ptr = << >> THEN frame
              ELSE [frame EXCEPT ![active[1].ptr[1]].open = FALSE]
  /\ active' = Tail(active)
  /\ UNCHANGED <<alive, mapped, fifo, call_stack, exhausted>>

\* longjmp or an exception leaves several functions at once.
LeaveWithoutFree ==
  /\ ~exhausted
  /\ \E n \in 1 .. Len(active) : active' = SubSeq(active, n + 1, Len(active))
  /\ UNCHANGED <<alive, mapped, fifo, call_stack, frame, exhausted>>

\* A report was started by this thread.
StopUsingFakeStack ==
  /\ alive /\ ~exhausted
  /\ alive' = FALSE
  /\ UNCHANGED <<mapped, fifo, call_stack, frame, active, exhausted>>

FakeStackInit ==
  /\ alive = TRUE /\ mapped = {} /\ exhausted = FALSE
  /\ fifo = [c \in FrameClasses |-> << >>]
  /\ call_stack = << >> /\ frame = << >> /\ active = << >>

FakeStackNext ==
  \/ \E size \in FrameSizes : AllocateStack(size)
  \/ OnFree \/ LeaveWithoutFree \/ StopUsingFakeStack

-----------------------------------------------------------------------------
RunningFrames == {active[i].ptr[1] : i \in {j \in DOMAIN active : active[j].ptr # << >>}}

FakeStackTypeOK ==
  /\ DOMAIN fifo = FrameClasses /\ mapped \subseteq FrameClasses
  /\ \A f \in ToSet(call_stack) : f \in DOMAIN frame

\* The frame of a running function is its own: open, on the call stack, in no
\* fifo, and no other function has it.
RunningFramesAreKept ==
  /\ \A i, j \in DOMAIN active :
       i # j /\ active[i].ptr # << >> => active[i].ptr # active[j].ptr
  /\ \A f \in RunningFrames :
       /\ frame[f].open /\ f \in ToSet(call_stack)
       /\ \A c \in FrameClasses : f \notin ToSet(fifo[c])
  \* and every frame is in one place
  /\ \A c \in mapped :
       /\ IsInjective(fifo[c])
       /\ Len(fifo[c]) + Cardinality({f \in ToSet(call_stack) : f.cls = c})
            = ClassMmapSize \div c
=============================================================================
