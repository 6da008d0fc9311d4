--------------------------- MODULE CallbacksProofs ---------------------------
(***************************************************************************)
(* Machine-checked facts about Callbacks, for every set of lent values,    *)
(* strings and VM wrappers, every depth of nesting and every number of     *)
(* items.                                                                  *)
(***************************************************************************)
EXTENDS Callbacks, SequenceTheorems, TLAPS

-----------------------------------------------------------------------------
(* The inductive invariant.  None of the properties is inductive by itself:  *)
(* that a trampoline finds its handle needs to know that the owner of        *)
(* whatever is on the stack is alive and that its handle is valid, that what *)
(* was allocated for a call is freed needs to know whose it is, and that a   *)
(* VM wrapper is opened once that no two calls share one.                    *)

IsCall(f) == f.cb \in Function
IsLoop(f) == f.cb \in Loop

(* Only the innermost call moves: the others wait for their callback. *)
BodiesBelow == \A d \in DOMAIN stack : d < Len(stack) => stack[d].pc = "body"

(* Each call of a Go function has a VM wrapper of its own, raw until the     *)
(* closure takes it.                                                         *)
VmsOK ==
  /\ \A d \in DOMAIN stack : IsCall(stack[d]) =>
       /\ stack[d].vm \in CallbackVm
       /\ stack[d].pc = "enter" <=> vm[stack[d].vm] = "raw"
  /\ \A d, e \in DOMAIN stack :
       IsCall(stack[d]) /\ IsCall(stack[e]) /\ stack[d].vm = stack[e].vm => d = e

(* What is allocated is exactly what the calls in progress will free, and    *)
(* what nobody will.                                                         *)
AllocOK ==
  /\ \A x \in alloc : x # Leaked => x[1] \in DOMAIN stack /\ IsCall(stack[x[1]])
  /\ \A d \in DOMAIN stack : IsCall(stack[d]) =>
       /\ <<d, "data">> \in alloc /\ <<d, "args">> \in alloc
       /\ stack[d].values <=> <<d, "values">> \in alloc
       /\ stack[d].error <=> <<d, "error">> \in alloc
       /\ stack[d].pc = "rust" => stack[d].values # stack[d].error
       /\ stack[d].pc # "rust" => ~stack[d].values /\ ~stack[d].error

(* A loop that saw a failure has stopped. *)
LoopsOK ==
  \A d \in DOMAIN stack :
    /\ stack[d].bad # {} => /\ stack[d].bad = {stack[d].err}
                            /\ stack[d].seen = stack[d].err
                            /\ stack[d].stop
    /\ IsLoop(stack[d]) /\ stack[d].pc = "body" => ~stack[d].stop /\ stack[d].seen > 0

(* A handle is valid exactly while Rust can call back through it.            *)
HandlesMatchOwners == \A c \in Lent : cgo[c] = "valid" <=> owner[c] = "alive"

(* Whatever is on the stack is owned; a loop is owned while it is there,     *)
(* once; Lua's values are owned while the state is there.                    *)
FramesOwned == \A d \in DOMAIN stack : owner[stack[d].cb] = "alive"

LoopsOnce ==
  \A d, e \in DOMAIN stack : IsLoop(stack[d]) /\ stack[d].cb = stack[e].cb => d = e

LoopsOwned == \A l \in Loop : owner[l] = "alive" => \E d \in DOMAIN stack : stack[d].cb = l

StateOwns == ~Alive => Owned = {}

OwnersOK == /\ HandlesMatchOwners /\ TrampolinesSafe
            /\ FramesOwned /\ LoopsOnce /\ LoopsOwned /\ StateOwns

StackOK == BodiesBelow /\ VmsOK /\ AllocOK /\ LoopsOK

IInv == TypeOK /\ StackOK /\ OwnersOK

-----------------------------------------------------------------------------
(* The stack *)

Pushed(f) == /\ Len(stack') = Len(stack) + 1 /\ DOMAIN stack' = 1 .. Len(stack) + 1
             /\ stack'[Len(stack) + 1] = f
             /\ \A d \in 1 .. Len(stack) : stack'[d] = stack[d]

Replaced(f) == /\ Len(stack') = Len(stack) /\ DOMAIN stack' = 1 .. Len(stack)
               /\ stack'[Len(stack)] = f
               /\ \A d \in 1 .. Len(stack) : d # Len(stack) => stack'[d] = stack[d]

Popped == /\ Len(stack') = Len(stack) - 1 /\ DOMAIN stack' = 1 .. Len(stack) - 1
          /\ \A d \in 1 .. Len(stack) - 1 : stack'[d] = stack[d]

LEMMA StackDomain ==
  ASSUME stack \in Seq(Frame)
  PROVE  /\ Len(stack) \in Nat /\ DOMAIN stack = 1 .. Len(stack)
         /\ stack # <<>> <=> Len(stack) > 0
         /\ stack # <<>> => Len(stack) \in DOMAIN stack /\ Top = stack[Len(stack)] /\ Top \in Frame
         /\ \A d \in DOMAIN stack : stack[d] \in Frame
  BY EmptySeq, LenProperties, ElementOfSeq DEF Top, Depth

LEMMA Push ==
  ASSUME stack \in Seq(Frame), NEW f \in Frame, PushFrame(f)
  PROVE  stack' \in Seq(Frame) /\ Pushed(f)
<1>1. /\ stack' \in Seq(Frame) /\ Len(stack') = Len(stack) + 1
      /\ stack'[Len(stack) + 1] = f
      /\ \A d \in 1 .. Len(stack) : stack'[d] = stack[d]
  BY AppendProperties DEF PushFrame
<1>. QED
  BY <1>1, LenProperties DEF Pushed

LEMMA Replace ==
  ASSUME stack \in Seq(Frame), stack # <<>>, NEW f \in Frame, SetTop(f)
  PROVE  stack' \in Seq(Frame) /\ Replaced(f)
<1>1. Len(stack) \in 1 .. Len(stack)
  BY StackDomain
<1>2. /\ stack' \in Seq(Frame) /\ Len(stack') = Len(stack)
      /\ stack'[Len(stack)] = f
      /\ \A d \in 1 .. Len(stack) : d # Len(stack) => stack'[d] = stack[d]
  BY <1>1, ExceptSeq DEF SetTop, Depth
<1>. QED
  BY <1>2, LenProperties DEF Replaced

LEMMA PopIt ==
  ASSUME stack \in Seq(Frame), stack # <<>>, PopFrame
  PROVE  stack' \in Seq(Frame) /\ Popped
<1>1. /\ Len(stack) \in Nat /\ Len(stack) > 0
      /\ \A d \in 1 .. Len(stack) - 1 : stack[d] \in Frame
  BY StackDomain
<1>. DEFINE n == Len(stack) - 1
            s == SubSeq(stack, 1, n)
<1>2. n \in Nat /\ n \in Int /\ 1 \in Int /\ \A d \in 1 .. n : stack[d] \in Frame
  BY <1>1
<1>3. /\ s \in Seq(Frame)
      /\ Len(s) = IF 1 <= n THEN n - 1 + 1 ELSE 0
      /\ \A i \in 1 .. n - 1 + 1 : s[i] = stack[1 + i - 1]
  BY <1>2, SubSeqProperties
<1>4. stack' = s
  BY DEF PopFrame, Depth
<1>. HIDE DEF n, s
<1>5. Len(s) = n
  BY <1>2, <1>3
<1>6. \A i \in 1 .. n : s[i] = stack[i]
  BY <1>2, <1>3
<1>7. DOMAIN s = 1 .. n
  BY <1>3, <1>5, LenProperties
<1>. QED
  BY <1>3, <1>4, <1>5, <1>6, <1>7 DEF Popped, n

-----------------------------------------------------------------------------
(* Typing *)

HandlesType == /\ cgo \in [Lent -> {"unborn", "valid", "deleted"}]
               /\ owner \in [Lent -> {"unborn", "alive", "dropped"}]
               /\ maker \in [Function -> Vm \cup {None}]
               /\ misuse \subseteq {"call", "drop", "data", "bytes"}

StateType == /\ vm \in [Vm -> {"none", "raw", "open", "lost"}]
             /\ held \subseteq {v \in Vm : vm[v] = "open"}

CallsType == /\ stack \in Seq(Frame) /\ Len(stack) <= MaxDepth
             /\ alloc \subseteq (0 .. MaxDepth) \X {"data", "args", "values", "error"}

RefsType == goRef \subseteq LuaOwned /\ luaRef \subseteq LuaOwned

ReaderType == reader \in UserData \cup LuaString \cup {None}

LEMMA TypeParts == TypeOK <=> HandlesType /\ StateType /\ CallsType /\ RefsType /\ ReaderType
  BY DEF TypeOK, HandlesType, StateType, CallsType, RefsType, ReaderType

LEMMA DropType ==
  ASSUME HandlesType, NEW C \in SUBSET Lent, Drop(C)
  PROVE  HandlesType'
  BY DEF HandlesType, Drop

LEMMA ReleaseType ==
  ASSUME HandlesType, RefsType, NEW C \in SUBSET Lent, Release(C), UNCHANGED goRef
  PROVE  HandlesType' /\ RefsType'
<1>1. C \cup Owned \in SUBSET Lent
  BY DEF Owned, Lent
<1>. QED
  BY <1>1, DropType DEF Release, RefsType

LEMMA FreeType ==
  ASSUME StateType, NEW v, Free(v)
  PROVE  StateType'
  BY DEF StateType, Free

LEMMA NewFrameType ==
  ASSUME NEW c \in Function \cup Loop, NEW g \in BOOLEAN, NEW v \in CallbackVm \cup {None}
  PROVE  NewFrame(c, g, v) \in Frame
  BY CallbacksAssumption DEF NewFrame, Frame

(* The innermost call keeps its identity when it moves on. *)
LEMMA TopType ==
  ASSUME CallsType, stack # <<>>
  PROVE  /\ Top \in Frame
         /\ \A pc \in {"enter", "body", "rust"} : [Top EXCEPT !.pc = pc] \in Frame
         /\ [Top EXCEPT !.pc = "rust", !.error = TRUE] \in Frame
         /\ [Top EXCEPT !.pc = "rust", !.values = TRUE] \in Frame
         /\ Top.seen < MaxItems => [Top EXCEPT !.pc = "body", !.seen = @ + 1] \in Frame
         /\ Top.seen > 0 =>
              [Top EXCEPT !.pc = "enter", !.err = Top.seen, !.stop = TRUE, !.bad = @ \cup {Top.seen}]
                \in Frame
<1>1. Top \in Frame
  BY StackDomain DEF CallsType
<1>2. Top.seen \in 0 .. MaxItems /\ Top.bad \in SUBSET (1 .. MaxItems)
  BY <1>1 DEF Frame
<1>3. \A pc \in {"enter", "body", "rust"} : [Top EXCEPT !.pc = pc] \in Frame
  BY <1>1 DEF Frame
<1>4. /\ [Top EXCEPT !.pc = "rust", !.error = TRUE] \in Frame
      /\ [Top EXCEPT !.pc = "rust", !.values = TRUE] \in Frame
  BY <1>1 DEF Frame
<1>5. Top.seen < MaxItems => [Top EXCEPT !.pc = "body", !.seen = @ + 1] \in Frame
  <2>1. ASSUME Top.seen < MaxItems
        PROVE  Top.seen + 1 \in 0 .. MaxItems
    BY <1>2, <2>1, CallbacksAssumption
  <2>2. \A n \in 0 .. MaxItems : [Top EXCEPT !.pc = "body", !.seen = n] \in Frame
    BY <1>1 DEF Frame
  <2>. QED
    BY <2>1, <2>2
<1>6. Top.seen > 0 =>
        [Top EXCEPT !.pc = "enter", !.err = Top.seen, !.stop = TRUE, !.bad = @ \cup {Top.seen}]
          \in Frame
  <2>1. ASSUME Top.seen > 0
        PROVE  Top.bad \cup {Top.seen} \in SUBSET (1 .. MaxItems)
    BY <1>2, <2>1, CallbacksAssumption
  <2>2. \A n \in 0 .. MaxItems, B \in SUBSET (1 .. MaxItems) :
          [Top EXCEPT !.pc = "enter", !.err = n, !.stop = TRUE, !.bad = B] \in Frame
    BY <1>1 DEF Frame
  <2>. QED
    BY <1>2, <2>1, <2>2
<1>. QED
  BY <1>1, <1>3, <1>4, <1>5, <1>6

LEMMA SetTopType ==
  ASSUME CallsType, stack # <<>>, NEW f \in Frame, SetTop(f),
         alloc' \subseteq alloc \cup {Leaked}
                            \cup ({Len(stack)} \X {"data", "args", "values", "error"})
  PROVE  CallsType' /\ Replaced(f)
<1>1. stack' \in Seq(Frame) /\ Replaced(f)
  BY Replace DEF CallsType
<1>2. Len(stack) \in 0 .. MaxDepth
  BY StackDomain, CallbacksAssumption DEF CallsType
<1>3. Leaked \in (0 .. MaxDepth) \X {"data", "args", "values", "error"}
  BY CallbacksAssumption DEF Leaked
<1>4. alloc' \subseteq (0 .. MaxDepth) \X {"data", "args", "values", "error"}
  BY <1>2, <1>3 DEF CallsType
<1>. QED
  BY <1>1, <1>4 DEF CallsType, Replaced

LEMMA PopType ==
  ASSUME CallsType, stack # <<>>, PopFrame, alloc' \subseteq alloc
  PROVE  CallsType' /\ Popped
<1>1. stack' \in Seq(Frame) /\ Popped
  BY PopIt DEF CallsType
<1>2. Len(stack) \in Nat
  BY StackDomain DEF CallsType
<1>. QED
  BY <1>1, <1>2, CallbacksAssumption DEF CallsType, Popped

LEMMA PushType ==
  ASSUME CallsType, Depth < MaxDepth, NEW f \in Frame, PushFrame(f),
         alloc' \subseteq alloc \cup ({Depth + 1} \X {"data", "args", "values", "error"})
  PROVE  CallsType' /\ Pushed(f)
<1>1. stack' \in Seq(Frame) /\ Pushed(f)
  BY Push DEF CallsType
<1>2. Len(stack) + 1 \in 1 .. MaxDepth
  BY StackDomain, CallbacksAssumption DEF CallsType, Depth
<1>. QED
  BY <1>1, <1>2 DEF CallsType, Pushed, Depth

(* The steps of the innermost call of a Go function, and of a loop: what     *)
(* they make of its frame is a frame.                                        *)
LEMMA CallMoves ==
  ASSUME CallsType, InCall, EnterBody \/ TakePanics \/ Succeed \/ Fail \/ ConvertPanics \/ Panic
  PROVE  /\ CallsType'
         /\ \E f \in Frame : SetTop(f) /\ Replaced(f)
<1>1. stack # <<>> /\ CallsType
  BY DEF InCall
<1>2. PICK f \in Frame : SetTop(f)
  BY <1>1, TopType DEF EnterBody, TakePanics, Succeed, Fail, ConvertPanics, Panic, GiveError
<1>3. alloc' \subseteq alloc \cup {Leaked}
                           \cup ({Len(stack)} \X {"data", "args", "values", "error"})
  BY DEF EnterBody, TakePanics, Succeed, Fail, ConvertPanics, Panic, GiveError, At, Depth
<1>. QED
  BY <1>1, <1>2, <1>3, SetTopType

LEMMA LoopMoves ==
  ASSUME CallsType, LoopsOK, NextItem \/ ItemSucceeds \/ ItemFails
  PROVE  /\ CallsType'
         /\ \E f \in Frame : SetTop(f) /\ Replaced(f)
<1>1. stack # <<>> /\ InLoop /\ UNCHANGED alloc
  BY DEF InLoop, NextItem, ItemSucceeds, ItemFails
<1>2. Top.pc = "body" => Top.seen > 0
  BY <1>1, StackDomain DEF CallsType, LoopsOK, IsLoop, InLoop
<1>3. PICK f \in Frame : SetTop(f)
  BY <1>1, <1>2, TopType DEF NextItem, ItemSucceeds, ItemFails, InBody
<1>. QED
  BY <1>1, <1>3, SetTopType

(* What the state's wrappers look like after a step. *)
LEMMA StateMoves ==
  ASSUME CallsType, StateType, VmsOK, [Next]_vars
  PROVE  StateType'
<1>1. CASE \E v \in Vm : Free(v)
  BY <1>1, FreeType
<1>2. CASE UNCHANGED state
  BY <1>2 DEF state, StateType
<1>3. CASE \E v \in Vm : Forget(v)
  BY <1>3 DEF Forget, StateType
<1>4. CASE InCall /\ Top.pc = "enter" /\ (EnterBody \/ TakePanics)
  <2>1. Top.vm \in CallbackVm /\ vm[Top.vm] = "raw"
    BY <1>4, StackDomain DEF CallsType, VmsOK, IsCall, InCall
  <2>. QED
    BY <1>4, <2>1 DEF EnterBody, TakePanics, StateType, Vm
<1>5. CASE \E f \in Function : Invoke(f)
  <2>1. PICK v \in CallbackVm : vm[v] = "none" /\ vm' = [vm EXCEPT ![v] = "raw"] /\ held' = held
    BY <1>5 DEF Invoke
  <2>. QED
    BY <2>1 DEF StateType, Vm
<1>6. ASSUME InCall, Succeed \/ Fail \/ ConvertPanics
      PROVE  \E v \in Vm : Free(v)
  <2>1. Top.vm \in CallbackVm
    BY <1>6, StackDomain DEF CallsType, VmsOK, IsCall, InCall
  <2>. QED
    BY <1>6, <2>1 DEF Succeed, Fail, ConvertPanics, Vm
<1>7. \/ \E v \in Vm : Free(v)
      \/ UNCHANGED state
      \/ \E v \in Vm : Forget(v)
      \/ \E f \in Function : Invoke(f)
      \/ InCall /\ Top.pc = "enter" /\ (EnterBody \/ TakePanics)
      \/ InCall /\ (Succeed \/ Fail \/ ConvertPanics)
  <2>1. CASE UNCHANGED vars
    BY <2>1 DEF vars, state
  <2>2. CASE \E v \in Vm : CloseVm(v) \/ Forget(v) \/ Finalize(v)
    BY <2>2 DEF CloseVm, Finalize
  <2>3. CASE \/ \E c \in LuaOwned, v \in Vm : Create(c, v)
             \/ \E c \in LuaOwned : Collect(c) \/ Refer(c)
    BY <2>3 DEF Create, Collect, Refer
  <2>4. CASE Panic \/ Leave \/ NextItem \/ ItemSucceeds \/ ItemFails \/ EndLoop
    BY <2>4 DEF Panic, Leave, NextItem, ItemSucceeds, ItemFails, EndLoop, state
  <2>5. CASE \E l \in Loop : StartLoop(l)
    BY <2>5 DEF StartLoop
  <2>6. CASE \/ \E u \in UserData : ReadHandle(u)
             \/ \E s \in LuaString : ReadAddress(s)
             \/ LookUp \/ CopyBytes
    BY <2>6 DEF ReadHandle, ReadAddress, LookUp, CopyBytes
  <2>7. CASE EnterBody \/ TakePanics \/ Succeed \/ Fail \/ ConvertPanics
    BY <2>7 DEF EnterBody, TakePanics, Succeed, Fail, ConvertPanics
  <2>. QED
    BY <2>1, <2>2, <2>3, <2>4, <2>5, <2>6, <2>7 DEF Next
<1>. QED
  BY <1>1, <1>2, <1>3, <1>4, <1>5, <1>6, <1>7

LEMMA CallsMove ==
  ASSUME CallsType, LoopsOK, [Next]_vars
  PROVE  CallsType'
<1>1. CASE UNCHANGED calls
  BY <1>1 DEF calls, CallsType
<1>2. CASE EnterBody \/ TakePanics \/ Succeed \/ Fail \/ ConvertPanics \/ Panic
  BY <1>2, CallMoves DEF EnterBody, TakePanics, Succeed, Fail, ConvertPanics, Panic
<1>3. CASE NextItem \/ ItemSucceeds \/ ItemFails
  BY <1>3, LoopMoves
<1>4. CASE Leave \/ EndLoop
  BY <1>4, PopType DEF Leave, EndLoop, InCall, InLoop
<1>5. CASE \E f \in Function : Invoke(f)
  <2>1. PICK f \in Function : Invoke(f)
    BY <1>5
  <2>2. PICK fromGo \in BOOLEAN, v \in CallbackVm : PushFrame(NewFrame(f, fromGo, v))
    BY <2>1 DEF Invoke
  <2>3. NewFrame(f, fromGo, v) \in Frame
    BY NewFrameType
  <2>. QED
    BY <2>1, <2>2, <2>3, PushType DEF Invoke
<1>6. CASE \E l \in Loop : StartLoop(l)
  <2>1. PICK l \in Loop : StartLoop(l)
    BY <1>6
  <2>2. NewFrame(l, TRUE, None) \in Frame
    BY NewFrameType
  <2>. QED
    BY <2>1, <2>2, PushType DEF StartLoop
<1>7. CASE UNCHANGED vars
  BY <1>7, <1>1 DEF vars
<1>8. CASE \/ \E v \in Vm : CloseVm(v) \/ Forget(v) \/ Finalize(v)
           \/ \E c \in LuaOwned, v \in Vm : Create(c, v)
           \/ \E c \in LuaOwned : Collect(c) \/ Refer(c)
           \/ \E u \in UserData : ReadHandle(u)
           \/ \E s \in LuaString : ReadAddress(s)
           \/ LookUp \/ CopyBytes
  BY <1>8, <1>1 DEF CloseVm, Forget, Finalize, Create, Collect, Refer, ReadHandle, ReadAddress,
     LookUp, CopyBytes
<1>. QED
  BY <1>2, <1>3, <1>4, <1>5, <1>6, <1>7, <1>8 DEF Next

LEMMA HandlesMove ==
  ASSUME TypeOK, [Next]_vars
  PROVE  HandlesType' /\ RefsType' /\ ReaderType'
<1>. HandlesType /\ RefsType /\ ReaderType /\ CallsType
  BY TypeParts
<1>1. CASE UNCHANGED <<handles, refs, reader>>
  BY <1>1 DEF handles, refs, HandlesType, RefsType, ReaderType
<1>2. ASSUME NEW C \in SUBSET Lent, Release(C), UNCHANGED goRef, UNCHANGED reader
      PROVE  HandlesType' /\ RefsType' /\ ReaderType'
  BY <1>2, ReleaseType DEF ReaderType
<1>3. CASE \E v \in Vm : CloseVm(v) \/ Finalize(v)
  BY <1>3, <1>2 DEF CloseVm, Finalize
<1>4. CASE Succeed \/ Fail \/ ConvertPanics \/ Leave
  BY <1>4, <1>2 DEF Succeed, Fail, ConvertPanics, Leave
<1>5. CASE EndLoop
  <2>1. {Top.cb} \in SUBSET Lent
    BY <1>5 DEF EndLoop, InLoop, Lent
  <2>. QED
    BY <1>5, <1>2, <2>1 DEF EndLoop
<1>6. CASE \E c \in LuaOwned, v \in Vm : Create(c, v)
  BY <1>6 DEF Create, Lend, HandlesType, RefsType, ReaderType, Lent
<1>7. CASE \E c \in LuaOwned : Collect(c)
  <2>1. PICK c \in LuaOwned : Collect(c)
    BY <1>7
  <2>2. {c} \in SUBSET Lent
    BY DEF Lent
  <2>. QED
    BY <2>1, <2>2, DropType DEF Collect, refs, RefsType, ReaderType
<1>8. CASE \E c \in LuaOwned : Refer(c)
  BY <1>8 DEF Refer, handles, HandlesType, RefsType, ReaderType
<1>9. CASE EnterBody \/ TakePanics \/ NextItem
  BY <1>9 DEF EnterBody, TakePanics, NextItem, Trampoline, refs, HandlesType, RefsType, ReaderType
<1>10. CASE \E l \in Loop : StartLoop(l)
  BY <1>10 DEF StartLoop, refs, HandlesType, RefsType, ReaderType, Lent
<1>11. CASE \/ \E u \in UserData : ReadHandle(u)
            \/ \E s \in LuaString : ReadAddress(s)
            \/ LookUp \/ CopyBytes
  BY <1>11 DEF ReadHandle, ReadAddress, LookUp, CopyBytes, handles, refs, HandlesType, RefsType,
     ReaderType
<1>12. CASE \/ UNCHANGED vars
            \/ \E v \in Vm : Forget(v)
            \/ \E f \in Function : Invoke(f)
            \/ Panic \/ ItemSucceeds \/ ItemFails
  BY <1>12, <1>1 DEF vars, Forget, Invoke, Panic, ItemSucceeds, ItemFails
<1>. QED
  BY <1>3, <1>4, <1>5, <1>6, <1>7, <1>8, <1>9, <1>10, <1>11, <1>12 DEF Next

LEMMA TypeStep ==
  ASSUME TypeOK, VmsOK, LoopsOK, [Next]_vars
  PROVE  TypeOK'
<1>1. HandlesType' /\ StateType' /\ CallsType' /\ RefsType' /\ ReaderType'
  BY TypeParts, HandlesMove, StateMoves, CallsMove
<1>. QED
  BY <1>1 DEF TypeOK, HandlesType, StateType, CallsType, RefsType, ReaderType

-----------------------------------------------------------------------------
(* The stack, step by step *)

NoOverlap == \A c \in Function : c \notin Loop

LEMMA Disjoint == NoOverlap
  BY CallbacksAssumption DEF NoOverlap, LuaOwned

(* What a call of a Go function, or a loop, keeps while it moves on. *)
Keeps(f) == f.cb = Top.cb /\ f.vm = Top.vm /\ f.fromGo = Top.fromGo

(* How the innermost call of a Go function moves: its frame, the state of    *)
(* its VM wrapper, and what it allocates.                                    *)
LEMMA CallFrame ==
  ASSUME TypeOK, InCall, EnterBody \/ TakePanics \/ Succeed \/ Fail \/ ConvertPanics \/ Panic
  PROVE  \E f \in Frame :
           /\ Replaced(f) /\ Keeps(f)
           /\ f.bad = Top.bad /\ f.err = Top.err /\ f.seen = Top.seen /\ f.stop = Top.stop
           /\ \/ /\ Top.pc = "enter" /\ f.pc = "body" /\ alloc' = alloc
                 /\ f.values = Top.values /\ f.error = Top.error
                 /\ vm' = [vm EXCEPT ![Top.vm] = "open"]
              \/ /\ Top.pc \in {"enter", "body"} /\ f.pc = "rust"
                 /\ f.values = Top.values /\ f.error = TRUE
                 /\ \E A \in SUBSET {Leaked} : alloc' = alloc \cup {<<Len(stack), "error">>} \cup A
                 /\ \/ vm' = [vm EXCEPT ![Top.vm] = "lost"]
                    \/ Top.pc = "body" /\ vm' = [vm EXCEPT ![Top.vm] = "none"]
                    \/ Top.pc = "body" /\ vm' = vm
              \/ /\ Top.pc = "body" /\ f.pc = "rust"
                 /\ f.values = TRUE /\ f.error = Top.error
                 /\ alloc' = alloc \cup {<<Len(stack), "values">>}
                 /\ vm' = [vm EXCEPT ![Top.vm] = "none"]
<1>1. stack \in Seq(Frame) /\ stack # <<>> /\ Top \in Frame /\ CallsType
  BY TypeParts, StackDomain DEF InCall, CallsType
<1>. DEFINE b == [Top EXCEPT !.pc = "body"]
            e == [Top EXCEPT !.pc = "rust", !.error = TRUE]
            v == [Top EXCEPT !.pc = "rust", !.values = TRUE]
<1>2. b \in Frame /\ e \in Frame /\ v \in Frame
  BY <1>1, TopType
<1>3. /\ Keeps(b) /\ b.bad = Top.bad /\ b.err = Top.err /\ b.seen = Top.seen /\ b.stop = Top.stop
      /\ b.pc = "body" /\ b.values = Top.values /\ b.error = Top.error
  BY <1>1 DEF Frame, Keeps
<1>4. /\ Keeps(e) /\ e.bad = Top.bad /\ e.err = Top.err /\ e.seen = Top.seen /\ e.stop = Top.stop
      /\ e.pc = "rust" /\ e.values = Top.values /\ e.error = TRUE
  BY <1>1 DEF Frame, Keeps
<1>5. /\ Keeps(v) /\ v.bad = Top.bad /\ v.err = Top.err /\ v.seen = Top.seen /\ v.stop = Top.stop
      /\ v.pc = "rust" /\ v.values = TRUE /\ v.error = Top.error
  BY <1>1 DEF Frame, Keeps
<1>6. CASE EnterBody
  <2>1. SetTop(b) /\ Top.pc = "enter" /\ alloc' = alloc /\ vm' = [vm EXCEPT ![Top.vm] = "open"]
    BY <1>6 DEF EnterBody
  <2>. HIDE DEF b
  <2>. QED
    BY <2>1, <1>1, <1>2, <1>3, Replace
<1>7. CASE TakePanics \/ Fail \/ ConvertPanics \/ Panic
  <2>1. /\ SetTop(e)
        /\ \E A \in SUBSET {Leaked} : alloc' = alloc \cup {<<Len(stack), "error">>} \cup A
    <3>1. CASE TakePanics \/ Fail \/ Panic
      <4>1. SetTop(e) /\ alloc' = alloc \cup {<<Len(stack), "error">>} \cup {}
        BY <3>1 DEF TakePanics, Fail, Panic, GiveError, At, Depth
      <4>. QED
        BY <4>1
    <3>2. CASE ConvertPanics
      <4>1. SetTop(e) /\ alloc' = alloc \cup {<<Len(stack), "error">>} \cup {Leaked}
        BY <3>2 DEF ConvertPanics, At, Depth
      <4>. QED
        BY <4>1
    <3>. QED
      BY <1>7, <3>1, <3>2
  <2>2. /\ Top.pc \in {"enter", "body"}
        /\ \/ vm' = [vm EXCEPT ![Top.vm] = "lost"]
           \/ Top.pc = "body" /\ vm' = [vm EXCEPT ![Top.vm] = "none"]
           \/ Top.pc = "body" /\ vm' = vm
    BY <1>7 DEF TakePanics, Fail, ConvertPanics, Panic, Free, InBody, state
  <2>. HIDE DEF e
  <2>. QED
    BY <2>1, <2>2, <1>1, <1>2, <1>4, Replace
<1>8. CASE Succeed
  <2>1. /\ SetTop(v) /\ Top.pc = "body" /\ vm' = [vm EXCEPT ![Top.vm] = "none"]
        /\ alloc' = alloc \cup {<<Len(stack), "values">>}
    BY <1>8 DEF Succeed, Free, InBody, At, Depth
  <2>. HIDE DEF v
  <2>. QED
    BY <2>1, <1>1, <1>2, <1>5, Replace
<1>. QED
  BY <1>6, <1>7, <1>8

(* How the innermost loop moves. *)
LEMMA LoopFrame ==
  ASSUME TypeOK, LoopsOK, NextItem \/ ItemSucceeds \/ ItemFails
  PROVE  /\ InLoop /\ UNCHANGED <<state, alloc>>
         /\ \E f \in Frame :
              /\ Replaced(f) /\ Keeps(f)
              /\ \/ /\ ~Top.stop /\ f.pc = "body" /\ f.seen = Top.seen + 1
                    /\ f.bad = Top.bad /\ f.err = Top.err /\ f.stop = Top.stop
                 \/ /\ Top.pc = "body" /\ f.pc = "enter" /\ f.seen = Top.seen
                    /\ f.bad = Top.bad /\ f.err = Top.err /\ f.stop = Top.stop
                 \/ /\ Top.pc = "body" /\ f.pc = "enter" /\ f.seen = Top.seen
                    /\ f.bad = Top.bad \cup {Top.seen} /\ f.err = Top.seen /\ f.stop = TRUE
<1>1. InLoop /\ UNCHANGED <<state, alloc>>
  BY DEF NextItem, ItemSucceeds, ItemFails
<1>2. stack \in Seq(Frame) /\ stack # <<>> /\ Top \in Frame /\ CallsType
  BY <1>1, TypeParts, StackDomain DEF InLoop, CallsType
<1>3. Top.pc = "body" => Top.seen > 0
  BY <1>1, <1>2, StackDomain DEF LoopsOK, IsLoop, InLoop
<1>. DEFINE n == [Top EXCEPT !.pc = "body", !.seen = @ + 1]
            s == [Top EXCEPT !.pc = "enter"]
            e == [Top EXCEPT !.pc = "enter", !.err = Top.seen, !.stop = TRUE,
                             !.bad = @ \cup {Top.seen}]
<1>4. /\ Keeps(n) /\ n.pc = "body" /\ n.seen = Top.seen + 1
      /\ n.bad = Top.bad /\ n.err = Top.err /\ n.stop = Top.stop
  BY <1>2 DEF Frame, Keeps
<1>5. /\ Keeps(s) /\ s.pc = "enter" /\ s.seen = Top.seen
      /\ s.bad = Top.bad /\ s.err = Top.err /\ s.stop = Top.stop
  BY <1>2 DEF Frame, Keeps
<1>6. /\ Keeps(e) /\ e.pc = "enter" /\ e.seen = Top.seen
      /\ e.bad = Top.bad \cup {Top.seen} /\ e.err = Top.seen /\ e.stop = TRUE
  BY <1>2 DEF Frame, Keeps
<1>7. CASE NextItem
  <2>1. SetTop(n) /\ Top.seen < MaxItems /\ ~Top.stop
    BY <1>7 DEF NextItem
  <2>2. n \in Frame
    BY <1>2, <2>1, TopType
  <2>. HIDE DEF n
  <2>. QED
    BY <2>1, <2>2, <1>1, <1>2, <1>4, Replace
<1>8. CASE ItemSucceeds
  <2>1. SetTop(s) /\ Top.pc = "body"
    BY <1>8 DEF ItemSucceeds, InBody
  <2>2. s \in Frame
    BY <1>2, TopType
  <2>. HIDE DEF s
  <2>. QED
    BY <2>1, <2>2, <1>1, <1>2, <1>5, Replace
<1>9. CASE ItemFails
  <2>1. SetTop(e) /\ Top.pc = "body"
    BY <1>9 DEF ItemFails, InBody
  <2>2. e \in Frame
    BY <1>2, <1>3, <2>1, TopType
  <2>. HIDE DEF e
  <2>. QED
    BY <2>1, <2>2, <1>1, <1>2, <1>6, Replace
<1>. QED
  BY <1>7, <1>8, <1>9

(* The steps that leave the stack alone do not wrap a callback's VM either. *)
LEMMA StackStays ==
  ASSUME TypeOK, StackOK, UNCHANGED calls,
         \A v \in CallbackVm : vm'[v] = "raw" <=> vm[v] = "raw"
  PROVE  StackOK'
<1>1. BodiesBelow' /\ AllocOK' /\ LoopsOK'
  BY DEF StackOK, BodiesBelow, AllocOK, LoopsOK, calls, IsCall, IsLoop
<1>2. VmsOK'
  BY DEF StackOK, VmsOK, calls, IsCall
<1>. QED
  BY <1>1, <1>2 DEF StackOK

LEMMA CallStack ==
  ASSUME TypeOK, StackOK, InCall, EnterBody \/ TakePanics \/ Succeed \/ Fail \/ ConvertPanics \/ Panic
  PROVE  StackOK'
<1>1. PICK f \in Frame :
        /\ Replaced(f) /\ Keeps(f)
        /\ f.bad = Top.bad /\ f.err = Top.err /\ f.seen = Top.seen /\ f.stop = Top.stop
        /\ \/ /\ Top.pc = "enter" /\ f.pc = "body" /\ alloc' = alloc
              /\ f.values = Top.values /\ f.error = Top.error
              /\ vm' = [vm EXCEPT ![Top.vm] = "open"]
           \/ /\ Top.pc \in {"enter", "body"} /\ f.pc = "rust"
              /\ f.values = Top.values /\ f.error = TRUE
              /\ \E A \in SUBSET {Leaked} : alloc' = alloc \cup {<<Len(stack), "error">>} \cup A
              /\ \/ vm' = [vm EXCEPT ![Top.vm] = "lost"]
                 \/ Top.pc = "body" /\ vm' = [vm EXCEPT ![Top.vm] = "none"]
                 \/ Top.pc = "body" /\ vm' = vm
           \/ /\ Top.pc = "body" /\ f.pc = "rust"
              /\ f.values = TRUE /\ f.error = Top.error
              /\ alloc' = alloc \cup {<<Len(stack), "values">>}
              /\ vm' = [vm EXCEPT ![Top.vm] = "none"]
  BY CallFrame
<1>2. PICK n : n = Len(stack)
  OBVIOUS
<1>3. /\ n \in Nat /\ n > 0 /\ DOMAIN stack = 1 .. n /\ DOMAIN stack' = 1 .. n
      /\ Len(stack') = n /\ stack'[n] = f /\ stack[n] = Top
      /\ \A d \in 1 .. n : d # n => stack'[d] = stack[d]
      /\ vm \in [Vm -> {"none", "raw", "open", "lost"}]
      /\ Top.cb \in Function /\ f.cb = Top.cb /\ f.vm = Top.vm
  BY <1>1, <1>2, StackDomain DEF TypeOK, InCall, Replaced, Keeps
<1>4. Top.vm \in CallbackVm /\ Top.vm \in Vm
  BY <1>3 DEF StackOK, VmsOK, IsCall, Vm
<1>5. BodiesBelow'
  BY <1>2, <1>3 DEF StackOK, BodiesBelow
<1>6. VmsOK'
  <2>1. \A d, e \in DOMAIN stack' :
          IsCall(stack'[d]) /\ IsCall(stack'[e]) /\ stack'[d].vm = stack'[e].vm => d = e
    BY <1>3 DEF StackOK, VmsOK, IsCall
  <2>2. ASSUME NEW d \in 1 .. n, d # n, IsCall(stack[d])
        PROVE  /\ stack'[d] = stack[d] /\ stack[d].vm \in CallbackVm
               /\ vm'[stack[d].vm] = vm[stack[d].vm]
    <3>1. stack[d].vm # Top.vm /\ stack[d].vm \in CallbackVm
      BY <1>3, <2>2 DEF StackOK, VmsOK, IsCall
    <3>2. \/ vm' = vm
          \/ \E s \in {"open", "lost", "none"} : vm' = [vm EXCEPT ![Top.vm] = s]
      BY <1>1
    <3>3. \A v \in Vm : v # Top.vm => vm'[v] = vm[v]
      BY <1>3, <3>2
    <3>. QED
      BY <1>3, <2>2, <3>1, <3>3 DEF Vm
  <2>3. f.pc # "enter" /\ vm'[f.vm] # "raw"
    <3>1. Top.pc = "enter" <=> vm[Top.vm] = "raw"
      BY <1>3 DEF StackOK, VmsOK, IsCall
    <3>. QED
      BY <1>1, <1>3, <1>4, <3>1
  <2>4. ASSUME NEW d \in 1 .. n, IsCall(stack'[d])
        PROVE  /\ stack'[d].vm \in CallbackVm
               /\ stack'[d].pc = "enter" <=> vm'[stack'[d].vm] = "raw"
    <3>1. CASE d = n
      BY <1>3, <1>4, <2>3, <3>1
    <3>2. CASE d # n
      <4>1. stack[d].pc = "enter" <=> vm[stack[d].vm] = "raw"
        BY <1>3, <2>4, <3>2 DEF StackOK, VmsOK, IsCall
      <4>. QED
        BY <1>3, <2>2, <2>4, <3>2, <4>1 DEF IsCall
    <3>. QED
      BY <3>1, <3>2
  <2>. QED
    BY <1>3, <2>1, <2>4 DEF VmsOK, IsCall
<1>7. AllocOK'
  <2>1. \A x \in alloc : x # Leaked => x[1] \in 1 .. n /\ stack[x[1]].cb \in Function
    BY <1>3 DEF StackOK, AllocOK, IsCall
  <2>2. \A x \in alloc' : x # Leaked => x[1] \in 1 .. n /\ stack'[x[1]].cb \in Function
    <3>1. \A x \in alloc' : x \in alloc \cup {Leaked} \/ x[1] = n
      BY <1>1, <1>2
    <3>. QED
      BY <1>3, <2>1, <3>1
  <2>3. /\ <<n, "data">> \in alloc /\ <<n, "args">> \in alloc
        /\ Top.values <=> <<n, "values">> \in alloc
        /\ Top.error <=> <<n, "error">> \in alloc
        /\ Top.pc # "rust" => ~Top.values /\ ~Top.error
    BY <1>3 DEF StackOK, AllocOK, IsCall
  <2>4. /\ <<n, "data">> \in alloc' /\ <<n, "args">> \in alloc'
        /\ f.values <=> <<n, "values">> \in alloc'
        /\ f.error <=> <<n, "error">> \in alloc'
        /\ f.pc = "rust" => f.values # f.error
        /\ f.pc # "rust" => ~f.values /\ ~f.error
    <3>1. CASE alloc' = alloc
      BY <1>1, <1>2, <2>3, <3>1
    <3>2. CASE alloc' # alloc
      BY <1>1, <1>2, <1>3, <2>3, <3>2 DEF Leaked
    <3>. QED
      BY <3>1, <3>2
  <2>5. ASSUME NEW d \in 1 .. n, d # n
        PROVE  \A k : <<d, k>> \in alloc' <=> <<d, k>> \in alloc
    BY <1>1, <1>2, <2>5 DEF Leaked
  <2>6. ASSUME NEW d \in 1 .. n, stack'[d].cb \in Function
        PROVE  /\ <<d, "data">> \in alloc' /\ <<d, "args">> \in alloc'
               /\ stack'[d].values <=> <<d, "values">> \in alloc'
               /\ stack'[d].error <=> <<d, "error">> \in alloc'
               /\ stack'[d].pc = "rust" => stack'[d].values # stack'[d].error
               /\ stack'[d].pc # "rust" => ~stack'[d].values /\ ~stack'[d].error
    <3>1. CASE d = n
      BY <1>3, <2>4, <3>1
    <3>2. CASE d # n
      <4>1. /\ <<d, "data">> \in alloc /\ <<d, "args">> \in alloc
            /\ stack[d].values <=> <<d, "values">> \in alloc
            /\ stack[d].error <=> <<d, "error">> \in alloc
            /\ stack[d].pc = "rust" => stack[d].values # stack[d].error
            /\ stack[d].pc # "rust" => ~stack[d].values /\ ~stack[d].error
        BY <1>3, <2>6, <3>2 DEF StackOK, AllocOK, IsCall
      <4>. QED
        BY <1>3, <2>5, <3>2, <4>1
    <3>. QED
      BY <3>1, <3>2
  <2>. QED
    BY <1>3, <2>2, <2>6 DEF AllocOK, IsCall
<1>8. LoopsOK'
  <2>1. Top.cb \notin Loop
    BY <1>3, Disjoint DEF NoOverlap
  <2>2. ASSUME NEW d \in 1 .. n
        PROVE  /\ stack'[d].bad # {} => /\ stack'[d].bad = {stack'[d].err}
                                        /\ stack'[d].seen = stack'[d].err
                                        /\ stack'[d].stop
               /\ stack'[d].cb \in Loop /\ stack'[d].pc = "body" =>
                    ~stack'[d].stop /\ stack'[d].seen > 0
    <3>1. CASE d = n
      <4>1. Top.bad # {} => Top.bad = {Top.err} /\ Top.seen = Top.err /\ Top.stop
        BY <1>3 DEF StackOK, LoopsOK
      <4>. QED
        BY <1>1, <1>3, <2>1, <3>1, <4>1
    <3>2. CASE d # n
      BY <1>3, <3>2 DEF StackOK, LoopsOK, IsLoop
    <3>. QED
      BY <3>1, <3>2
  <2>. QED
    BY <1>3, <2>2 DEF LoopsOK, IsLoop
<1>. QED
  BY <1>5, <1>6, <1>7, <1>8 DEF StackOK

LEMMA LoopStack ==
  ASSUME TypeOK, StackOK, NextItem \/ ItemSucceeds \/ ItemFails
  PROVE  StackOK'
<1>1. /\ InLoop /\ UNCHANGED <<state, alloc>>
      /\ \E f \in Frame :
           /\ Replaced(f) /\ Keeps(f)
           /\ \/ /\ ~Top.stop /\ f.pc = "body" /\ f.seen = Top.seen + 1
                 /\ f.bad = Top.bad /\ f.err = Top.err /\ f.stop = Top.stop
              \/ /\ Top.pc = "body" /\ f.pc = "enter" /\ f.seen = Top.seen
                 /\ f.bad = Top.bad /\ f.err = Top.err /\ f.stop = Top.stop
              \/ /\ Top.pc = "body" /\ f.pc = "enter" /\ f.seen = Top.seen
                 /\ f.bad = Top.bad \cup {Top.seen} /\ f.err = Top.seen /\ f.stop = TRUE
  BY LoopFrame DEF StackOK
<1>2. PICK f \in Frame :
        /\ Replaced(f) /\ Keeps(f)
        /\ \/ /\ ~Top.stop /\ f.pc = "body" /\ f.seen = Top.seen + 1
              /\ f.bad = Top.bad /\ f.err = Top.err /\ f.stop = Top.stop
           \/ /\ Top.pc = "body" /\ f.pc = "enter" /\ f.seen = Top.seen
              /\ f.bad = Top.bad /\ f.err = Top.err /\ f.stop = Top.stop
           \/ /\ Top.pc = "body" /\ f.pc = "enter" /\ f.seen = Top.seen
              /\ f.bad = Top.bad \cup {Top.seen} /\ f.err = Top.seen /\ f.stop = TRUE
  BY <1>1
<1>3. PICK n : n = Len(stack)
  OBVIOUS
<1>4. /\ n \in Nat /\ n > 0 /\ DOMAIN stack = 1 .. n /\ DOMAIN stack' = 1 .. n
      /\ Len(stack') = n /\ stack'[n] = f /\ stack[n] = Top
      /\ \A d \in 1 .. n : d # n => stack'[d] = stack[d]
      /\ Top.cb \in Loop /\ f.cb = Top.cb /\ Top \in Frame
      /\ vm' = vm /\ alloc' = alloc
  BY <1>1, <1>2, <1>3, StackDomain DEF TypeOK, InLoop, Replaced, Keeps, state
<1>5. Top.cb \notin Function
  BY <1>4, Disjoint DEF NoOverlap
<1>6. BodiesBelow'
  BY <1>3, <1>4 DEF StackOK, BodiesBelow
<1>7. VmsOK'
  BY <1>4, <1>5 DEF StackOK, VmsOK, IsCall
<1>8. AllocOK'
  BY <1>4, <1>5 DEF StackOK, AllocOK, IsCall
<1>9. LoopsOK'
  <2>1. /\ Top.bad # {} => Top.bad = {Top.err} /\ Top.seen = Top.err /\ Top.stop
        /\ Top.pc = "body" => ~Top.stop /\ Top.seen > 0
        /\ Top.seen \in Nat
    BY <1>4, CallbacksAssumption DEF StackOK, LoopsOK, IsLoop, Frame
  <2>2. /\ f.bad # {} => f.bad = {f.err} /\ f.seen = f.err /\ f.stop
        /\ f.pc = "body" => ~f.stop /\ f.seen > 0
    BY <1>2, <2>1
  <2>3. ASSUME NEW d \in 1 .. n
        PROVE  /\ stack'[d].bad # {} => /\ stack'[d].bad = {stack'[d].err}
                                        /\ stack'[d].seen = stack'[d].err
                                        /\ stack'[d].stop
               /\ stack'[d].cb \in Loop /\ stack'[d].pc = "body" =>
                    ~stack'[d].stop /\ stack'[d].seen > 0
    <3>1. CASE d = n
      BY <1>4, <2>2, <3>1
    <3>2. CASE d # n
      BY <1>4, <3>2 DEF StackOK, LoopsOK, IsLoop
    <3>. QED
      BY <3>1, <3>2
  <2>. QED
    BY <1>4, <2>3 DEF LoopsOK, IsLoop
<1>. QED
  BY <1>6, <1>7, <1>8, <1>9 DEF StackOK

(* A new call or loop. *)
LEMMA PushStack ==
  ASSUME TypeOK, StackOK, InGo, NEW c \in Function \cup Loop, NEW g \in BOOLEAN,
         NEW w \in CallbackVm \cup {None}, Depth < MaxDepth, PushFrame(NewFrame(c, g, w)),
         \/ /\ c \in Loop /\ UNCHANGED <<vm, alloc>>
         \/ /\ c \in Function /\ w \in CallbackVm
            /\ vm[w] = "none" /\ vm' = [vm EXCEPT ![w] = "raw"]
            /\ \A d \in DOMAIN stack : stack[d].vm # w
            /\ alloc' = alloc \cup ({Depth + 1} \X {"data", "args"})
  PROVE  StackOK'
<1>1. PICK f \in Frame : f = NewFrame(c, g, w)
  BY NewFrameType
<1>2. PICK n : n = Len(stack)
  OBVIOUS
<1>3. PICK m : m = n + 1
  OBVIOUS
<1>4. /\ n \in Nat /\ DOMAIN stack = 1 .. n /\ m \in Nat /\ m = n + 1 /\ m \notin 1 .. n
  BY <1>2, <1>3, StackDomain DEF TypeOK
<1>5. /\ DOMAIN stack' = 1 .. m /\ Len(stack') = m /\ stack'[m] = f
      /\ \A d \in 1 .. n : stack'[d] = stack[d]
      /\ vm \in [Vm -> {"none", "raw", "open", "lost"}]
  BY <1>1, <1>2, <1>3, Push DEF TypeOK, Pushed
<1>6. \A d \in 1 .. m : d = m \/ d \in 1 .. n
  BY <1>4
<1>7. /\ f.cb = c /\ f.vm = w /\ f.pc = "enter" /\ f.values = FALSE /\ f.error = FALSE
      /\ f.bad = {}
  BY <1>1 DEF NewFrame
<1>8. BodiesBelow'
  <2>1. n > 0 => stack[n].pc = "body"
    BY <1>2, <1>4, StackDomain DEF InGo, InBody, TypeOK
  <2>2. \A d \in 1 .. n : stack[d].pc = "body"
    BY <1>2, <1>4, <2>1 DEF StackOK, BodiesBelow
  <2>. QED
    BY <1>4, <1>5, <2>2 DEF BodiesBelow
<1>9. /\ \A d \in 1 .. n : stack[d].cb \in Function =>
           /\ stack[d].vm \in CallbackVm
           /\ stack[d].pc = "enter" <=> vm[stack[d].vm] = "raw"
      /\ \A d, e \in 1 .. n :
           stack[d].cb \in Function /\ stack[e].cb \in Function /\ stack[d].vm = stack[e].vm => d = e
  BY <1>4 DEF StackOK, VmsOK, IsCall
<1>10. /\ \A x \in alloc : x # Leaked => x[1] \in 1 .. n /\ stack[x[1]].cb \in Function
       /\ \A d \in 1 .. n : stack[d].cb \in Function =>
            /\ <<d, "data">> \in alloc /\ <<d, "args">> \in alloc
            /\ stack[d].values <=> <<d, "values">> \in alloc
            /\ stack[d].error <=> <<d, "error">> \in alloc
            /\ stack[d].pc = "rust" => stack[d].values # stack[d].error
            /\ stack[d].pc # "rust" => ~stack[d].values /\ ~stack[d].error
  BY <1>4 DEF StackOK, AllocOK, IsCall
<1>11. LoopsOK'
  <2>1. \A d \in 1 .. n :
          /\ stack[d].bad # {} => /\ stack[d].bad = {stack[d].err}
                                  /\ stack[d].seen = stack[d].err
                                  /\ stack[d].stop
          /\ IsLoop(stack[d]) /\ stack[d].pc = "body" => ~stack[d].stop /\ stack[d].seen > 0
    BY <1>4 DEF StackOK, LoopsOK
  <2>. QED
    BY <1>5, <1>6, <1>7, <2>1 DEF LoopsOK, IsLoop
<1>12. CASE c \in Loop /\ UNCHANGED <<vm, alloc>>
  <2>1. f.cb \notin Function
    BY <1>7, <1>12, Disjoint DEF NoOverlap
  <2>2. VmsOK'
    BY <1>5, <1>6, <1>9, <1>12, <2>1 DEF VmsOK, IsCall
  <2>3. AllocOK'
    BY <1>4, <1>5, <1>6, <1>10, <1>12, <2>1 DEF AllocOK, IsCall
  <2>. QED
    BY <1>8, <1>11, <2>2, <2>3 DEF StackOK
<1>13. CASE /\ c \in Function /\ w \in CallbackVm
            /\ vm[w] = "none" /\ vm' = [vm EXCEPT ![w] = "raw"]
            /\ \A d \in DOMAIN stack : stack[d].vm # w
            /\ alloc' = alloc \cup ({Depth + 1} \X {"data", "args"})
  <2>1. /\ vm'[w] = "raw" /\ \A v \in CallbackVm : v # w => vm'[v] = vm[v]
        /\ alloc' = alloc \cup {<<m, "data">>, <<m, "args">>}
    BY <1>2, <1>3, <1>5, <1>13 DEF Vm, Depth
  <2>2. \A d \in 1 .. n : stack'[d].vm # w
    BY <1>4, <1>5, <1>13
  <2>3. VmsOK'
    <3>1. ASSUME NEW d \in 1 .. m, stack'[d].cb \in Function
          PROVE  /\ stack'[d].vm \in CallbackVm
                 /\ stack'[d].pc = "enter" <=> vm'[stack'[d].vm] = "raw"
      BY <1>5, <1>6, <1>7, <1>9, <1>13, <2>1, <2>2, <3>1
    <3>2. ASSUME NEW d \in 1 .. m, NEW e \in 1 .. m,
                 stack'[d].cb \in Function, stack'[e].cb \in Function, stack'[d].vm = stack'[e].vm
          PROVE  d = e
      BY <1>5, <1>6, <1>7, <1>9, <2>2, <3>2
    <3>. QED
      BY <1>5, <3>1, <3>2 DEF VmsOK, IsCall
  <2>4. AllocOK'
    <3>1. \A x \in alloc' : x # Leaked => x[1] \in 1 .. m /\ stack'[x[1]].cb \in Function
      <4>1. \A x \in alloc' : x \in alloc \cup {Leaked} \/ x[1] = m
        BY <2>1
      <4>2. \A d \in 1 .. n : d \in 1 .. m
        BY <1>4
      <4>3. m \in 1 .. m
        BY <1>4
      <4>. QED
        BY <1>5, <1>7, <1>10, <1>13, <4>1, <4>2, <4>3
    <3>2. \A k : <<m, k>> \notin alloc
      BY <1>4, <1>10 DEF Leaked
    <3>3. \A d \in 1 .. n : \A k : <<d, k>> \in alloc' <=> <<d, k>> \in alloc
      BY <1>4, <2>1
    <3>4. ASSUME NEW d \in 1 .. m, stack'[d].cb \in Function
          PROVE  /\ <<d, "data">> \in alloc' /\ <<d, "args">> \in alloc'
                 /\ stack'[d].values <=> <<d, "values">> \in alloc'
                 /\ stack'[d].error <=> <<d, "error">> \in alloc'
                 /\ stack'[d].pc = "rust" => stack'[d].values # stack'[d].error
                 /\ stack'[d].pc # "rust" => ~stack'[d].values /\ ~stack'[d].error
      <4>1. CASE d = m
        BY <1>5, <1>7, <2>1, <3>2, <4>1
      <4>2. CASE d \in 1 .. n
        BY <1>5, <1>10, <3>3, <3>4, <4>2
      <4>. QED
        BY <1>6, <4>1, <4>2
    <3>. QED
      BY <1>5, <3>1, <3>4 DEF AllocOK, IsCall
  <2>. QED
    BY <1>8, <1>11, <2>3, <2>4 DEF StackOK
<1>. QED
  BY <1>12, <1>13

(* The innermost call or loop returns, and takes back what was allocated for *)
(* it.                                                                       *)
LEMMA PopStack ==
  ASSUME TypeOK, StackOK, Leave \/ EndLoop
  PROVE  StackOK' /\ Popped
<1>1. /\ stack # <<>> /\ PopFrame /\ vm' = vm /\ stack \in Seq(Frame)
      /\ alloc' \subseteq alloc
      /\ alloc \subseteq (0 .. MaxDepth) \X {"data", "args", "values", "error"}
  BY DEF Leave, EndLoop, InCall, InLoop, state, TypeOK
<1>2. Popped
  BY <1>1, PopIt
<1>3. PICK n : n = Len(stack)
  OBVIOUS
<1>4. PICK m : m = n - 1
  OBVIOUS
<1>5. /\ n \in Nat /\ n > 0 /\ m \in Nat /\ DOMAIN stack = 1 .. n /\ DOMAIN stack' = 1 .. m
      /\ Len(stack') = m /\ stack[n] = Top /\ m = n - 1
      /\ \A d \in 1 .. m : stack'[d] = stack[d]
  BY <1>1, <1>2, <1>3, <1>4, StackDomain DEF Popped
<1>6. \A d \in 1 .. m : d \in 1 .. n /\ d # n
  BY <1>5
<1>7. \A d \in 1 .. n : d # n => d \in 1 .. m
  BY <1>5
<1>8. BodiesBelow' /\ VmsOK' /\ LoopsOK'
  <2>1. BodiesBelow'
    <3>1. \A d \in 1 .. m : d \in 1 .. n /\ d < n
      BY <1>5
    <3>2. \A d \in 1 .. m : stack[d].pc = "body"
      BY <1>3, <1>5, <3>1 DEF StackOK, BodiesBelow
    <3>. QED
      BY <1>5, <3>2 DEF BodiesBelow
  <2>2. VmsOK'
    BY <1>1, <1>5, <1>6 DEF StackOK, VmsOK, IsCall
  <2>3. LoopsOK'
    BY <1>5, <1>6 DEF StackOK, LoopsOK, IsLoop
  <2>. QED
    BY <2>1, <2>2, <2>3
<1>9. /\ \A x \in alloc : x # Leaked => x[1] \in 1 .. n /\ stack[x[1]].cb \in Function
      /\ \A d \in 1 .. n : stack[d].cb \in Function =>
           /\ <<d, "data">> \in alloc /\ <<d, "args">> \in alloc
           /\ stack[d].values <=> <<d, "values">> \in alloc
           /\ stack[d].error <=> <<d, "error">> \in alloc
           /\ stack[d].pc = "rust" => stack[d].values # stack[d].error
           /\ stack[d].pc # "rust" => ~stack[d].values /\ ~stack[d].error
  BY <1>5 DEF StackOK, AllocOK, IsCall
<1>10. \A d \in 1 .. m : \A k : <<d, k>> \in alloc' <=> <<d, k>> \in alloc
  <2>1. CASE Leave
    BY <1>3, <1>6, <2>1 DEF Leave, At, Depth
  <2>2. CASE EndLoop
    BY <2>2 DEF EndLoop
  <2>. QED
    BY <2>1, <2>2
<1>11. \A x \in alloc' : x # Leaked => x[1] # n
  <2>1. CASE EndLoop
    <3>1. Top.cb \notin Function
      BY <2>1, Disjoint DEF EndLoop, InLoop, NoOverlap
    <3>. QED
      BY <1>1, <1>5, <1>9, <3>1
  <2>2. CASE Leave
    <3>1. Top.cb \in Function
      BY <2>2 DEF Leave, InCall
    <3>2. /\ <<n, "data">> \notin alloc' /\ <<n, "args">> \notin alloc'
          /\ Top.values => <<n, "values">> \notin alloc'
          /\ Top.error => <<n, "error">> \notin alloc'
      BY <1>3, <2>2 DEF Leave, At, Depth
    <3>3. n \in 1 .. n
      BY <1>5
    <3>4. /\ ~Top.values => <<n, "values">> \notin alloc
          /\ ~Top.error => <<n, "error">> \notin alloc
      BY <1>5, <1>9, <3>1, <3>3
    <3>5. \A k \in {"data", "args", "values", "error"} : <<n, k>> \notin alloc'
      BY <1>1, <3>2, <3>4
    <3>6. \A x \in alloc' : /\ x[2] \in {"data", "args", "values", "error"}
                            /\ x = <<x[1], x[2]>>
      BY <1>1
    <3>. QED
      BY <3>5, <3>6
  <2>. QED
    BY <2>1, <2>2
<1>12. AllocOK'
  <2>1. \A x \in alloc' : x # Leaked => x[1] \in 1 .. m /\ stack'[x[1]].cb \in Function
    BY <1>1, <1>5, <1>7, <1>9, <1>11
  <2>2. ASSUME NEW d \in 1 .. m, stack'[d].cb \in Function
        PROVE  /\ <<d, "data">> \in alloc' /\ <<d, "args">> \in alloc'
               /\ stack'[d].values <=> <<d, "values">> \in alloc'
               /\ stack'[d].error <=> <<d, "error">> \in alloc'
               /\ stack'[d].pc = "rust" => stack'[d].values # stack'[d].error
               /\ stack'[d].pc # "rust" => ~stack'[d].values /\ ~stack'[d].error
    BY <1>5, <1>6, <1>9, <1>10, <2>2
  <2>. QED
    BY <1>5, <2>1, <2>2 DEF AllocOK, IsCall
<1>. QED
  BY <1>2, <1>8, <1>12 DEF StackOK

LEMMA StackStep ==
  ASSUME TypeOK, StackOK, [Next]_vars
  PROVE  StackOK'
<1>1. CASE UNCHANGED <<calls, vm>>
  BY <1>1, StackStays
<1>2. CASE \E v \in Vm : CloseVm(v) \/ Finalize(v)
  <2>1. PICK v \in Vm : CloseVm(v) \/ Finalize(v)
    BY <1>2
  <2>2. UNCHANGED calls /\ vm[v] = "open" /\ vm' = [vm EXCEPT ![v] = "none"]
    BY <2>1 DEF CloseVm, Finalize, Usable, Free
  <2>3. \A w \in CallbackVm : vm'[w] = "raw" <=> vm[w] = "raw"
    BY <2>2 DEF TypeOK, Vm
  <2>. QED
    BY <2>2, <2>3, StackStays
<1>3. CASE EnterBody \/ TakePanics \/ Succeed \/ Fail \/ ConvertPanics \/ Panic
  BY <1>3, CallStack DEF EnterBody, TakePanics, Succeed, Fail, ConvertPanics, Panic
<1>4. CASE NextItem \/ ItemSucceeds \/ ItemFails
  BY <1>4, LoopStack
<1>5. CASE Leave \/ EndLoop
  BY <1>5, PopStack
<1>6. CASE \E f \in Function : Invoke(f)
  <2>1. PICK f \in Function : Invoke(f)
    BY <1>6
  <2>2. PICK g \in BOOLEAN, w \in CallbackVm :
          /\ vm[w] = "none" /\ vm' = [vm EXCEPT ![w] = "raw"]
          /\ \A i \in DOMAIN stack : stack[i].vm # w
          /\ PushFrame(NewFrame(f, g, w))
    BY <2>1 DEF Invoke
  <2>3. /\ InGo /\ Depth < MaxDepth
        /\ alloc' = alloc \cup ({Depth + 1} \X {"data", "args"})
    BY <2>1 DEF Invoke
  <2>. QED
    BY <2>2, <2>3, PushStack
<1>7. CASE \E l \in Loop : StartLoop(l)
  <2>1. PICK l \in Loop : StartLoop(l)
    BY <1>7
  <2>2. /\ InGo /\ Depth < MaxDepth /\ PushFrame(NewFrame(l, TRUE, None))
        /\ UNCHANGED <<vm, alloc>>
    BY <2>1 DEF StartLoop, state
  <2>. QED
    BY <2>2, PushStack
<1>8. CASE \/ UNCHANGED vars
           \/ \E v \in Vm : Forget(v)
           \/ \E c \in LuaOwned, v \in Vm : Create(c, v)
           \/ \E c \in LuaOwned : Collect(c) \/ Refer(c)
           \/ \E u \in UserData : ReadHandle(u)
           \/ \E s \in LuaString : ReadAddress(s)
           \/ LookUp \/ CopyBytes
  BY <1>8, <1>1 DEF vars, state, Forget, Create, Collect, Refer, ReadHandle, ReadAddress, LookUp,
     CopyBytes
<1>. QED
  BY <1>2, <1>3, <1>4, <1>5, <1>6, <1>7, <1>8 DEF Next

-----------------------------------------------------------------------------
(* Owners and handles, step by step *)

LEMMA DropOwners ==
  ASSUME HandlesType, HandlesMatchOwners, NEW C \in SUBSET Lent, Drop(C),
         \A c \in C : owner[c] = "alive"
  PROVE  /\ HandlesMatchOwners' /\ misuse' = misuse
         /\ \A c \in Lent : owner'[c] = IF c \in C THEN "dropped" ELSE owner[c]
<1>1. \A c \in C : cgo[c] = "valid"
  BY DEF HandlesMatchOwners
<1>2. misuse' = misuse
  BY <1>1 DEF Drop
<1>3. \A c \in Lent : /\ owner'[c] = IF c \in C THEN "dropped" ELSE owner[c]
                      /\ cgo'[c] = IF c \in C THEN "deleted" ELSE cgo[c]
  BY DEF Drop
<1>. QED
  BY <1>2, <1>3 DEF HandlesMatchOwners

LEMMA ReleaseOwners ==
  ASSUME HandlesType, HandlesMatchOwners, NEW C \in SUBSET Lent, Release(C),
         \A c \in C : owner[c] = "alive"
  PROVE  /\ HandlesMatchOwners' /\ misuse' = misuse
         /\ \A c \in Lent : owner'[c] = "alive" => owner[c] = "alive" /\ c \notin C
         /\ stack' # <<>> => \A c \in Lent : c \notin C => owner'[c] = owner[c]
         /\ StateOwns'
<1>1. CASE (stack' # <<>> \/ \E v \in Vm : vm'[v] # "none") /\ Drop(C)
  <2>1. Alive'
    BY <1>1 DEF Alive
  <2>. QED
    BY <1>1, <2>1, DropOwners DEF StateOwns
<1>2. CASE /\ ~(stack' # <<>> \/ \E v \in Vm : vm'[v] # "none")
           /\ Drop(C \cup Owned)
  <2>1. PICK D \in SUBSET Lent : D = C \cup Owned
    BY DEF Owned, Lent
  <2>2. \A c \in D : owner[c] = "alive"
    BY <2>1 DEF Owned
  <2>3. /\ HandlesMatchOwners' /\ misuse' = misuse
        /\ \A c \in Lent : owner'[c] = IF c \in D THEN "dropped" ELSE owner[c]
    BY <1>2, <2>1, <2>2, DropOwners
  <2>4. \A c \in LuaOwned : owner'[c] # "alive"
    BY <2>1, <2>3 DEF Owned, Lent
  <2>5. StateOwns'
    BY <2>4 DEF StateOwns, Owned
  <2>. QED
    BY <1>2, <2>1, <2>3, <2>5
<1>. QED
  BY <1>1, <1>2 DEF Release

(* The calls and loops in progress stay the same ones. *)
SameCalls == /\ DOMAIN stack' = DOMAIN stack
             /\ \A d \in DOMAIN stack : stack'[d].cb = stack[d].cb

LEMMA CbsTyped ==
  ASSUME stack \in Seq(Frame)
  PROVE  \A d \in DOMAIN stack : stack[d].cb \in Lent
  BY StackDomain DEF Frame, Lent, LuaOwned

LEMMA ReplacedSame ==
  ASSUME stack \in Seq(Frame), stack # <<>>, NEW f, Replaced(f), Keeps(f)
  PROVE  SameCalls /\ stack' # <<>>
<1>1. /\ Len(stack) \in Nat /\ Len(stack) > 0 /\ DOMAIN stack = 1 .. Len(stack)
      /\ Top = stack[Len(stack)]
  BY StackDomain
<1>2. SameCalls
  BY <1>1 DEF Replaced, Keeps, SameCalls
<1>3. DOMAIN stack' = DOMAIN stack /\ Len(stack) \in DOMAIN stack
  BY <1>1, StackDomain DEF Replaced
<1>. QED
  BY <1>2, <1>3

(* A step that drops nothing. *)
LEMMA OwnersStay ==
  ASSUME OwnersOK, UNCHANGED <<cgo, owner>>, misuse' \cap {"call", "drop"} = {},
         SameCalls, Alive => Alive'
  PROVE  OwnersOK'
<1>1. HandlesMatchOwners' /\ TrampolinesSafe'
  BY DEF OwnersOK, HandlesMatchOwners, TrampolinesSafe
<1>2. FramesOwned' /\ LoopsOnce' /\ LoopsOwned'
  BY DEF OwnersOK, FramesOwned, LoopsOnce, LoopsOwned, SameCalls, IsLoop
<1>3. StateOwns'
  BY DEF OwnersOK, StateOwns, Owned
<1>. QED
  BY <1>1, <1>2, <1>3 DEF OwnersOK

(* A step that lets go of a VM wrapper while the same calls go on. *)
LEMMA OwnersRelease ==
  ASSUME TypeOK, OwnersOK, SameCalls, Release({})
  PROVE  OwnersOK'
<1>1. HandlesType /\ HandlesMatchOwners /\ TrampolinesSafe
  BY TypeParts DEF OwnersOK
<1>2. /\ HandlesMatchOwners' /\ misuse' = misuse
      /\ \A c \in Lent : owner'[c] = "alive" => owner[c] = "alive"
      /\ stack' # <<>> => \A c \in Lent : owner'[c] = owner[c]
      /\ StateOwns'
  BY <1>1, ReleaseOwners
<1>3. TrampolinesSafe'
  BY <1>1, <1>2 DEF TrampolinesSafe
<1>4. FramesOwned'
  <2>1. ASSUME NEW d \in DOMAIN stack'
        PROVE  owner'[stack'[d].cb] = "alive"
    <3>1. stack' # <<>>
      BY <2>1
    <3>2. stack'[d].cb = stack[d].cb /\ d \in DOMAIN stack
      BY DEF SameCalls
    <3>3. stack[d].cb \in Lent /\ owner[stack[d].cb] = "alive"
      BY <3>2, CbsTyped DEF TypeOK, OwnersOK, FramesOwned
    <3>. QED
      BY <1>2, <3>1, <3>2, <3>3
  <2>. QED
    BY <2>1 DEF FramesOwned
<1>5. LoopsOnce'
  BY DEF OwnersOK, LoopsOnce, SameCalls, IsLoop
<1>6. LoopsOwned'
  BY <1>2 DEF OwnersOK, LoopsOwned, SameCalls, Lent
<1>. QED
  BY <1>2, <1>3, <1>4, <1>5, <1>6 DEF OwnersOK

(* A trampoline finds the callback of the innermost call. *)
LEMMA TopFound ==
  ASSUME TypeOK, OwnersOK, stack # <<>>, Trampoline
  PROVE  misuse' = misuse
<1>1. Len(stack) \in DOMAIN stack /\ Top = stack[Len(stack)]
  BY StackDomain DEF TypeOK
<1>2. Top.cb \in Lent /\ owner[Top.cb] = "alive"
  BY <1>1, CbsTyped DEF TypeOK, OwnersOK, FramesOwned
<1>3. cgo[Top.cb] = "valid"
  BY <1>2 DEF OwnersOK, HandlesMatchOwners
<1>. QED
  BY <1>3 DEF Trampoline

(* The innermost call or loop moves. *)
LEMMA TopOwners ==
  ASSUME TypeOK, LoopsOK, OwnersOK,
         \/ EnterBody \/ TakePanics \/ Succeed \/ Fail \/ ConvertPanics \/ Panic
         \/ NextItem \/ ItemSucceeds \/ ItemFails
  PROVE  OwnersOK'
<1>1. stack # <<>> /\ stack \in Seq(Frame)
  BY DEF TypeOK, EnterBody, TakePanics, Succeed, Fail, ConvertPanics, Panic,
     NextItem, ItemSucceeds, ItemFails, InCall, InLoop
<1>2. SameCalls /\ stack' # <<>>
  <2>1. CASE EnterBody \/ TakePanics \/ Succeed \/ Fail \/ ConvertPanics \/ Panic
    <3>1. InCall
      BY <2>1 DEF EnterBody, TakePanics, Succeed, Fail, ConvertPanics, Panic
    <3>2. PICK f \in Frame : Replaced(f) /\ Keeps(f)
      BY <2>1, <3>1, CallFrame
    <3>. QED
      BY <1>1, <3>2, ReplacedSame
  <2>2. CASE NextItem \/ ItemSucceeds \/ ItemFails
    <3>1. PICK f \in Frame : Replaced(f) /\ Keeps(f)
      BY <2>2, LoopFrame
    <3>. QED
      BY <1>1, <3>1, ReplacedSame
  <2>. QED
    BY <2>1, <2>2
<1>3. Alive => Alive'
  BY <1>2 DEF Alive
<1>4. misuse \cap {"call", "drop"} = {}
  BY DEF OwnersOK, TrampolinesSafe
<1>5. CASE EnterBody \/ TakePanics \/ NextItem
  <2>1. Trampoline /\ UNCHANGED <<cgo, owner>>
    BY <1>5 DEF EnterBody, TakePanics, NextItem
  <2>2. misuse' = misuse
    BY <1>1, <2>1, TopFound
  <2>. QED
    BY <1>2, <1>3, <1>4, <2>1, <2>2, OwnersStay
<1>6. CASE Panic \/ ItemSucceeds \/ ItemFails
  <2>1. UNCHANGED <<cgo, owner, misuse>>
    BY <1>6 DEF Panic, ItemSucceeds, ItemFails, handles
  <2>. QED
    BY <1>2, <1>3, <1>4, <2>1, OwnersStay
<1>7. CASE Succeed \/ Fail \/ ConvertPanics
  BY <1>2, <1>7, OwnersRelease DEF Succeed, Fail, ConvertPanics
<1>. QED
  BY <1>5, <1>6, <1>7

LEMMA CreateOwners ==
  ASSUME TypeOK, OwnersOK, NEW c \in LuaOwned, NEW v \in Vm, Create(c, v)
  PROVE  OwnersOK'
<1>1. /\ cgo[c] = "unborn" /\ UNCHANGED <<misuse, vm, stack>> /\ vm[v] = "open"
      /\ c \in Lent /\ c \notin Loop
      /\ HandlesType /\ OwnersOK
  BY TypeParts, CallbacksAssumption DEF Create, Usable, state, calls, Lent
<1>2. owner[c] # "alive"
  BY <1>1 DEF OwnersOK, HandlesMatchOwners
<1>3. /\ HandlesMatchOwners'
      /\ \A b \in Lent : b # c => owner'[b] = owner[b]
  <2>1. \/ cgo' = [cgo EXCEPT ![c] = "valid"] /\ owner' = [owner EXCEPT ![c] = "alive"]
        \/ cgo' = [cgo EXCEPT ![c] = "deleted"] /\ owner' = [owner EXCEPT ![c] = "dropped"]
    BY DEF Create, Lend
  <2>. QED
    BY <1>1, <2>1 DEF HandlesType, OwnersOK, HandlesMatchOwners
<1>4. TrampolinesSafe' /\ LoopsOnce'
  BY <1>1 DEF OwnersOK, TrampolinesSafe, LoopsOnce, IsLoop
<1>5. FramesOwned'
  <2>1. \A d \in DOMAIN stack : stack[d].cb \in Lent /\ stack[d].cb # c
    BY <1>2, CbsTyped DEF TypeOK, OwnersOK, FramesOwned
  <2>. QED
    BY <1>1, <1>3, <2>1 DEF OwnersOK, FramesOwned
<1>6. LoopsOwned'
  BY <1>1, <1>3 DEF OwnersOK, LoopsOwned, Lent
<1>7. StateOwns'
  <2>1. Alive'
    BY <1>1 DEF Alive
  <2>. QED
    BY <2>1 DEF StateOwns
<1>. QED
  BY <1>3, <1>4, <1>5, <1>6, <1>7 DEF OwnersOK

LEMMA CollectOwners ==
  ASSUME TypeOK, OwnersOK, NEW c \in LuaOwned, Collect(c)
  PROVE  OwnersOK'
<1>1. /\ owner[c] = "alive" /\ c \notin Running /\ UNCHANGED <<vm, stack>> /\ Alive /\ Drop({c})
      /\ c \in Lent /\ c \notin Loop
  BY CallbacksAssumption DEF Collect, state, calls, Lent
<1>2. /\ HandlesMatchOwners' /\ misuse' = misuse
      /\ \A b \in Lent : owner'[b] = IF b \in {c} THEN "dropped" ELSE owner[b]
  BY <1>1, TypeParts, DropOwners DEF OwnersOK
<1>3. TrampolinesSafe' /\ LoopsOnce'
  BY <1>1, <1>2 DEF OwnersOK, TrampolinesSafe, LoopsOnce, IsLoop
<1>4. FramesOwned'
  <2>1. \A d \in DOMAIN stack : stack[d].cb \in Lent /\ stack[d].cb # c
    BY <1>1, CbsTyped DEF TypeOK, Running
  <2>. QED
    BY <1>1, <1>2, <2>1 DEF OwnersOK, FramesOwned
<1>5. LoopsOwned'
  BY <1>1, <1>2 DEF OwnersOK, LoopsOwned, Lent
<1>6. StateOwns'
  BY <1>1 DEF StateOwns, Alive
<1>. QED
  BY <1>2, <1>3, <1>4, <1>5, <1>6 DEF OwnersOK

LEMMA InvokeOwners ==
  ASSUME TypeOK, OwnersOK, NEW f \in Function, Invoke(f)
  PROVE  OwnersOK'
<1>1. owner[f] = "alive" /\ UNCHANGED <<cgo, owner, misuse>>
  BY DEF Invoke, handles
<1>2. PICK g \in BOOLEAN, v \in CallbackVm : PushFrame(NewFrame(f, g, v))
  BY DEF Invoke
<1>3. PICK x \in Frame : x = NewFrame(f, g, v)
  BY NewFrameType
<1>4. Pushed(x) /\ x.cb = f /\ f \notin Loop
  BY <1>2, <1>3, Push, Disjoint DEF TypeOK, NewFrame, NoOverlap
<1>5. PICK n : n = Len(stack)
  OBVIOUS
<1>6. PICK m : m = n + 1
  OBVIOUS
<1>7. /\ DOMAIN stack = 1 .. n /\ DOMAIN stack' = 1 .. m /\ m \in 1 .. m
      /\ \A d \in 1 .. n : d \in 1 .. m /\ stack'[d] = stack[d]
      /\ stack'[m] = x /\ \A d \in 1 .. m : d = m \/ d \in 1 .. n
  BY <1>4, <1>5, <1>6, StackDomain DEF TypeOK, Pushed
<1>8. HandlesMatchOwners' /\ TrampolinesSafe'
  BY <1>1 DEF OwnersOK, HandlesMatchOwners, TrampolinesSafe
<1>9. FramesOwned'
  <2>1. \A d \in 1 .. n : owner[stack[d].cb] = "alive"
    BY <1>7 DEF OwnersOK, FramesOwned
  <2>. QED
    BY <1>1, <1>4, <1>7, <2>1 DEF FramesOwned
<1>10. LoopsOnce'
  <2>1. \A d, e \in 1 .. n : stack[d].cb \in Loop /\ stack[d].cb = stack[e].cb => d = e
    BY <1>7 DEF OwnersOK, LoopsOnce, IsLoop
  <2>2. ASSUME NEW d \in 1 .. m, NEW e \in 1 .. m,
               stack'[d].cb \in Loop, stack'[d].cb = stack'[e].cb
        PROVE  d = e
    BY <1>4, <1>7, <2>1, <2>2
  <2>. QED
    BY <1>7, <2>2 DEF LoopsOnce, IsLoop
<1>11. LoopsOwned'
  <2>1. \A l \in Loop : owner[l] = "alive" => \E d \in 1 .. n : stack[d].cb = l
    BY <1>7 DEF OwnersOK, LoopsOwned
  <2>. QED
    BY <1>1, <1>7, <2>1 DEF LoopsOwned
<1>12. StateOwns'
  <2>1. stack' # <<>>
    BY <1>7
  <2>. QED
    BY <2>1 DEF StateOwns, Alive
<1>. QED
  BY <1>8, <1>9, <1>10, <1>11, <1>12 DEF OwnersOK

LEMMA StartLoopOwners ==
  ASSUME TypeOK, OwnersOK, NEW l \in Loop, StartLoop(l)
  PROVE  OwnersOK'
<1>1. /\ cgo[l] = "unborn" /\ UNCHANGED misuse /\ l \in Lent
      /\ cgo' = [cgo EXCEPT ![l] = "valid"] /\ owner' = [owner EXCEPT ![l] = "alive"]
  BY DEF StartLoop, Lent
<1>2. owner[l] # "alive"
  BY <1>1 DEF OwnersOK, HandlesMatchOwners
<1>3. /\ owner'[l] = "alive" /\ \A b \in Lent : b # l => owner'[b] = owner[b]
      /\ HandlesMatchOwners'
  BY <1>1 DEF TypeOK, OwnersOK, HandlesMatchOwners
<1>4. PICK x \in Frame : x = NewFrame(l, TRUE, None)
  BY NewFrameType
<1>5. Pushed(x) /\ x.cb = l
  BY <1>4, Push DEF StartLoop, TypeOK, NewFrame
<1>6. PICK n : n = Len(stack)
  OBVIOUS
<1>7. PICK m : m = n + 1
  OBVIOUS
<1>8. /\ DOMAIN stack = 1 .. n /\ DOMAIN stack' = 1 .. m /\ m \in 1 .. m
      /\ \A d \in 1 .. n : d \in 1 .. m /\ stack'[d] = stack[d]
      /\ stack'[m] = x /\ \A d \in 1 .. m : d = m \/ d \in 1 .. n
  BY <1>5, <1>6, <1>7, StackDomain DEF TypeOK, Pushed
<1>9. \A d \in 1 .. n : /\ owner[stack[d].cb] = "alive"
                        /\ stack[d].cb \in Lent /\ stack[d].cb # l
  BY <1>2, <1>8, CbsTyped DEF TypeOK, OwnersOK, FramesOwned
<1>10. TrampolinesSafe'
  BY <1>1 DEF OwnersOK, TrampolinesSafe
<1>11. FramesOwned'
  BY <1>3, <1>5, <1>8, <1>9 DEF FramesOwned
<1>12. LoopsOnce'
  <2>1. \A d, e \in 1 .. n : stack[d].cb \in Loop /\ stack[d].cb = stack[e].cb => d = e
    BY <1>8 DEF OwnersOK, LoopsOnce, IsLoop
  <2>2. ASSUME NEW d \in 1 .. m, NEW e \in 1 .. m,
               stack'[d].cb \in Loop, stack'[d].cb = stack'[e].cb
        PROVE  d = e
    BY <1>5, <1>8, <1>9, <2>1, <2>2
  <2>. QED
    BY <1>8, <2>2 DEF LoopsOnce, IsLoop
<1>13. LoopsOwned'
  <2>1. \A k \in Loop : owner[k] = "alive" => \E d \in 1 .. n : stack[d].cb = k
    BY <1>8 DEF OwnersOK, LoopsOwned
  <2>2. ASSUME NEW k \in Loop, owner'[k] = "alive"
        PROVE  \E d \in 1 .. m : stack'[d].cb = k
    <3>1. CASE k = l
      BY <1>5, <1>8, <3>1
    <3>2. CASE k # l
      BY <1>3, <1>8, <2>1, <2>2, <3>2 DEF Lent
    <3>. QED
      BY <3>1, <3>2
  <2>. QED
    BY <1>8, <2>2 DEF LoopsOwned
<1>14. StateOwns'
  <2>1. stack' # <<>>
    BY <1>8
  <2>. QED
    BY <2>1 DEF StateOwns, Alive
<1>. QED
  BY <1>3, <1>10, <1>11, <1>12, <1>13, <1>14 DEF OwnersOK

LEMMA PopOwners ==
  ASSUME TypeOK, StackOK, OwnersOK, Leave \/ EndLoop
  PROVE  OwnersOK'
<1>1. /\ Popped /\ stack # <<>> /\ stack \in Seq(Frame)
  BY PopStack DEF Leave, EndLoop, InCall, InLoop, TypeOK
<1>2. PICK n : n = Len(stack)
  OBVIOUS
<1>3. PICK m : m = n - 1
  OBVIOUS
<1>4. /\ n \in Nat /\ n \in 1 .. n /\ DOMAIN stack = 1 .. n /\ DOMAIN stack' = 1 .. m
      /\ stack[n] = Top
      /\ \A d \in 1 .. m : d \in 1 .. n /\ d # n /\ stack'[d] = stack[d]
      /\ \A d \in 1 .. n : d # n => d \in 1 .. m
  BY <1>1, <1>2, <1>3, StackDomain DEF Popped
<1>5. /\ Top.cb \in Lent
      /\ \A d \in 1 .. n : owner[stack[d].cb] = "alive" /\ stack[d].cb \in Lent
      /\ \A d, e \in 1 .. n : stack[d].cb \in Loop /\ stack[d].cb = stack[e].cb => d = e
      /\ \A l \in Loop : owner[l] = "alive" => \E d \in 1 .. n : stack[d].cb = l
  BY <1>1, <1>4, CbsTyped DEF OwnersOK, FramesOwned, LoopsOnce, LoopsOwned, IsLoop
<1>6. PICK C \in SUBSET Lent :
        /\ Release(C) /\ \A c \in C : owner[c] = "alive"
        /\ C \subseteq {Top.cb} \cap Loop
        /\ Top.cb \in Loop => Top.cb \in C
  <2>1. CASE Leave
    <3>1. Release({}) /\ Top.cb \notin Loop
      BY <2>1, Disjoint DEF Leave, InCall, NoOverlap
    <3>. QED
      BY <3>1
  <2>2. CASE EndLoop
    <3>1. Release({Top.cb}) /\ Top.cb \in Loop
      BY <2>2 DEF EndLoop, InLoop
    <3>. QED
      BY <1>4, <1>5, <3>1
  <2>. QED
    BY <2>1, <2>2
<1>7. HandlesType /\ HandlesMatchOwners
  BY TypeParts DEF OwnersOK
<1>8. /\ HandlesMatchOwners' /\ misuse' = misuse
      /\ \A c \in Lent : owner'[c] = "alive" => owner[c] = "alive" /\ c \notin C
      /\ stack' # <<>> => \A c \in Lent : c \notin C => owner'[c] = owner[c]
      /\ StateOwns'
  BY <1>6, <1>7, ReleaseOwners
<1>9. TrampolinesSafe'
  BY <1>8 DEF OwnersOK, TrampolinesSafe
<1>10. FramesOwned'
  <2>1. ASSUME NEW d \in 1 .. m
        PROVE  owner'[stack'[d].cb] = "alive"
    <3>1. stack' # <<>>
      <4>1. d \in DOMAIN stack'
        BY <1>4
      <4>. QED
        BY <4>1
    <3>2. stack[d].cb \notin C
      BY <1>4, <1>5, <1>6, <2>1
    <3>. QED
      BY <1>4, <1>5, <1>8, <2>1, <3>1, <3>2
  <2>. QED
    BY <1>4, <2>1 DEF FramesOwned
<1>11. LoopsOnce'
  BY <1>4, <1>5 DEF LoopsOnce, IsLoop
<1>12. LoopsOwned'
  <2>1. ASSUME NEW l \in Loop, owner'[l] = "alive"
        PROVE  \E d \in 1 .. m : stack'[d].cb = l
    <3>1. owner[l] = "alive" /\ l # Top.cb
      BY <1>6, <1>8, <2>1 DEF Lent
    <3>2. PICK d \in 1 .. n : stack[d].cb = l
      BY <1>5, <3>1
    <3>. QED
      BY <1>4, <3>1, <3>2
  <2>. QED
    BY <1>4, <2>1 DEF LoopsOwned
<1>. QED
  BY <1>8, <1>9, <1>10, <1>11, <1>12 DEF OwnersOK

LEMMA OwnersStep ==
  ASSUME TypeOK, StackOK, OwnersOK, [Next]_vars
  PROVE  OwnersOK'
<1>1. misuse \cap {"call", "drop"} = {}
  BY DEF OwnersOK, TrampolinesSafe
<1>2. CASE UNCHANGED <<cgo, owner, vm, stack>> /\ misuse' \cap {"call", "drop"} = {}
  <2>1. SameCalls /\ (Alive => Alive')
    BY <1>2 DEF SameCalls, Alive
  <2>. QED
    BY <1>2, <2>1, OwnersStay
<1>3. CASE \/ UNCHANGED vars
           \/ \E v \in Vm : Forget(v)
           \/ \E c \in LuaOwned : Refer(c)
           \/ \E u \in UserData : ReadHandle(u)
           \/ \E s \in LuaString : ReadAddress(s)
           \/ LookUp \/ CopyBytes
  <2>1. UNCHANGED <<cgo, owner, vm, stack>>
    BY <1>3 DEF vars, handles, state, calls, Forget, Refer, ReadHandle, ReadAddress, LookUp,
       CopyBytes
  <2>2. misuse' \subseteq misuse \cup {"data", "bytes"}
    BY <1>3 DEF vars, handles, Forget, Refer, ReadHandle, ReadAddress, LookUp, CopyBytes
  <2>. QED
    BY <1>1, <1>2, <2>1, <2>2
<1>4. CASE \E v \in Vm : CloseVm(v) \/ Finalize(v)
  <2>1. UNCHANGED stack /\ Release({})
    BY <1>4 DEF CloseVm, Finalize, calls
  <2>2. SameCalls
    BY <2>1 DEF SameCalls
  <2>. QED
    BY <2>1, <2>2, OwnersRelease
<1>5. CASE \/ EnterBody \/ TakePanics \/ Succeed \/ Fail \/ ConvertPanics \/ Panic
           \/ NextItem \/ ItemSucceeds \/ ItemFails
  BY <1>5, TopOwners DEF StackOK
<1>6. CASE \/ \E c \in LuaOwned, v \in Vm : Create(c, v)
           \/ \E c \in LuaOwned : Collect(c)
           \/ \E f \in Function : Invoke(f)
           \/ \E l \in Loop : StartLoop(l)
           \/ Leave \/ EndLoop
  BY <1>6, CreateOwners, CollectOwners, InvokeOwners, StartLoopOwners, PopOwners
<1>. QED
  BY <1>3, <1>4, <1>5, <1>6 DEF Next

-----------------------------------------------------------------------------
(* The theorems *)

LEMMA InitInv == Init => IInv
<1>. SUFFICES ASSUME Init PROVE IInv
  OBVIOUS
<1>1. stack = <<>> /\ stack \in Seq(Frame) /\ Len(stack) = 0 /\ DOMAIN stack = {}
  BY EmptySeq DEF Init
<1>2. TypeOK
  BY <1>1, CallbacksAssumption DEF Init, TypeOK, Vm
<1>3. StackOK
  BY <1>1 DEF Init, StackOK, BodiesBelow, VmsOK, AllocOK, LoopsOK
<1>4. OwnersOK
  BY <1>1 DEF Init, OwnersOK, HandlesMatchOwners, TrampolinesSafe, FramesOwned, LoopsOnce,
     LoopsOwned, StateOwns, Owned, Lent
<1>. QED
  BY <1>2, <1>3, <1>4 DEF IInv

LEMMA Inductive == IInv /\ [Next]_vars => IInv'
  BY TypeStep, StackStep, OwnersStep DEF IInv, StackOK

LEMMA Invariance == Spec => []IInv
  BY InitInv, Inductive, PTL DEF Spec

(* Every variable keeps its type; in particular calls nest no deeper than    *)
(* the bound and every VM wrapper the program refers to is open.             *)
THEOREM TypeCorrect == Spec => []TypeOK
<1>1. IInv => TypeOK
  BY DEF IInv
<1>. QED
  BY <1>1, Invariance, PTL

(* No trampoline of callback.go is ever given a deleted handle.              *)
THEOREM TrampolinesFind == Spec => []TrampolinesSafe
<1>1. IInv => TrampolinesSafe
  BY DEF IInv, OwnersOK
<1>. QED
  BY <1>1, Invariance, PTL

(* The arguments, the struct and the results of every call of a Go function  *)
(* are allocated while it runs, and freed when it has returned: but for a    *)
(* list of results whose conversion panicked (vm.go:229).                    *)
THEOREM CallsFreed == Spec => []CallbackDataFreed
<1>1. ASSUME IInv PROVE CallbackDataFreed
  BY <1>1 DEF IInv, StackOK, AllocOK, VmsOK, IsCall, CallbackDataFreed
<1>. QED
  BY <1>1, Invariance, PTL

(* ForEach and ForEachValue stop at the first callback that fails or panics, *)
(* and report that one.                                                      *)
THEOREM LoopsStop == Spec => []LoopStopsAtFirstFailure
<1>1. IInv => LoopStopsAtFirstFailure
  BY DEF IInv, StackOK, LoopsOK, LoopStopsAtFirstFailure
<1>. QED
  BY <1>1, Invariance, PTL

(* When the last reference to the Lua state is gone, no Go value is pinned.  *)
THEOREM StateTakesAll == Spec => []NothingOutlivesState
<1>1. ASSUME IInv, ~Alive, NEW c \in Lent
      PROVE  cgo[c] # "valid"
  <2>1. stack = <<>> /\ DOMAIN stack = {}
    BY <1>1, EmptySeq DEF Alive
  <2>2. owner[c] # "alive"
    BY <1>1, <2>1 DEF IInv, OwnersOK, StateOwns, LoopsOwned, Owned, Lent
  <2>. QED
    BY <1>1, <2>2 DEF IInv, OwnersOK, HandlesMatchOwners
<1>2. IInv => NothingOutlivesState
  BY <1>1 DEF NothingOutlivesState
<1>. QED
  BY <1>2, Invariance, PTL
=============================================================================
