-------------------------- MODULE HandlesRefinement --------------------------
(***************************************************************************)
(* Handles implements ManagedHandle, for every set of goroutines and       *)
(* objects, every shape of program and every bound: locks, parked readers, *)
(* nested callbacks and a collector come down to "open, used, closed".     *)
(***************************************************************************)
EXTENDS HandlesLocks

-----------------------------------------------------------------------------
(* The abstract steps, in terms of boxes and of what calls hold. *)

LEMMA PhaseOf ==
  ASSUME TypeOK, NEW h \in Handle
  PROVE  /\ box[h] = "unborn" => Phase[h] = "unborn"
         /\ box[h] = "live" => Phase[h] = "open"
         /\ box[h] = "freed" => Phase[h] = "closed"
  BY DEF Phase, TypeOK

OthersHold(a, d) ==
  \A b \in Actor, e \in Depth : <<b, e>> # <<a, d>> => Holds(b, e)' = Holds(b, e)

(* A call takes one more pointer, of an object that is open. *)
LEMMA PromiseBeginUse ==
  ASSUME TypeOK, NEW a \in Actor, NEW d \in Depth, NEW h \in Handle, box[h] = "live",
         UNCHANGED box, OthersHold(a, d), Holds(a, d)' = Holds(a, d) \cup {h}
  PROVE  Promise!Next
<1>. DEFINE u == <<a, d>>
<1>1. u \in Actor \X Depth
  OBVIOUS
<1>2. Phase' = Phase /\ Phase[h] = "open"
  BY PhaseOf DEF Phase
<1>3. ASSUME NEW k \in Handle, NEW v \in Actor \X Depth
      PROVE  (k \in Holds(v[1], v[2])') <=> (k \in Holds(v[1], v[2]) \/ (v = u /\ k = h))
  BY DEF OthersHold
<1>4. Users' = [Users EXCEPT ![h] = @ \cup {u}]
  <2>1. \A k \in Handle : Users'[k] = IF k = h THEN Users[k] \cup {u} ELSE Users[k]
    BY <1>1, <1>3 DEF Users
  <2>. QED
    BY <2>1 DEF Users
<1>5. Promise!BeginUse(u, h)
  BY <1>2, <1>4 DEF Promise!BeginUse
<1>. QED
  BY <1>1, <1>5 DEF Promise!Next

(* A call gives up some of its pointers, and may return an object. *)
LEMMA PromiseEndUse ==
  ASSUME TypeOK, NEW a \in Actor, NEW d \in Depth, NEW new \in SUBSET Unborn,
         OthersHold(a, d), Holds(a, d)' \subseteq Holds(a, d),
         \A h \in Handle : box'[h] = IF h \in new THEN "live" ELSE box[h]
  PROVE  Promise!Next
<1>. DEFINE u == <<a, d>>
            H == {h \in Handle : h \notin Holds(a, d)'}
<1>1. u \in Actor \X Depth /\ H \in SUBSET Handle /\ new \in SUBSET Handle
  BY DEF Unborn
<1>2. \A h \in new : Phase[h] = "unborn"
  BY PhaseOf DEF Unborn
<1>3. Phase' = [h \in Handle |-> IF h \in new THEN "open" ELSE Phase[h]]
  BY DEF Phase, TypeOK
<1>4. ASSUME NEW k \in Handle, NEW v \in Actor \X Depth
      PROVE  (k \in Holds(v[1], v[2])') <=> (k \in Holds(v[1], v[2]) /\ ~(v = u /\ k \in H))
  BY DEF OthersHold
<1>. HIDE DEF H
<1>5. Users' = [h \in Handle |-> IF h \in H THEN Users[h] \ {u} ELSE Users[h]]
  <2>1. \A k \in Handle : Users'[k] = IF k \in H THEN Users[k] \ {u} ELSE Users[k]
    BY <1>1, <1>4 DEF Users
  <2>. QED
    BY <2>1 DEF Users
<1>6. Promise!EndUse(u, H, new)
  BY <1>2, <1>3, <1>5 DEF Promise!EndUse
<1>. QED
  BY <1>1, <1>6 DEF Promise!Next

(* A Close, alone with the pointer of an open object, frees it. *)
LEMMA PromiseClose ==
  ASSUME TypeOK, NEW a \in Actor, NEW d \in Depth, NEW h \in Handle,
         box[h] = "live", box' = [box EXCEPT ![h] = "freed"],
         OthersHold(a, d), Holds(a, d) = {h}, Holds(a, d)' = {},
         \A b \in Actor, e \in Depth : <<b, e>> # <<a, d>> => h \notin Holds(b, e)
  PROVE  Promise!Next
<1>. DEFINE u == <<a, d>>
<1>1. u \in Actor \X Depth
  OBVIOUS
<1>2. Phase[h] = "open" /\ Phase' = [Phase EXCEPT ![h] = "closed"]
  BY PhaseOf DEF Phase, TypeOK
<1>3. Users[h] = {u}
  BY <1>1 DEF Users
<1>4. Users' = [Users EXCEPT ![h] = {}]
  <2>1. ASSUME NEW k \in Handle, NEW v \in Actor \X Depth
        PROVE  (k \in Holds(v[1], v[2])') <=> (k # h /\ k \in Holds(v[1], v[2]))
    BY DEF OthersHold
  <2>2. \A k \in Handle : Users'[k] = IF k = h THEN {} ELSE Users[k]
    BY <2>1 DEF Users
  <2>. QED
    BY <2>2 DEF Users
<1>5. Promise!Close(u, h)
  BY <1>2, <1>3, <1>4 DEF Promise!Close
<1>. QED
  BY <1>1, <1>5 DEF Promise!Next

-----------------------------------------------------------------------------
(* What each way frames change does to what the calls hold. *)

Counted(k) == k \notin Unlocked

LEMMA AdvanceHolds ==
  ASSUME TypeOK, NEW a \in Actor, NEW d \in Depth, d = top[a],
         NEW pc, NEW args, NEW use, Advance(a, pc, args, use)
  PROVE  /\ OthersHold(a, d)
         /\ Holds(a, d) = IF Counted(Cur(a).kind) THEN Cur(a).use ELSE {}
         /\ Holds(a, d)' = IF Counted(Cur(a).kind) THEN use ELSE {}
<1>1. /\ top' = top
      /\ frame'[a][d] = [kind |-> Cur(a).kind, recv |-> Recv(a), args |-> args,
                         pc |-> pc, use |-> use]
      /\ \A b \in Actor, e \in Depth : <<b, e>> # <<a, d>> => frame'[b][e] = frame[b][e]
  BY AdvanceFrame
<1>2. OthersHold(a, d)
  BY <1>1 DEF OthersHold, Holds, Active
<1>3. Active(a, d) /\ Active(a, d)' /\ frame[a][d] = Cur(a)
  BY <1>1 DEF Active, Depth, Cur
<1>. QED
  BY <1>1, <1>2, <1>3 DEF Holds, Counted

LEMMA PopHolds ==
  ASSUME TypeOK, NEW a \in Actor, NEW d \in Depth, d = top[a], Pop(a)
  PROVE  OthersHold(a, d) /\ Holds(a, d)' = {}
<1>1. /\ top'[a] = top[a] - 1
      /\ \A b \in Actor : b # a => top'[b] = top[b]
      /\ \A b \in Actor, e \in Depth : <<b, e>> # <<a, d>> => frame'[b][e] = frame[b][e]
  BY PopFrame
<1>2. ~Active(a, d)'
  BY <1>1 DEF Active, Depth
<1>3. ASSUME NEW b \in Actor, NEW e \in Depth, <<b, e>> # <<a, d>>
      PROVE  Active(b, e)' = Active(b, e)
  BY <1>1, <1>3, HandlesAssumption DEF Active, Depth
<1>. QED
  BY <1>1, <1>2, <1>3 DEF OthersHold, Holds

LEMMA EntersHolds ==
  ASSUME TypeOK, CallsOK', NEW a \in Actor, NEW d \in Depth, d = top[a] + 1, Enters(a)
  PROVE  OthersHold(a, d) /\ Holds(a, d)' = {}
<1>1. top[a] \in Nat /\ top'[a] = d /\ d \in Depth
  BY HandlesAssumption DEF Enters, TypeOK
<1>2. ASSUME NEW b \in Actor, NEW e \in Depth, <<b, e>> # <<a, d>>
      PROVE  Active(b, e)' = Active(b, e) /\ frame'[b][e] = frame[b][e]
  BY <1>1, <1>2 DEF Enters, OtherTopsStay, OtherFramesStay, Active, Depth
<1>3. FrameOK(a, d)'
  BY <1>1 DEF CallsOK, Active, Depth
<1>4. frame'[a][d].use = {}
  <2>1. CASE EntersFunction(a)
    BY <2>1 DEF EntersFunction, FunctionFrame
  <2>2. CASE ~EntersFunction(a)
    BY <1>3, <2>2, EnteredAt DEF FrameOK, NoPointer
  <2>. QED
    BY <2>1, <2>2
<1>. QED
  BY <1>2, <1>4 DEF OthersHold, Holds

(* Calls that change no box and hold no more than before end some uses, or   *)
(* none.                                                                     *)
LEMMA PromiseLetGo ==
  ASSUME TypeOK, NEW a \in Actor, NEW d \in Depth, OthersHold(a, d),
         Holds(a, d)' \subseteq Holds(a, d), UNCHANGED box
  PROVE  Promise!Next
<1>1. {} \in SUBSET Unborn
  OBVIOUS
<1>2. \A h \in Handle : box'[h] = IF h \in {} THEN "live" ELSE box[h]
  OBVIOUS
<1>. QED
  BY <1>1, <1>2, PromiseEndUse

LEMMA PromiseStutter ==
  ASSUME UNCHANGED calls, UNCHANGED box
  PROVE  UNCHANGED <<Phase, Users>>
  BY DEF calls, Phase, Users, Holds, Active

(* What a call converting its arguments holds: its receiver, at least (a Go  *)
(* function converting what it returns has none).                            *)
Receiver(f) == IF f.kind = "function" THEN {} ELSE {f.recv}

UseOK == \A a \in Actor : \A d \in Depth : Active(a, d) =>
  /\ frame[a][d].pc \in {"argrlock", "argcheck"} => frame[a][d].use = Receiver(frame[a][d])
  /\ frame[a][d].pc = "clone" => Receiver(frame[a][d]) \subseteq frame[a][d].use

LEMMA CallStepUse ==
  ASSUME IInv, NEW g \in Goroutine, CallStep(g) \/ CallbackEnds(g), Moves(g),
         NEW f, f = frame'[g][top[g]]
  PROVE  /\ f.pc \in {"argrlock", "argcheck"} => f.use = Receiver(f)
         /\ f.pc = "clone" => Receiver(f) \subseteq f.use
<1>d. /\ TypeOK /\ g \in Actor /\ top[g] \in Depth /\ FrameOK(g, top[g])
      /\ f.recv = Recv(g) /\ f.kind = Cur(g).kind /\ <<Cur(g).pc, f.pc>> \in PcMoves
  BY CallStepShape, CurOK DEF IInv, Moves, Cur, Recv
<1>k. Receiver(f) = Kept(g)
  BY <1>d DEF Receiver, Kept
<1>. SUFFICES ASSUME f.pc \in {"argrlock", "argcheck", "clone"}
              PROVE  f.use = Kept(g) \/ (f.pc = "clone" /\ Kept(g) \subseteq f.use)
  BY <1>k
<1>1. Cur(g).pc \in {"check", "clone", "argrlock", "argcheck", "running"}
  BY <1>d DEF PcMoves
<1>h. ASSUME NEW pc, NEW args, NEW use, Advance(g, pc, args, use)
      PROVE  f.pc = pc /\ f.use = use
  <2>1. frame'[g][top[g]] = [kind |-> Cur(g).kind, recv |-> Recv(g), args |-> args,
                              pc |-> pc, use |-> use]
    BY <1>h, <1>d, AdvanceFrame
  <2>. QED
    BY <2>1
<1>2. CASE CheckRecv(g)
  <2>1. Kept(g) = {Recv(g)}
    BY <1>2, <1>d DEF CheckRecv, At, FrameOK, FunctionPC, Closing, Kept, Cur
  <2>2. PICK pc, args, use : /\ Advance(g, pc, args, use)
                             /\ use = {Recv(g)} \/ pc = "runlock"
    BY <1>2 DEF CheckRecv, Goto
  <2>3. f.pc = pc /\ f.use = use
    BY <2>2, <1>h
  <2>. QED
    BY <2>1, <2>2, <2>3
<1>3. CASE RLockArg(g) \/ CloneArg(g)
  <2>1. PICK pc, args : Advance(g, pc, args, Kept(g))
    BY <1>3 DEF RLockArg, CloneArg, Goto
  <2>2. f.use = Kept(g)
    BY <2>1, <1>h
  <2>. QED
    BY <2>2
<1>4. CASE CheckArg(g)
  <2>1. \/ Goto(g, "enter", Kept(g) \cup {Arg(g)}) \/ Goto(g, "clone", Kept(g) \cup {Arg(g)})
        \/ Goto(g, "enter", Kept(g)) \/ Goto(g, "runlock", {})
    BY <1>4 DEF CheckArg
  <2>2. PICK pc, use : /\ Goto(g, pc, use)
                       /\ Kept(g) \subseteq use \/ pc = "runlock"
                       /\ pc \notin {"argrlock", "argcheck"}
    BY <2>1
  <2>3. f.pc = pc /\ f.use = use
    BY <2>2, <1>h DEF Goto
  <2>. QED
    BY <2>2, <2>3
<1>5. CASE CallbackEnds(g)
  <2>1. CASE FunctionReturns(g)
    <3>1. PICK s : Advance(g, NextPc("function", s), s, {})
      BY <2>1 DEF FunctionReturns
    <3>2. f.use = {} /\ Kept(g) = {}
      BY <2>1, <3>1, <1>h DEF FunctionReturns, Kept
    <3>. QED
      BY <3>2
  <2>2. CASE CallbackReturn(g)
    <3>1. f.pc = "runlock"
      BY <2>2, <1>h DEF CallbackReturn, Goto
    <3>. QED
      BY <3>1
  <2>3. CASE FunctionPanics(g)
    <3>1. top'[g] = top[g] - 1 /\ top' = top /\ top[g] \in Nat
      BY <2>3, <1>d, PopFrame, HandlesAssumption DEF FunctionPanics, Moves, Depth
    <3>. QED
      BY <3>1
  <2>. QED
    BY <1>5, <2>1, <2>2, <2>3 DEF CallbackEnds
<1>. QED
  BY <1>1, <1>2, <1>3, <1>4, <1>5 DEF CallStep, RLockRecv, ReadPeer, ReadPeerAgain, Enter,
     RUnlockArg, RUnlockRecv, CloseFunctionVm, ReadBare, ReadBareAgain, UseBare, At

(* A call that moves on does so by a step of its own actor. *)
LEMMA OnlyTheMoverSteps ==
  ASSUME IInv, Next, NEW a \in Actor, Moves(a)
  PROVE  (a \in Goroutine /\ (CallStep(a) \/ CallbackEnds(a))) \/ CloseStep(a)
<1>. DEFINE f == frame[a][top[a]]
<1>1. frame'[a][top[a]] # f /\ top'[a] = top[a] /\ top[a] \in Depth
  <2>1. ~(<<f.pc, f.pc>> \in PcMoves)
    BY DEF PcMoves
  <2>. QED
    BY <2>1 DEF Moves
<1>. HIDE DEF f
<1>2. ASSUME NEW b \in Actor, OthersStay(b)
      PROVE  b = a
  BY <1>1, <1>2 DEF OthersStay, f
<1>3. ASSUME NEW b \in Actor, Enters(b)
      PROVE  FALSE
  <2>1. top'[b] = top[b] + 1 /\ top[b] \in Nat /\ top' = top
    BY <1>3, HandlesAssumption DEF Enters, Moves, IInv, TypeOK
  <2>. QED
    BY <2>1
<1>4. ~UNCHANGED calls
  BY <1>1 DEF calls, f
<1>. QED
  BY <1>2, <1>3, <1>4, CallStepShape, CloseStepShape, StartEnters, FunctionEnters,
     FinalizerEnters DEF Next, IInv, Forget, Actor

LEMMA UseNext == IInv /\ UseOK /\ [Next]_vars => UseOK'
<1>. SUFFICES ASSUME IInv, UseOK, [Next]_vars,
                     NEW a \in Actor, NEW d \in Depth, Active(a, d)',
                     NEW f, f = frame'[a][d]
              PROVE  /\ f.pc \in {"argrlock", "argcheck"} => f.use = Receiver(f)
                     /\ f.pc = "clone" => Receiver(f) \subseteq f.use
  BY DEF UseOK
<1>1. CASE UNCHANGED vars
  BY <1>1 DEF vars, calls, UseOK, Active
<1>2. CASE Next
  <2>1. CASE Active(a, d) /\ frame'[a][d] = frame[a][d]
    BY <2>1 DEF UseOK
  <2>2. CASE Enters(a) /\ d = top[a] + 1
    BY <2>2, EnteredAt
  <2>3. CASE Moves(a) /\ d = top[a]
    <3>1. CASE a \in Goroutine /\ (CallStep(a) \/ CallbackEnds(a))
      BY <2>3, <3>1, CallStepUse DEF IInv
    <3>2. CASE CloseStep(a)
      <4>1. frame[a][d].pc \in WriterHeld \cup {"lock"}
        BY <2>3, <3>2, CloseStepShape DEF Cur
      <4>. QED
        BY <2>3, <4>1 DEF Moves, PcMoves, WriterHeld
    <3>. QED
      BY <1>2, <2>3, <3>1, <3>2, OnlyTheMoverSteps
  <2>. QED
    BY <1>2, <2>1, <2>2, <2>3, FrameBefore
<1>. QED
  BY <1>1, <1>2

-----------------------------------------------------------------------------
(* Every step of Handles is a step of ManagedHandle, or none. *)

PromiseStep == Promise!Next \/ UNCHANGED <<Phase, Users>>

LEMMA CallStepPromise ==
  ASSUME IInv, UseOK, NEW g \in Goroutine, CallStep(g) \/ CallbackEnds(g)
  PROVE  PromiseStep
<1>ty. TypeOK /\ g \in Actor /\ top[g] \in Depth /\ top[g] > 0
  BY CallStepShape DEF IInv
<1>d. PICK d \in Depth : d = top[g]
  BY <1>ty
<1>f. FrameOK(g, d) /\ Active(g, d) /\ frame[g][d] = Cur(g) /\ Recv(g) = Cur(g).recv
  BY <1>ty, <1>d, CurOK DEF Cur, Recv
<1>r. /\ Recv(g) \in Handle
      /\ Cur(g).pc \in Converting => Arg(g) \in Handle
      /\ Tok(g, "recv") = <<g, d, "recv">> /\ Tok(g, "arg") = <<g, d, "arg">>
  BY <1>ty, <1>d, CurType DEF Tok
<1>k. Receiver(Cur(g)) = Kept(g)
  BY DEF Receiver, Kept, Recv
<1>a. ASSUME NEW pc, NEW args, NEW use, Advance(g, pc, args, use)
      PROVE  /\ OthersHold(g, d)
             /\ Counted(Cur(g).kind) => Holds(g, d) = Cur(g).use /\ Holds(g, d)' = use
             /\ ~Counted(Cur(g).kind) => Holds(g, d)' = {}
  BY <1>a, <1>ty, <1>d, AdvanceHolds
<1>s. ASSUME NEW pc, NEW args, NEW use, Advance(g, pc, args, use), UNCHANGED box,
             Counted(Cur(g).kind) => use \subseteq Cur(g).use
      PROVE  PromiseStep
  <2>1. OthersHold(g, d) /\ Holds(g, d)' \subseteq Holds(g, d)
    BY <1>s, <1>a
  <2>. QED
    BY <2>1, <1>s, <1>ty, PromiseLetGo DEF PromiseStep
<1>1. CASE RLockRecv(g)
  <2>1. Advance(g, "check", Cur(g).args, {}) /\ UNCHANGED box
    BY <1>1 DEF RLockRecv, Goto, object
  <2>. QED
    BY <2>1, <1>s
<1>2. CASE CheckRecv(g)
  <2>1. /\ Cur(g).use = {} /\ UNCHANGED box
        /\ ptr[Recv(g)] => box[Recv(g)] = "live"
    BY <1>2, <1>f, <1>r, LockedPointerLive DEF CheckRecv, At, FrameOK, NoPointer, object
  <2>2. CASE ptr[Recv(g)] /\ Counted(Cur(g).kind)
    <3>1. PICK pc : Advance(g, pc, Cur(g).args, {Recv(g)})
      BY <1>2, <2>2 DEF CheckRecv, Goto
    <3>2. OthersHold(g, d) /\ Holds(g, d)' = Holds(g, d) \cup {Recv(g)}
      BY <3>1, <2>1, <2>2, <1>a
    <3>. QED
      BY <3>2, <2>1, <2>2, <1>ty, <1>r, PromiseBeginUse DEF PromiseStep
  <2>3. CASE ~(ptr[Recv(g)] /\ Counted(Cur(g).kind))
    <3>1. PICK pc, use : /\ Advance(g, pc, Cur(g).args, use)
                         /\ Counted(Cur(g).kind) => use = {}
      BY <1>2, <2>3 DEF CheckRecv, Goto
    <3>. QED
      BY <3>1, <2>1, <1>s
  <2>. QED
    BY <2>2, <2>3
<1>3. CASE RLockArg(g)
  <2>1. Advance(g, "argcheck", Cur(g).args, Kept(g)) /\ UNCHANGED box
    BY <1>3 DEF RLockArg, Goto, object
  <2>2. Cur(g).use = Kept(g)
    BY <1>3, <1>ty, <1>f, <1>k DEF UseOK, RLockArg, At
  <2>. QED
    BY <2>1, <2>2, <1>s
<1>4. CASE CheckArg(g)
  <2>1. /\ Cur(g).use = Kept(g) /\ UNCHANGED box /\ Arg(g) \in Handle
        /\ ptr[Arg(g)] => box[Arg(g)] = "live"
    <3>1. Cur(g).pc = "argcheck" /\ Tok(g, "arg") \in readers[Arg(g)] /\ UNCHANGED box
      BY <1>4 DEF CheckArg, At, object
    <3>2. Arg(g) \in Handle
      BY <3>1, <1>r DEF Converting
    <3>. QED
      BY <3>1, <3>2, <1>ty, <1>f, <1>k, LockedPointerLive DEF UseOK
  <2>2. CASE ptr[Arg(g)] /\ Counted(Cur(g).kind)
    <3>1. PICK pc : Advance(g, pc, Cur(g).args, Kept(g) \cup {Arg(g)})
      BY <1>4, <2>2 DEF CheckArg, Goto
    <3>2. OthersHold(g, d) /\ Holds(g, d)' = Holds(g, d) \cup {Arg(g)}
      BY <3>1, <2>1, <2>2, <1>a
    <3>. QED
      BY <3>2, <2>1, <2>2, <1>ty, PromiseBeginUse DEF PromiseStep
  <2>3. CASE ptr[Arg(g)] /\ ~Counted(Cur(g).kind)
    <3>1. PICK pc : Advance(g, pc, Cur(g).args, Kept(g) \cup {Arg(g)})
      BY <1>4, <2>3 DEF CheckArg, Goto
    <3>. QED
      BY <3>1, <2>1, <2>3, <1>s
  <2>4. CASE ~ptr[Arg(g)]
    <3>1. Goto(g, "enter", Kept(g)) \/ Goto(g, "runlock", {})
      BY <1>4, <2>4 DEF CheckArg
    <3>2. PICK pc, use : /\ Advance(g, pc, Cur(g).args, use)
                         /\ use \subseteq Kept(g)
      BY <3>1 DEF Goto
    <3>. QED
      BY <3>2, <2>1, <1>s
  <2>. QED
    BY <2>2, <2>3, <2>4
<1>5. CASE CloneArg(g)
  <2>1. UNCHANGED box /\ Kept(g) \subseteq Cur(g).use
    BY <1>5, <1>ty, <1>f, <1>k DEF UseOK, CloneArg, At, object
  <2>2. PICK pc, args : Advance(g, pc, args, Kept(g))
    BY <1>5 DEF CloneArg
  <2>. QED
    BY <2>1, <2>2, <1>s
<1>6. CASE ReadPeer(g) \/ ReadPeerAgain(g)
  <2>1. UNCHANGED box /\ ~Counted(Cur(g).kind)
    BY <1>6, <1>f DEF ReadPeer, ReadPeerAgain, At, object, FrameOK, Counted, Unlocked
  <2>2. PICK pc, args, use : Advance(g, pc, args, use)
    BY <1>6 DEF ReadPeer, ReadPeerAgain, Goto
  <2>. QED
    BY <2>1, <2>2, <1>s
<1>7. CASE Enter(g) \/ CallbackReturn(g)
  <2>1. CASE Advance(g, "running", Cur(g).args, Cur(g).use) /\ UNCHANGED box
    BY <2>1, <1>s
  <2>2. CASE /\ Advance(g, "runlock", Cur(g).args, {})
             /\ \E new \in SUBSET Unborn : NewObjects(new)
    <3>1. PICK new \in SUBSET Unborn : NewObjects(new)
      BY <2>2
    <3>2. OthersHold(g, d) /\ Holds(g, d)' \subseteq Holds(g, d)
      BY <2>2, <1>a
    <3>3. \A h \in Handle : box'[h] = IF h \in new THEN "live" ELSE box[h]
      BY <3>1 DEF NewObjects
    <3>. QED
      BY <3>2, <3>3, <1>ty, PromiseEndUse DEF PromiseStep
  <2>3. (\E new \in Results : NewObjects(new)) => (\E new \in SUBSET Unborn : NewObjects(new))
    BY DEF Results
  <2>. QED
    BY <1>7, <2>1, <2>2, <2>3 DEF Enter, CallbackReturn, Goto, object
<1>8. CASE RUnlockArg(g)
  BY <1>8, PromiseStutter DEF RUnlockArg, object, PromiseStep
<1>9. CASE Pop(g) /\ UNCHANGED box
  <2>1. OthersHold(g, d) /\ Holds(g, d)' = {}
    BY <1>9, <1>ty, <1>d, PopHolds
  <2>. QED
    BY <2>1, <1>9, <1>ty, PromiseLetGo DEF PromiseStep
<1>10. CASE RUnlockRecv(g) \/ UseBare(g) \/ FunctionPanics(g)
  BY <1>9, <1>10 DEF RUnlockRecv, UseBare, FunctionPanics, object
<1>11. CASE ReadBare(g) \/ ReadBareAgain(g)
  <2>1. UNCHANGED box /\ ~Counted(Cur(g).kind)
    BY <1>11, <1>f DEF ReadBare, ReadBareAgain, At, object, FrameOK, Counted, Unlocked
  <2>2. Pop(g) \/ \E pc, use : Advance(g, pc, Cur(g).args, use)
    BY <1>11 DEF ReadBare, ReadBareAgain, Goto
  <2>. QED
    BY <2>1, <2>2, <1>s, <1>9
<1>12. CASE FunctionReturns(g) \/ CloseFunctionVm(g)
  <2>1. UNCHANGED box
    BY <1>12 DEF FunctionReturns, CloseFunctionVm, object
  <2>2. PICK pc, args : Advance(g, pc, args, {})
    BY <1>12 DEF FunctionReturns, CloseFunctionVm
  <2>. QED
    BY <2>1, <2>2, <1>s
<1>. QED
  BY <1>1, <1>2, <1>3, <1>4, <1>5, <1>6, <1>7, <1>8, <1>10, <1>11, <1>12
     DEF CallStep, CallbackEnds

LEMMA CloseStepPromise ==
  ASSUME IInv, NEW a \in Actor, CloseStep(a)
  PROVE  PromiseStep
<1>ty. /\ TypeOK /\ top[a] \in Depth /\ FrameOK(a, top[a]) /\ Recv(a) \in Handle
       /\ Counted(Cur(a).kind)
  BY CloseStepShape DEF IInv, Counted, Unlocked
<1>d. PICK d \in Depth : d = top[a]
  BY <1>ty
<1>u. Cur(a).pc # "dtor" => Cur(a).use = {}
  BY <1>ty, CloseStepShape DEF FrameOK, Cur, WriterHeld, NoPointer
<1>a. ASSUME NEW pc, NEW args, NEW use, Advance(a, pc, args, use)
      PROVE  OthersHold(a, d) /\ Holds(a, d) = Cur(a).use /\ Holds(a, d)' = use
  BY <1>a, <1>ty, <1>d, AdvanceHolds
<1>w. ASSUME NEW b \in Actor, NEW e \in Depth, Active(b, e), <<b, e>> # <<a, d>>,
             frame[b][e].pc \in WriterHeld, frame[b][e].recv = Recv(a),
             Cur(a).pc \in WriterHeld
      PROVE  FALSE
  <2>f. FrameOK(b, e)
    BY <1>w DEF IInv, CallsOK
  <2>1. writer[Recv(a)] = b /\ writer[Recv(a)] = a
    BY <2>f, <1>w, <1>ty DEF FrameOK, Cur, Recv
  <2>2. e = top[b]
    <3>1. e \in Nat /\ top[b] \in Nat /\ e \leq top[b] /\ "running" \notin WriterHeld
      BY <1>w, <1>ty, HandlesAssumption DEF Active, Depth, TypeOK, WriterHeld
    <3>. QED
      BY <3>1, <1>w DEF IInv, OthersRunning
  <2>. QED
    BY <2>1, <2>2, <1>w, <1>d
<1>1. CASE UNCHANGED box /\ (Pop(a) \/ \E pc, args : Advance(a, pc, args, {}))
  <2>1. OthersHold(a, d) /\ Holds(a, d)' = {}
    BY <1>1, <1>a, <1>ty, <1>d, PopHolds
  <2>. QED
    BY <2>1, <1>1, <1>ty, PromiseLetGo DEF PromiseStep
<1>2. CASE Lock(a) \/ ClearPtr(a) \/ (Drain(a) /\ ~ptr[Recv(a)])
  BY <1>1, <1>2 DEF Lock, Drain, ClearPtr, Goto, object
<1>3. CASE Drain(a) /\ ptr[Recv(a)]
  <2>1. /\ Cur(a).pc = "drain" /\ UNCHANGED box
        /\ Advance(a, "dtor", Cur(a).args, {Recv(a)})
    BY <1>3 DEF Drain, At, Goto, object
  <2>2. ASSUME NEW b \in Actor, At(b, "clear"), Recv(b) = Recv(a)
        PROVE  FALSE
    <3>1. top[b] \in Depth /\ Active(b, top[b]) /\ Cur(b).pc = "clear"
      BY <2>2, <1>ty, HandlesAssumption DEF At, Active, Depth, TypeOK
    <3>2. <<b, top[b]>> # <<a, d>>
      BY <2>1, <3>1, <1>d
    <3>. QED
      BY <2>1, <2>2, <3>1, <3>2, <1>w DEF Cur, Recv, WriterHeld
  <2>3. box[Recv(a)] = "live"
    BY <1>3, <1>ty, <2>2 DEF IInv, PointersGood
  <2>4. OthersHold(a, d) /\ Holds(a, d)' = Holds(a, d) \cup {Recv(a)}
    BY <2>1, <1>a, <1>u
  <2>. QED
    BY <2>1, <2>3, <2>4, <1>ty, PromiseBeginUse DEF PromiseStep
<1>4. CASE Dtor(a)
  <2>1. /\ box[Recv(a)] = "live" /\ readers[Recv(a)] = {} /\ Cur(a).pc = "dtor"
        /\ box' = [box EXCEPT ![Recv(a)] = "freed"] /\ Cur(a).use = {Recv(a)}
    BY <1>4, <1>ty DEF Dtor, At, FrameOK, Cur, Recv
  <2>2. OthersHold(a, d) /\ Holds(a, d) = {Recv(a)} /\ Holds(a, d)' = {}
    BY <1>4, <1>a, <2>1 DEF Dtor, Goto
  <2>3. ASSUME NEW b \in Actor, NEW e \in Depth, <<b, e>> # <<a, d>>,
               Recv(a) \in Holds(b, e)
        PROVE  FALSE
    <3>1. /\ Active(b, e) /\ FrameOK(b, e) /\ frame[b][e].kind \notin Unlocked
          /\ Recv(a) \in frame[b][e].use
      BY <2>3 DEF IInv, CallsOK, Holds
    <3>2. frame[b][e].pc = "dtor"
      BY <2>1, <3>1 DEF FrameOK
    <3>. QED
      BY <2>1, <2>3, <3>1, <3>2, <1>w DEF FrameOK, WriterHeld
  <2>. QED
    BY <2>1, <2>2, <2>3, <1>ty, PromiseClose DEF PromiseStep
<1>. QED
  BY <1>2, <1>3, <1>4 DEF CloseStep

LEMMA EntersPromise ==
  ASSUME IInv, IInv', NEW a \in Actor, Enters(a),
         NEW new \in SUBSET Unborn, UNCHANGED box \/ NewObjects(new)
  PROVE  PromiseStep
<1>1. PICK d \in Depth : d = top[a] + 1
  BY DEF Enters
<1>2. OthersHold(a, d) /\ Holds(a, d)' = {}
  BY <1>1, EntersHolds DEF IInv
<1>3. CASE UNCHANGED box
  BY <1>2, <1>3, PromiseLetGo DEF IInv, PromiseStep
<1>4. CASE NewObjects(new)
  <2>1. \A h \in Handle : box'[h] = IF h \in new THEN "live" ELSE box[h]
    BY <1>4 DEF NewObjects
  <2>. QED
    BY <1>2, <2>1, PromiseEndUse DEF IInv, PromiseStep
<1>. QED
  BY <1>3, <1>4

LEMMA NextPromise == IInv /\ IInv' /\ UseOK /\ [Next]_vars => PromiseStep
<1>. SUFFICES ASSUME IInv, IInv', UseOK, [Next]_vars PROVE PromiseStep
  OBVIOUS
<1>ty. TypeOK
  BY DEF IInv
<1>1. CASE UNCHANGED calls /\ UNCHANGED box
  BY <1>1, PromiseStutter DEF PromiseStep
<1>2. CASE UNCHANGED vars \/ \E h \in Handle : Forget(h)
  BY <1>1, <1>2 DEF vars, object, calls, Forget
<1>3. ASSUME NEW g \in Goroutine, Start(g)
      PROVE  PromiseStep
  <2>1. g \in Actor
    BY DEF Actor
  <2>2. CASE Create(g)
    <3>1. PICK h \in Unborn : NewObjects({h})
      BY <2>2 DEF Create
    <3>2. {h} \in SUBSET Unborn /\ \A k \in Handle : box'[k] = IF k \in {h} THEN "live" ELSE box[k]
      BY <3>1 DEF NewObjects
    <3>3. PICK d \in Depth : TRUE
      BY HandlesAssumption DEF Depth
    <3>4. OthersHold(g, d) /\ Holds(g, d)' \subseteq Holds(g, d)
      BY <2>2 DEF Create, calls, OthersHold, Holds, Active
    <3>. QED
      BY <3>2, <3>4, <2>1, <1>ty, PromiseEndUse DEF PromiseStep
  <2>3. CASE ~Create(g)
    <3>1. UNCHANGED box
      BY <1>3, <2>3 DEF Start, StartCall, StartBare, StartClose, object
    <3>2. {} \in SUBSET Unborn
      OBVIOUS
    <3>. QED
      BY <3>1, <3>2, <2>1, <1>1, <1>3, <1>ty, StartEnters, EntersPromise
  <2>. QED
    BY <2>2, <2>3
<1>4. ASSUME NEW h \in Handle, RunFinalizer(h)
      PROVE  PromiseStep
  <2>1. Finalizer \in Actor /\ UNCHANGED box /\ Enters(Finalizer)
    BY <1>4, <1>ty, FinalizerEnters DEF Actor, RunFinalizer
  <2>2. {} \in SUBSET Unborn
    OBVIOUS
  <2>. QED
    BY <2>1, <2>2, EntersPromise
<1>5. ASSUME NEW g \in Goroutine, CallFunction(g)
      PROVE  PromiseStep
  <2>1. PICK v \in Unborn \cap FunctionVm : NewObjects({v})
    BY <1>5, CallFunctionVm
  <2>2. g \in Actor /\ {v} \in SUBSET Unborn /\ Enters(g)
    BY <1>5, <1>ty, FunctionEnters DEF Actor
  <2>. QED
    BY <2>1, <2>2, EntersPromise
<1>. QED
  BY <1>2, <1>3, <1>4, <1>5, CallStepPromise, CloseStepPromise DEF Next

(* The handles keep the promise of ManagedHandle to every call that locks    *)
(* what it reads: an allocation is used only while open, freed at most once, *)
(* and never while a call that has read its pointer will dereference it.     *)
THEOREM HandlesImplementManagedHandle == Spec => ImplementsManagedHandle
<1>1. Init => Promise!Init /\ UseOK
  <2>. SUFFICES ASSUME Init PROVE Promise!Init /\ UseOK
    OBVIOUS
  <2>1. \A a \in Actor : \A d \in Depth : ~Active(a, d)
    BY DEF Init, Active
  <2>2. UseOK /\ \A h \in Handle : Users[h] = {}
    BY <2>1 DEF UseOK, Users, Holds
  <2>3. Users = [h \in Handle |-> {}]
    BY <2>2 DEF Users
  <2>4. Phase = [h \in Handle |-> "unborn"]
    BY DEF Phase, Init
  <2>. QED
    BY <2>2, <2>3, <2>4 DEF Promise!Init
<1>2. IInv /\ IInv' /\ UseOK /\ [Next]_vars => [Promise!Next]_(Promise!vars)
  BY NextPromise DEF PromiseStep, Promise!vars
<1>. QED
  BY <1>1, <1>2, UseNext, Invariance, PTL DEF Spec, ImplementsManagedHandle, Promise!Spec
=============================================================================
