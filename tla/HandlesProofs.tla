--------------------------- MODULE HandlesProofs ---------------------------
(***************************************************************************)
(* Machine-checked facts about Handles, for every set of goroutines and    *)
(* objects, every shape of program and every bound.                        *)
(***************************************************************************)
EXTENDS Handles, SequenceTheorems, TLAPS

-----------------------------------------------------------------------------
(* Typing *)

(* What is true of the frame an actor is in. *)
LEMMA CurType ==
  ASSUME TypeOK, NEW a \in Actor, top[a] > 0
  PROVE  /\ top[a] \in Depth
         /\ Cur(a) \in Frame
         /\ Recv(a) \in Handle
         /\ Cur(a).pc \in Converting => Cur(a).args # <<>>
         /\ Cur(a).args # <<>> => /\ Arg(a) \in Handle
                                  /\ Tail(Cur(a).args) \in Seq(Handle)
         /\ Tok(a, "recv") \in Token
         /\ Tok(a, "arg") \in Token
<1>1. top[a] \in Depth
  BY HandlesAssumption DEF TypeOK, Depth
<1>2. Cur(a) \in Frame
  BY <1>1 DEF TypeOK, Cur
<1>. QED
  BY <1>1, <1>2 DEF Frame, Recv, Arg, Tok, Token

(* Writing one frame keeps the table of frames typed. *)
LEMMA SetFrame ==
  ASSUME TypeOK, NEW a \in Actor, NEW d \in Depth, NEW f \in Frame,
         frame' = [frame EXCEPT ![a][d] = f]
  PROVE  /\ frame' \in [Actor -> [Depth -> Frame]]
         /\ frame'[a][d] = f
         /\ \A b \in Actor, e \in Depth : <<b, e>> # <<a, d>> => frame'[b][e] = frame[b][e]
<1>. DEFINE row == [frame[a] EXCEPT ![d] = f]
<1>1. frame \in [Actor -> [Depth -> Frame]] /\ frame[a] \in [Depth -> Frame]
  BY DEF TypeOK
<1>2. row \in [Depth -> Frame] /\ row[d] = f /\ \A e \in Depth \ {d} : row[e] = frame[a][e]
  BY <1>1
<1>3. frame' = [frame EXCEPT ![a] = row]
  OBVIOUS
<1>. HIDE DEF row
<1>. QED
  BY <1>1, <1>2, <1>3

(* A call that moves on stays a call. *)
LEMMA AdvanceType ==
  ASSUME TypeOK, NEW a \in Actor, top[a] > 0,
         NEW pc \in PC, NEW args \in Seq(Handle), NEW use \in SUBSET Handle,
         pc \in Converting => args # <<>>, Advance(a, pc, args, use)
  PROVE  /\ top' \in [Actor -> 0 .. MaxDepth]
         /\ frame' \in [Actor -> [Depth -> Frame]]
<1>1. top[a] \in Depth /\ Cur(a).kind \in AllKinds /\ Recv(a) \in Handle
  BY CurType DEF Frame
<1>. DEFINE f == [kind |-> Cur(a).kind, recv |-> Recv(a), args |-> args,
                  pc |-> pc, use |-> use]
<1>2. f \in Frame
  BY <1>1 DEF Frame
<1>. HIDE DEF f
<1>3. frame' = [frame EXCEPT ![a][top[a]] = f] /\ top' = top
  BY DEF Advance, f
<1>. QED
  BY <1>1, <1>2, <1>3, SetFrame DEF TypeOK

LEMMA GotoType ==
  ASSUME TypeOK, NEW a \in Actor, top[a] > 0,
         NEW pc \in PC, NEW use \in SUBSET Handle,
         pc \in Converting => Cur(a).args # <<>>, Goto(a, pc, use)
  PROVE  /\ top' \in [Actor -> 0 .. MaxDepth]
         /\ frame' \in [Actor -> [Depth -> Frame]]
<1>1. Cur(a).args \in Seq(Handle)
  BY CurType DEF Frame
<1>. QED
  BY <1>1, AdvanceType DEF Goto

(* A call is entered only by an actor with a frame to spare. *)
LEMMA PushType ==
  ASSUME TypeOK, NEW a \in Actor, top[a] < MaxDepth, NEW f \in Frame, Push(a, f)
  PROVE  /\ top' \in [Actor -> 0 .. MaxDepth]
         /\ frame' \in [Actor -> [Depth -> Frame]]
<1>1. top[a] + 1 \in Depth
  BY HandlesAssumption DEF TypeOK, Depth
<1>2. frame' \in [Actor -> [Depth -> Frame]]
  BY <1>1, SetFrame DEF Push
<1>3. top' \in [Actor -> 0 .. MaxDepth]
  BY <1>1 DEF Push, TypeOK, Depth
<1>. QED
  BY <1>2, <1>3

LEMMA IdleFrameType == IdleFrame \in Frame
  BY HandlesAssumption DEF IdleFrame, Frame, AllKinds, ProgramKinds, PC, Converting

LEMMA PopType ==
  ASSUME TypeOK, NEW a \in Actor, top[a] > 0, Pop(a)
  PROVE  /\ top' \in [Actor -> 0 .. MaxDepth]
         /\ frame' \in [Actor -> [Depth -> Frame]]
<1>1. top[a] \in Depth /\ top[a] - 1 \in 0 .. MaxDepth
  BY HandlesAssumption DEF TypeOK, Depth
<1>2. frame' \in [Actor -> [Depth -> Frame]]
  BY <1>1, IdleFrameType, SetFrame DEF Pop
<1>. QED
  BY <1>1, <1>2 DEF Pop, TypeOK

(* The RWMutex operations keep locks typed. *)
LEMMA LockType ==
  ASSUME TypeOK, NEW h \in Handle, NEW t \in Token,
         RLock(h, t) \/ RUnlock(h, t) \/ Unlock(h)
  PROVE  /\ readers' \in [Handle -> SUBSET Token]
         /\ parked' \in [Handle -> SUBSET Token]
         /\ writer' \in [Handle -> Actor \cup {NoActor}]
  BY DEF TypeOK, RLock, RUnlock, Unlock

LEMMA NewObjectsType ==
  ASSUME TypeOK, NEW new, NewObjects(new)
  PROVE  /\ ptr' \in [Handle -> BOOLEAN]
         /\ box' \in [Handle -> {"unborn", "live", "freed"}]
         /\ fin' \in [Handle -> BOOLEAN]
         /\ held' \in [Handle -> BOOLEAN]
<1>1. ASSUME NEW h \in Handle PROVE (ptr[h] \/ h \in new) \in BOOLEAN
  BY DEF TypeOK
<1>2. ASSUME NEW h \in Handle PROVE (fin[h] \/ h \in new) \in BOOLEAN
  BY DEF TypeOK
<1>3. ASSUME NEW h \in Handle PROVE (held[h] \/ h \in new) \in BOOLEAN
  BY DEF TypeOK
<1>. QED
  BY <1>1, <1>2, <1>3 DEF TypeOK, NewObjects

(* The program counters the code moves to are program counters. *)
LEMMA NextPcType ==
  ASSUME NEW k, NEW args
  PROVE  /\ NextPc(k, args) \in PC
         /\ NextPc(k, args) \in Converting => args # <<>>
  BY DEF NextPc, PC, Converting

(* What a Go function returns is a sequence of objects. *)
LEMMA ReturnListsType ==
  ASSUME NEW g, NEW s \in ReturnLists(g)
  PROVE  /\ s \in Seq(Handle)
         /\ \A i \in DOMAIN s : s[i] \in Returns /\ MayUse(g, s[i])
<1>. DEFINE R == {h \in Returns \ {Recv(g)} : MayUse(g, h)}
<1>1. PICK n \in 0 .. MaxArgs : s \in [1 .. n -> R]
  BY DEF ReturnLists
<1>2. n \in Nat /\ R \subseteq Handle
  BY HandlesAssumption, <1>1
<1>3. s \in Seq(Handle)
  BY <1>1, <1>2
<1>4. DOMAIN s = 1 .. n /\ \A i \in DOMAIN s : s[i] \in R
  BY <1>1
<1>. QED
  BY <1>3, <1>4

(* Each step of a call that reads keeps the state typed. *)
LEMMA CallStepType ==
  ASSUME TypeOK, NEW g \in Goroutine, CallStep(g) \/ CallbackEnds(g)
  PROVE  TypeOK'
<1>g. g \in Actor
  BY DEF Actor
<1>pc. /\ {"check", "runlock", "enter", "running", "bareagain", "bareuse", "lock"}
            \subseteq PC \ Converting
       /\ {"argcheck", "clone", "argrlock", "peer", "peeragain"} \subseteq PC \cap Converting
  BY DEF PC, Converting
<1>t. top[g] > 0
  BY DEF CallStep, CallbackEnds, CallbackReturn, FunctionReturns, FunctionPanics,
     RLockRecv, CheckRecv, RLockArg, CheckArg, CloneArg, ReadPeer, ReadPeerAgain,
     Enter, RUnlockArg, RUnlockRecv, CloseFunctionVm, ReadBare, ReadBareAgain,
     UseBare, At
<1>r. /\ Recv(g) \in Handle /\ Cur(g).args \in Seq(Handle)
      /\ Cur(g).use \in SUBSET Handle
      /\ Tok(g, "recv") \in Token /\ Tok(g, "arg") \in Token
      /\ Kept(g) \in SUBSET Handle
  BY <1>g, <1>t, CurType DEF Frame, Kept
<1>a. At(g, "argrlock") \/ At(g, "argcheck") \/ At(g, "clone") \/ At(g, "peer")
        \/ At(g, "peeragain") =>
        /\ Cur(g).args # <<>>
        /\ Arg(g) \in Handle
        /\ Tail(Cur(g).args) \in Seq(Handle)
  BY <1>g, <1>t, CurType DEF At, Converting
<1>1. CASE RLockRecv(g)
  <2>. /\ readers' \in [Handle -> SUBSET Token]
       /\ parked' \in [Handle -> SUBSET Token]
       /\ writer' \in [Handle -> Actor \cup {NoActor}]
    BY <1>1, <1>r, LockType DEF RLockRecv
  <2>. top' \in [Actor -> 0 .. MaxDepth] /\ frame' \in [Actor -> [Depth -> Frame]]
    BY <1>1, <1>g, <1>t, <1>pc, GotoType DEF RLockRecv
  <2>. QED
    BY <1>1 DEF RLockRecv, TypeOK, object
<1>2. CASE CheckRecv(g)
  <2>. DEFINE next == NextPc(Cur(g).kind, Cur(g).args)
  <2>1. next \in PC /\ (next \in Converting => Cur(g).args # <<>>)
    BY NextPcType
  <2>2. Goto(g, next, {Recv(g)}) \/ Goto(g, "runlock", {})
    BY <1>2 DEF CheckRecv
  <2>. HIDE DEF next
  <2>. top' \in [Actor -> 0 .. MaxDepth] /\ frame' \in [Actor -> [Depth -> Frame]]
    <3>1. CASE Goto(g, next, {Recv(g)})
      BY <1>g, <1>t, <1>r, <2>1, <3>1, GotoType
    <3>2. CASE Goto(g, "runlock", {})
      BY <1>g, <1>t, <1>pc, <3>2, GotoType
    <3>. QED
      BY <2>2, <3>1, <3>2
  <2>. QED
    BY <1>2 DEF CheckRecv, TypeOK, object, rwmutex
<1>3. CASE RLockArg(g)
  <2>. /\ readers' \in [Handle -> SUBSET Token]
       /\ parked' \in [Handle -> SUBSET Token]
       /\ writer' \in [Handle -> Actor \cup {NoActor}]
    BY <1>3, <1>r, <1>a, LockType DEF RLockArg
  <2>. top' \in [Actor -> 0 .. MaxDepth] /\ frame' \in [Actor -> [Depth -> Frame]]
    BY <1>3, <1>g, <1>t, <1>r, <1>a, <1>pc, GotoType DEF RLockArg
  <2>. QED
    BY <1>3 DEF RLockArg, TypeOK, object
<1>4. CASE CheckArg(g)
  <2>. DEFINE both == Kept(g) \cup {Arg(g)}
  <2>1. both \in SUBSET Handle /\ Cur(g).args # <<>>
    BY <1>4, <1>r, <1>a DEF CheckArg
  <2>2. \/ Goto(g, "enter", both) \/ Goto(g, "clone", both)
        \/ Goto(g, "enter", Kept(g)) \/ Goto(g, "runlock", {})
    BY <1>4 DEF CheckArg
  <2>. HIDE DEF both
  <2>. top' \in [Actor -> 0 .. MaxDepth] /\ frame' \in [Actor -> [Depth -> Frame]]
    BY <1>g, <1>t, <1>r, <1>pc, <2>1, <2>2, GotoType
  <2>. QED
    BY <1>4 DEF CheckArg, TypeOK, object, rwmutex
<1>5. CASE CloneArg(g)
  <2>. /\ readers' \in [Handle -> SUBSET Token]
       /\ parked' \in [Handle -> SUBSET Token]
       /\ writer' \in [Handle -> Actor \cup {NoActor}]
    BY <1>5, <1>r, <1>a, LockType DEF CloneArg
  <2>. DEFINE rest == Tail(Cur(g).args)
  <2>1. rest \in Seq(Handle) /\ Advance(g, NextPc(Cur(g).kind, rest), rest, Kept(g))
    BY <1>5, <1>a DEF CloneArg
  <2>. HIDE DEF rest
  <2>. top' \in [Actor -> 0 .. MaxDepth] /\ frame' \in [Actor -> [Depth -> Frame]]
    BY <1>g, <1>t, <1>r, <2>1, NextPcType, AdvanceType
  <2>. QED
    BY <1>5 DEF CloneArg, TypeOK, object
<1>6. CASE ReadPeer(g)
  <2>1. {Recv(g)} \in SUBSET Handle /\ <<>> \in Seq(Handle) /\ Cur(g).args # <<>>
    BY <1>6, <1>r, <1>a DEF ReadPeer
  <2>2. Goto(g, "peeragain", {Recv(g)}) \/ Advance(g, "runlock", <<>>, {})
    BY <1>6 DEF ReadPeer
  <2>. top' \in [Actor -> 0 .. MaxDepth] /\ frame' \in [Actor -> [Depth -> Frame]]
    <3>1. CASE Goto(g, "peeragain", {Recv(g)})
      BY <1>g, <1>t, <1>pc, <2>1, <3>1, GotoType
    <3>2. CASE Advance(g, "runlock", <<>>, {})
      <4>1. {} \in SUBSET Handle /\ "runlock" \in PC /\ "runlock" \notin Converting
        BY <1>pc
      <4>. QED
        BY <1>g, <1>t, <2>1, <3>2, <4>1, AdvanceType
    <3>. QED
      BY <2>2, <3>1, <3>2
  <2>. QED
    BY <1>6 DEF ReadPeer, TypeOK, object, rwmutex
<1>61. CASE ReadPeerAgain(g)
  <2>1. {Recv(g), Arg(g)} \in SUBSET Handle /\ <<>> \in Seq(Handle)
    BY <1>61, <1>r, <1>a DEF ReadPeerAgain
  <2>2. PICK use \in SUBSET Handle : Advance(g, "enter", <<>>, use)
    BY <1>61, <2>1 DEF ReadPeerAgain
  <2>. top' \in [Actor -> 0 .. MaxDepth] /\ frame' \in [Actor -> [Depth -> Frame]]
    BY <1>g, <1>t, <1>pc, <2>1, <2>2, AdvanceType
  <2>. QED
    BY <1>61 DEF ReadPeerAgain, TypeOK, object, rwmutex
<1>7. CASE Enter(g)
  <2>1. Goto(g, "running", Cur(g).use) \/ Goto(g, "runlock", {})
    BY <1>7 DEF Enter
  <2>. top' \in [Actor -> 0 .. MaxDepth] /\ frame' \in [Actor -> [Depth -> Frame]]
    BY <1>g, <1>t, <1>r, <1>pc, <2>1, GotoType
  <2>2. UNCHANGED object \/ \E new \in Results : NewObjects(new)
    BY <1>7 DEF Enter
  <2>3. CASE UNCHANGED object
    BY <1>7, <2>3 DEF Enter, TypeOK, object, rwmutex
  <2>4. CASE \E new \in Results : NewObjects(new)
    BY <1>7, <2>4, NewObjectsType DEF Enter, TypeOK, rwmutex
  <2>. QED
    BY <2>2, <2>3, <2>4
<1>8. CASE CallbackReturn(g)
  <2>. top' \in [Actor -> 0 .. MaxDepth] /\ frame' \in [Actor -> [Depth -> Frame]]
    BY <1>8, <1>g, <1>t, <1>pc, GotoType DEF CallbackReturn
  <2>. QED
    BY <1>8, NewObjectsType DEF CallbackReturn, TypeOK, rwmutex
<1>9. CASE RUnlockArg(g)
  <2>1. Arg(g) \in Handle
    BY <1>9, <1>g, <1>t, CurType DEF RUnlockArg
  <2>. QED
    BY <1>9, <1>r, <2>1, LockType DEF RUnlockArg, TypeOK, object, calls
<1>10. CASE RUnlockRecv(g)
  <2>. top' \in [Actor -> 0 .. MaxDepth] /\ frame' \in [Actor -> [Depth -> Frame]]
    BY <1>10, <1>g, <1>t, PopType DEF RUnlockRecv
  <2>. QED
    BY <1>10, <1>r, LockType DEF RUnlockRecv, TypeOK, object
<1>81. CASE FunctionReturns(g)
  <2>1. PICK s \in ReturnLists(g) : Advance(g, NextPc("function", s), s, {})
    BY <1>81 DEF FunctionReturns
  <2>2. s \in Seq(Handle) /\ {} \in SUBSET Handle
    BY <2>1, ReturnListsType
  <2>. top' \in [Actor -> 0 .. MaxDepth] /\ frame' \in [Actor -> [Depth -> Frame]]
    BY <1>g, <1>t, <2>1, <2>2, NextPcType, AdvanceType
  <2>. QED
    BY <1>81 DEF FunctionReturns, TypeOK, object, rwmutex
<1>82. CASE FunctionPanics(g)
  <2>. top' \in [Actor -> 0 .. MaxDepth] /\ frame' \in [Actor -> [Depth -> Frame]]
    BY <1>82, <1>g, <1>t, PopType DEF FunctionPanics
  <2>. QED
    BY <1>82 DEF FunctionPanics, TypeOK, object, rwmutex
<1>83. CASE CloseFunctionVm(g)
  <2>1. <<>> \in Seq(Handle) /\ {} \in SUBSET Handle
    OBVIOUS
  <2>. top' \in [Actor -> 0 .. MaxDepth] /\ frame' \in [Actor -> [Depth -> Frame]]
    BY <1>83, <1>g, <1>t, <1>pc, <2>1, AdvanceType DEF CloseFunctionVm
  <2>. QED
    BY <1>83 DEF CloseFunctionVm, TypeOK, object, rwmutex
<1>11. CASE ReadBare(g)
  <2>. top' \in [Actor -> 0 .. MaxDepth] /\ frame' \in [Actor -> [Depth -> Frame]]
    BY <1>11, <1>g, <1>t, <1>r, <1>pc, GotoType, PopType DEF ReadBare
  <2>. QED
    BY <1>11 DEF ReadBare, TypeOK, object, rwmutex
<1>13. CASE ReadBareAgain(g)
  <2>1. PICK use \in SUBSET Handle : Goto(g, "bareuse", use)
    BY <1>13, <1>r DEF ReadBareAgain
  <2>. top' \in [Actor -> 0 .. MaxDepth] /\ frame' \in [Actor -> [Depth -> Frame]]
    BY <1>g, <1>t, <1>pc, <2>1, GotoType
  <2>. QED
    BY <1>13 DEF ReadBareAgain, TypeOK, object, rwmutex
<1>12. CASE UseBare(g)
  <2>. top' \in [Actor -> 0 .. MaxDepth] /\ frame' \in [Actor -> [Depth -> Frame]]
    BY <1>12, <1>g, <1>t, PopType DEF UseBare
  <2>. QED
    BY <1>12 DEF UseBare, TypeOK, object, rwmutex
<1>. QED
  BY <1>1, <1>2, <1>3, <1>4, <1>5, <1>6, <1>61, <1>7, <1>8, <1>81, <1>82, <1>83, <1>9,
     <1>10, <1>11, <1>12, <1>13 DEF CallStep, CallbackEnds

(* Each step of a Close does too. *)
LEMMA CloseStepType ==
  ASSUME TypeOK, NEW a \in Actor, CloseStep(a)
  PROVE  TypeOK'
<1>pc. {"drain", "dtor", "clear"} \subseteq PC \ Converting
  BY DEF PC, Converting
<1>t. top[a] > 0
  BY DEF CloseStep, Lock, Drain, Dtor, ClearPtr, At
<1>r. Recv(a) \in Handle /\ {Recv(a)} \in SUBSET Handle /\ Tok(a, "recv") \in Token
  BY <1>t, CurType
<1>1. CASE Lock(a)
  <2>. top' \in [Actor -> 0 .. MaxDepth] /\ frame' \in [Actor -> [Depth -> Frame]]
    BY <1>1, <1>t, <1>pc, GotoType DEF Lock
  <2>. QED
    BY <1>1, <1>r DEF Lock, TypeOK, object
<1>2. CASE Drain(a)
  <2>. top' \in [Actor -> 0 .. MaxDepth] /\ frame' \in [Actor -> [Depth -> Frame]]
    BY <1>2, <1>t, <1>r, <1>pc, GotoType, PopType DEF Drain
  <2>1. UNCHANGED rwmutex \/ Unlock(Recv(a))
    BY <1>2 DEF Drain
  <2>. /\ readers' \in [Handle -> SUBSET Token]
       /\ parked' \in [Handle -> SUBSET Token]
       /\ writer' \in [Handle -> Actor \cup {NoActor}]
    BY <2>1, <1>r, LockType DEF rwmutex, TypeOK
  <2>. QED
    BY <1>2 DEF Drain, TypeOK, object
<1>3. CASE Dtor(a)
  <2>. top' \in [Actor -> 0 .. MaxDepth] /\ frame' \in [Actor -> [Depth -> Frame]]
    BY <1>3, <1>t, <1>pc, GotoType DEF Dtor
  <2>. QED
    BY <1>3, <1>r DEF Dtor, TypeOK, rwmutex
<1>4. CASE ClearPtr(a)
  <2>. top' \in [Actor -> 0 .. MaxDepth] /\ frame' \in [Actor -> [Depth -> Frame]]
    BY <1>4, <1>t, PopType DEF ClearPtr
  <2>. /\ readers' \in [Handle -> SUBSET Token]
       /\ parked' \in [Handle -> SUBSET Token]
       /\ writer' \in [Handle -> Actor \cup {NoActor}]
    BY <1>4, <1>r, LockType DEF ClearPtr
  <2>. QED
    BY <1>4, <1>r DEF ClearPtr, TypeOK
<1>. QED
  BY <1>1, <1>2, <1>3, <1>4 DEF CloseStep

(* A frame to spare, above none or above one that waits for Go code: what an *)
(* actor has that may start a call, and Lua when it calls a Go function.     *)
Ready(a) == top[a] < MaxDepth /\ (top[a] = 0 \/ At(a, "running"))

LEMMA CanStartReady ==
  ASSUME TypeOK, NEW a \in Actor, CanStart(a)
  PROVE  Ready(a)
  BY HandlesAssumption DEF CanStart, InProgram, Ready, TypeOK

LEMMA CallFunctionReady ==
  ASSUME TypeOK, NEW g \in Goroutine, CallFunction(g)
  PROVE  Ready(g)
  BY DEF CallFunction, Ready

FunctionFrame(v) == [kind |-> "function", recv |-> v, args |-> <<>>,
                     pc |-> "running", use |-> {}]

LEMMA FunctionFrameType == \A v \in Handle : FunctionFrame(v) \in Frame
  BY DEF FunctionFrame, Frame, AllKinds, ProgramKinds, PC, Converting

(* What CallFunction does, with a name for the VM it makes. *)
LEMMA CallFunctionVm ==
  ASSUME NEW g \in Goroutine, CallFunction(g)
  PROVE  \E v \in Unborn \cap FunctionVm :
           NewObjects({v}) /\ Push(g, FunctionFrame(v)) /\ UNCHANGED rwmutex
  BY DEF CallFunction, FunctionFrame

LEMMA CallFunctionType ==
  ASSUME TypeOK, NEW g \in Goroutine, CallFunction(g)
  PROVE  TypeOK'
<1>1. g \in Actor /\ top[g] < MaxDepth
  BY DEF Actor, CallFunction
<1>2. PICK v \in Unborn \cap FunctionVm :
        NewObjects({v}) /\ Push(g, FunctionFrame(v)) /\ UNCHANGED rwmutex
  BY CallFunctionVm
<1>3. FunctionFrame(v) \in Frame
  BY <1>2, FunctionFrameType DEF Unborn
<1>4. top' \in [Actor -> 0 .. MaxDepth] /\ frame' \in [Actor -> [Depth -> Frame]]
  BY <1>1, <1>2, <1>3, PushType
<1>. QED
  BY <1>2, <1>4, NewObjectsType DEF TypeOK, rwmutex

LEMMA CloseFrameType == \A h \in Handle : CloseFrame(h) \in Frame
  BY DEF CloseFrame, Frame, AllKinds, ProgramKinds, PC, Converting

LEMMA StartType ==
  ASSUME TypeOK, NEW g \in Goroutine, Start(g)
  PROVE  TypeOK'
<1>g. g \in Actor
  BY DEF Actor
<1>m. CanStart(g) => top[g] < MaxDepth
  BY <1>g, CanStartReady DEF Ready
<1>1. CASE Create(g)
  BY <1>1, NewObjectsType DEF Create, TypeOK, rwmutex, calls
<1>2. CASE StartCall(g)
  <2>0. PICK k \in Kinds \ {"bare", "close"}, r \in Handle \ ErrorHandle :
          \E s \in ArgLists(g, k, r) :
            Push(g, [kind |-> k, recv |-> r, args |-> s, pc |-> "rlock", use |-> {}])
    BY <1>2 DEF StartCall
  <2>1. PICK s \in ArgLists(g, k, r) :
          Push(g, [kind |-> k, recv |-> r, args |-> s, pc |-> "rlock", use |-> {}])
    BY <2>0
  <2>2. s \in Seq(Handle)
    BY HandlesAssumption DEF ArgLists
  <2>. DEFINE f == [kind |-> k, recv |-> r, args |-> s, pc |-> "rlock", use |-> {}]
  <2>3. f \in Frame
    BY <2>2, HandlesAssumption DEF Frame, AllKinds, ProgramKinds, PC, Converting
  <2>4. Push(g, f)
    BY <2>1
  <2>. HIDE DEF f
  <2>. top' \in [Actor -> 0 .. MaxDepth] /\ frame' \in [Actor -> [Depth -> Frame]]
    BY <1>2, <1>g, <1>m, <2>3, <2>4, PushType DEF StartCall
  <2>. QED
    BY <1>2 DEF StartCall, TypeOK, object, rwmutex
<1>3. CASE StartBare(g)
  <2>1. PICK h \in ErrorHandle :
          Push(g, [kind |-> "bare", recv |-> h, args |-> <<>>, pc |-> "bare", use |-> {}])
    BY <1>3 DEF StartBare
  <2>. DEFINE f == [kind |-> "bare", recv |-> h, args |-> <<>>, pc |-> "bare", use |-> {}]
  <2>2. f \in Frame
    BY HandlesAssumption DEF Frame, AllKinds, ProgramKinds, PC, Converting
  <2>3. Push(g, f)
    BY <2>1
  <2>. HIDE DEF f
  <2>. top' \in [Actor -> 0 .. MaxDepth] /\ frame' \in [Actor -> [Depth -> Frame]]
    BY <1>3, <1>g, <1>m, <2>2, <2>3, PushType DEF StartBare
  <2>. QED
    BY <1>3 DEF StartBare, TypeOK, object, rwmutex
<1>4. CASE StartClose(g)
  <2>. top' \in [Actor -> 0 .. MaxDepth] /\ frame' \in [Actor -> [Depth -> Frame]]
    BY <1>4, <1>g, <1>m, CloseFrameType, PushType DEF StartClose
  <2>. QED
    BY <1>4 DEF StartClose, TypeOK, object, rwmutex
<1>. QED
  BY <1>1, <1>2, <1>3, <1>4 DEF Start

LEMMA CollectType ==
  ASSUME TypeOK, NEW h \in Handle, Forget(h) \/ RunFinalizer(h)
  PROVE  TypeOK'
<1>1. CASE Forget(h)
  BY <1>1 DEF Forget, TypeOK, rwmutex, calls
<1>2. CASE RunFinalizer(h)
  <2>1. Finalizer \in Actor /\ top[Finalizer] < MaxDepth
    BY <1>2, HandlesAssumption DEF RunFinalizer, Actor
  <2>. top' \in [Actor -> 0 .. MaxDepth] /\ frame' \in [Actor -> [Depth -> Frame]]
    BY <1>2, <2>1, CloseFrameType, PushType DEF RunFinalizer
  <2>. QED
    BY <1>2 DEF RunFinalizer, TypeOK, rwmutex
<1>. QED
  BY <1>1, <1>2

LEMMA InitType == Init => TypeOK
  BY IdleFrameType, HandlesAssumption DEF Init, TypeOK

LEMMA NextType == TypeOK /\ [Next]_vars => TypeOK'
<1>. SUFFICES ASSUME TypeOK, [Next]_vars PROVE TypeOK'
  OBVIOUS
<1>1. CASE UNCHANGED vars
  BY <1>1 DEF TypeOK, vars, object, rwmutex, calls
<1>2. CASE Next
  BY <1>2, CallStepType, CloseStepType, StartType, CallFunctionType, CollectType
     DEF Next
<1>. QED
  BY <1>1, <1>2

(* Type correctness: the state is always well formed; a frame that converts  *)
(* an argument has one to convert.                                           *)
THEOREM TypeCorrect == Spec => []TypeOK
<1>. QED
  BY InitType, NextType, PTL DEF Spec

-----------------------------------------------------------------------------
(* Safety of the pointers.  LockedCallsNeverStale is not inductive: that a    *)
(* pointer in use is live follows from the read lock the call holds on it,    *)
(* and that needs to know which locks a call holds where, and that a Close    *)
(* past its drain excludes every reader.                                      *)

Closing == {"lock", "drain", "dtor", "clear"}
WriterHeld == {"drain", "dtor", "clear"}
ReceiverHeld == {"peer", "peeragain", "argrlock", "argcheck", "clone", "enter", "running"}
NoPointer == {"rlock", "check", "runlock", "lock", "drain", "clear", "bare",
              "bareagain"}
FunctionPC == {"running", "argrlock", "argcheck", "clone", "runlock"} \cup Closing

(* What a call in progress is entitled to. *)
FrameOK(a, d) ==
  LET f == frame[a][d] IN
    /\ f.kind = "close" => f.pc \in Closing
    /\ f.pc \in Closing => f.kind \in {"close", "function"}
    /\ f.kind = "function" => f.pc \in FunctionPC
    /\ (f.kind = "bare") <=> (f.pc \in {"bare", "bareagain", "bareuse"})
    /\ f.pc \in {"peer", "peeragain"} => f.kind = "peer"
    /\ f.pc \in NoPointer => f.use = {}
    /\ f.pc \in ReceiverHeld /\ f.kind # "function" =>
         <<a, d, "recv">> \in readers[f.recv] /\ box[f.recv] = "live"
    /\ f.kind \notin Unlocked /\ f.pc # "dtor" =>
         \A h \in f.use : /\ <<a, d, "recv">> \in readers[h] \/ <<a, d, "arg">> \in readers[h]
                          /\ box[h] = "live"
    /\ f.pc \in WriterHeld => writer[f.recv] = a
    /\ f.pc \in {"dtor", "clear"} => readers[f.recv] = {}
    /\ f.pc = "dtor" => f.use = {f.recv} /\ box[f.recv] = "live"

CallsOK == \A a \in Actor : \A d \in Depth : Active(a, d) => FrameOK(a, d)

(* Only the innermost call moves: the others wait for their callback. *)
OthersRunning ==
  \A a \in Actor : \A d \in Depth :
    Active(a, d) /\ d < top[a] => frame[a][d].pc = "running"

(* A non-nil pointer is good, but for the moment between dtor and ptr = nil. *)
PointersGood ==
  \A h \in Handle : ptr[h] /\ box[h] # "live" =>
    \E a \in Actor : At(a, "clear") /\ Recv(a) = h

IInv == TypeOK /\ CallsOK /\ OthersRunning /\ PointersGood

(* A step that leaves alone the locks a frame has and the allocations they    *)
(* guard ...                                                                  *)
Undisturbed(b, e) ==
  /\ \A h \in Handle, role \in {"recv", "arg"} : <<b, e, role>> \in readers[h] =>
       <<b, e, role>> \in readers'[h] /\ (box[h] = "live" => box'[h] = "live")
  /\ frame[b][e].pc \in WriterHeld =>
       /\ writer'[frame[b][e].recv] = b
       /\ readers[frame[b][e].recv] = {} => readers'[frame[b][e].recv] = {}
       /\ box[frame[b][e].recv] = "live" => box'[frame[b][e].recv] = "live"

OthersUndisturbed(a, d) ==
  \A b \in Actor : \A e \in Depth :
    Active(b, e) /\ <<b, e>> # <<a, d>> => Undisturbed(b, e)

(* ... leaves it entitled to what it was. *)
LEMMA FrameKept ==
  ASSUME NEW b \in Actor, NEW e \in Depth, FrameOK(b, e), frame[b][e] \in Frame,
         frame'[b][e] = frame[b][e], Undisturbed(b, e)
  PROVE  FrameOK(b, e)'
<1>. DEFINE f == frame[b][e]
<1>1. f.recv \in Handle /\ f.use \subseteq Handle
  BY DEF Frame
<1>2. f.pc \in ReceiverHeld /\ f.kind # "function" =>
        <<b, e, "recv">> \in readers'[f.recv] /\ box'[f.recv] = "live"
  BY <1>1 DEF FrameOK, Undisturbed
<1>3. f.kind \notin Unlocked /\ f.pc # "dtor" =>
        \A h \in f.use : /\ <<b, e, "recv">> \in readers'[h] \/ <<b, e, "arg">> \in readers'[h]
                         /\ box'[h] = "live"
  BY <1>1 DEF FrameOK, Undisturbed
<1>4. /\ f.pc \in WriterHeld => writer'[f.recv] = b
      /\ f.pc \in {"dtor", "clear"} => readers'[f.recv] = {}
      /\ f.pc = "dtor" => f.use = {f.recv} /\ box'[f.recv] = "live"
  BY DEF FrameOK, WriterHeld, Undisturbed
<1>5. /\ f.kind = "close" => f.pc \in Closing
      /\ f.pc \in Closing => f.kind \in {"close", "function"}
      /\ f.kind = "function" => f.pc \in FunctionPC
      /\ (f.kind = "bare") <=> (f.pc \in {"bare", "bareagain", "bareuse"})
      /\ f.pc \in {"peer", "peeragain"} => f.kind = "peer"
      /\ f.pc \in NoPointer => f.use = {}
  BY DEF FrameOK
<1>. QED
  BY <1>2, <1>3, <1>4, <1>5 DEF FrameOK

(* The three ways frames change. *)
LEMMA AdvanceFrame ==
  ASSUME TypeOK, NEW a \in Actor, top[a] \in Depth, NEW pc, NEW args, NEW use,
         Advance(a, pc, args, use)
  PROVE  /\ top' = top
         /\ frame'[a][top[a]] = [kind |-> Cur(a).kind, recv |-> Recv(a), args |-> args,
                                 pc |-> pc, use |-> use]
         /\ \A b \in Actor, e \in Depth : <<b, e>> # <<a, top[a]>> => frame'[b][e] = frame[b][e]
<1>. DEFINE f == [kind |-> Cur(a).kind, recv |-> Recv(a), args |-> args, pc |-> pc, use |-> use]
            row == [frame[a] EXCEPT ![top[a]] = f]
<1>1. frame' = [frame EXCEPT ![a] = row] /\ top' = top
  BY DEF Advance
<1>. HIDE DEF f
<1>2. row[top[a]] = f /\ \A e \in Depth : e # top[a] => row[e] = frame[a][e]
  BY DEF TypeOK
<1>. HIDE DEF row
<1>3. frame'[a] = row /\ \A b \in Actor : b # a => frame'[b] = frame[b]
  BY <1>1 DEF TypeOK
<1>4. frame'[a][top[a]] = f
        /\ \A b \in Actor, e \in Depth : <<b, e>> # <<a, top[a]>> => frame'[b][e] = frame[b][e]
  BY <1>2, <1>3
<1>. QED
  BY <1>1, <1>4 DEF f

LEMMA PushFrame ==
  ASSUME TypeOK, NEW a \in Actor, Ready(a), NEW f, Push(a, f)
  PROVE  /\ top[a] + 1 \in Depth
         /\ top'[a] = top[a] + 1
         /\ \A b \in Actor : b # a => top'[b] = top[b]
         /\ frame'[a][top[a] + 1] = f
         /\ \A b \in Actor, e \in Depth : <<b, e>> # <<a, top[a] + 1>> => frame'[b][e] = frame[b][e]
<1>. DEFINE row == [frame[a] EXCEPT ![top[a] + 1] = f]
<1>1. top[a] + 1 \in Depth
  BY HandlesAssumption DEF TypeOK, Depth, Ready
<1>2. frame' = [frame EXCEPT ![a] = row]
  BY DEF Push
<1>3. row[top[a] + 1] = f /\ \A e \in Depth : e # top[a] + 1 => row[e] = frame[a][e]
  BY <1>1 DEF TypeOK
<1>. HIDE DEF row
<1>4. frame'[a] = row /\ \A b \in Actor : b # a => frame'[b] = frame[b]
  BY <1>2 DEF TypeOK
<1>5. top'[a] = top[a] + 1 /\ \A b \in Actor : b # a => top'[b] = top[b]
  BY DEF Push, TypeOK
<1>. QED
  BY <1>1, <1>3, <1>4, <1>5

LEMMA PopFrame ==
  ASSUME TypeOK, NEW a \in Actor, top[a] \in Depth, Pop(a)
  PROVE  /\ top'[a] = top[a] - 1
         /\ \A b \in Actor : b # a => top'[b] = top[b]
         /\ \A b \in Actor, e \in Depth : <<b, e>> # <<a, top[a]>> => frame'[b][e] = frame[b][e]
<1>. DEFINE row == [frame[a] EXCEPT ![top[a]] = IdleFrame]
<1>1. frame' = [frame EXCEPT ![a] = row]
  BY DEF Pop
<1>2. \A e \in Depth : e # top[a] => row[e] = frame[a][e]
  BY DEF TypeOK
<1>. HIDE DEF row
<1>3. frame'[a] = row /\ \A b \in Actor : b # a => frame'[b] = frame[b]
  BY <1>1 DEF TypeOK
<1>4. top'[a] = top[a] - 1 /\ \A b \in Actor : b # a => top'[b] = top[b]
  BY DEF Pop, TypeOK
<1>. QED
  BY <1>2, <1>3, <1>4

(* The frame an actor is in, as the invariant describes it. *)
LEMMA CurOK ==
  ASSUME IInv, NEW a \in Actor, top[a] > 0
  PROVE  top[a] \in Depth /\ Active(a, top[a]) /\ FrameOK(a, top[a])
<1>1. top[a] \in Depth
  BY CurType DEF IInv
<1>2. Active(a, top[a])
  BY <1>1 DEF Active, Depth
<1>. QED
  BY <1>1, <1>2 DEF IInv, CallsOK

(* A pointer read under any read lock is good. *)
LEMMA LockedPointerLive ==
  ASSUME IInv, NEW h \in Handle, ptr[h], readers[h] # {}
  PROVE  box[h] = "live"
<1>. SUFFICES ASSUME box[h] # "live" PROVE FALSE
  OBVIOUS
<1>1. PICK a \in Actor : At(a, "clear") /\ Recv(a) = h
  BY DEF IInv, PointersGood
<1>2. FrameOK(a, top[a]) /\ frame[a][top[a]].pc = "clear" /\ frame[a][top[a]].recv = h
  BY <1>1, CurOK DEF At, Recv, Cur
<1>. QED
  BY <1>2 DEF FrameOK

(* The call a is in moves on, still entitled, and disturbs no other. *)
LEMMA AdvanceCalls ==
  ASSUME IInv, NEW a \in Actor, top[a] > 0,
         NEW pc, NEW args, NEW use, Advance(a, pc, args, use),
         FrameOK(a, top[a])', OthersUndisturbed(a, top[a])
  PROVE  CallsOK' /\ OthersRunning'
<1>1. top[a] \in Depth
  BY CurOK
<1>2. /\ top' = top
      /\ \A b \in Actor, e \in Depth : <<b, e>> # <<a, top[a]>> => frame'[b][e] = frame[b][e]
  BY <1>1, AdvanceFrame DEF IInv
<1>3. CallsOK'
  <2>. SUFFICES ASSUME NEW b \in Actor, NEW e \in Depth, Active(b, e)' PROVE FrameOK(b, e)'
    BY DEF CallsOK
  <2>1. Active(b, e)
    BY <1>2 DEF Active
  <2>2. CASE <<b, e>> = <<a, top[a]>>
    BY <1>2, <2>2
  <2>3. CASE <<b, e>> # <<a, top[a]>>
    BY <1>2, <2>1, <2>3, FrameKept DEF OthersUndisturbed, IInv, CallsOK, TypeOK
  <2>. QED
    BY <2>2, <2>3
<1>4. OthersRunning'
  BY <1>1, <1>2 DEF OthersRunning, IInv, Active, TypeOK, Depth
<1>. QED
  BY <1>3, <1>4

(* A call is entered, disturbing no other. *)
LEMMA PushCalls ==
  ASSUME IInv, NEW a \in Actor, Ready(a), NEW f, Push(a, f),
         NEW d, d = top[a] + 1, FrameOK(a, d)', OthersUndisturbed(a, d)
  PROVE  CallsOK' /\ OthersRunning'
<1>1. /\ top[a] + 1 \in Depth
      /\ top'[a] = top[a] + 1
      /\ \A b \in Actor : b # a => top'[b] = top[b]
      /\ \A b \in Actor, e \in Depth : <<b, e>> # <<a, top[a] + 1>> => frame'[b][e] = frame[b][e]
  BY PushFrame DEF IInv
<1>2. top[a] \in Nat /\ \A b \in Actor : top[b] \in Nat
  BY HandlesAssumption DEF IInv, TypeOK
<1>3. ASSUME NEW b \in Actor, NEW e \in Depth, Active(b, e)', <<b, e>> # <<a, top[a] + 1>>
      PROVE  Active(b, e) /\ frame'[b][e] = frame[b][e]
  BY <1>1, <1>2, <1>3 DEF Active, Depth
<1>4. CallsOK'
  <2>. SUFFICES ASSUME NEW b \in Actor, NEW e \in Depth, Active(b, e)' PROVE FrameOK(b, e)'
    BY DEF CallsOK
  <2>1. CASE <<b, e>> = <<a, top[a] + 1>>
    <3>1. b = a /\ e = d
      BY <2>1
    <3>. QED
      BY <3>1
  <2>2. CASE <<b, e>> # <<a, top[a] + 1>>
    <3>1. Active(b, e) /\ frame'[b][e] = frame[b][e] /\ FrameOK(b, e) /\ frame[b][e] \in Frame
      BY <1>3, <2>2 DEF IInv, CallsOK, TypeOK
    <3>2. Undisturbed(b, e)
      BY <2>2, <3>1 DEF OthersUndisturbed
    <3>. QED
      BY <3>1, <3>2, FrameKept
  <2>. QED
    BY <2>1, <2>2
<1>5. OthersRunning'
  <2>. SUFFICES ASSUME NEW b \in Actor, NEW e \in Depth, Active(b, e)', e < top'[b]
                PROVE  frame'[b][e].pc = "running"
    BY DEF OthersRunning
  <2>1. Active(b, e) /\ frame'[b][e] = frame[b][e]
    BY <1>1, <1>2, <1>3 DEF Depth
  <2>2. CASE b = a /\ e = top[a]
    BY <2>1, <2>2, <1>2 DEF Ready, At, Cur, Active
  <2>3. CASE ~(b = a /\ e = top[a])
    BY <1>1, <1>2, <2>1, <2>3 DEF IInv, OthersRunning, Active, Depth
  <2>. QED
    BY <2>2, <2>3
<1>. QED
  BY <1>4, <1>5

(* A call returns, disturbing no other. *)
LEMMA PopCalls ==
  ASSUME IInv, NEW a \in Actor, top[a] > 0, Pop(a), OthersUndisturbed(a, top[a])
  PROVE  CallsOK' /\ OthersRunning'
<1>1. top[a] \in Depth
  BY CurOK
<1>2. /\ top'[a] = top[a] - 1
      /\ \A b \in Actor : b # a => top'[b] = top[b]
      /\ \A b \in Actor, e \in Depth : <<b, e>> # <<a, top[a]>> => frame'[b][e] = frame[b][e]
  BY <1>1, PopFrame DEF IInv
<1>3. \A b \in Actor : top[b] \in Nat
  BY HandlesAssumption DEF IInv, TypeOK
<1>4. ASSUME NEW b \in Actor, NEW e \in Depth, Active(b, e)'
      PROVE  Active(b, e) /\ <<b, e>> # <<a, top[a]>> /\ frame'[b][e] = frame[b][e]
  BY <1>2, <1>3, <1>4 DEF Active, Depth
<1>5. CallsOK'
  BY <1>4, FrameKept DEF CallsOK, OthersUndisturbed, IInv, TypeOK
<1>6. OthersRunning'
  BY <1>2, <1>3, <1>4 DEF OthersRunning, IInv, Active, Depth
<1>. QED
  BY <1>5, <1>6

-----------------------------------------------------------------------------
(* What the steps disturb. *)

LEMMA UndisturbedIfUnchanged ==
  ASSUME IInv, NEW a, NEW d, UNCHANGED <<readers, writer, box>>
  PROVE  OthersUndisturbed(a, d)
  BY DEF IInv, CallsOK, OthersUndisturbed, Undisturbed, FrameOK

(* New allocations disturb nobody. *)
LEMMA UndisturbedByNewObjects ==
  ASSUME IInv, NEW a, NEW d, NEW new, new \subseteq Unborn, NewObjects(new),
         UNCHANGED <<readers, writer>>
  PROVE  OthersUndisturbed(a, d)
<1>. SUFFICES ASSUME NEW b \in Actor, NEW e \in Depth, Active(b, e) PROVE Undisturbed(b, e)
  BY DEF OthersUndisturbed
<1>1. FrameOK(b, e) /\ frame[b][e].recv \in Handle
  BY DEF IInv, CallsOK, TypeOK, Frame
<1>2. \A h \in Handle : box[h] # "unborn" => box'[h] = box[h]
  BY DEF NewObjects, Unborn
<1>3. frame[b][e].pc \in WriterHeld => writer'[frame[b][e].recv] = b
  BY <1>1 DEF FrameOK
<1>. QED
  BY <1>1, <1>2, <1>3 DEF Undisturbed

(* A reader is admitted, or parks, only where no Close is past its drain. *)
LEMMA UndisturbedByRLock ==
  ASSUME IInv, NEW a, NEW d, NEW h \in Handle, NEW t, RLock(h, t), UNCHANGED box
  PROVE  OthersUndisturbed(a, d)
<1>. SUFFICES ASSUME NEW b \in Actor, NEW e \in Depth, Active(b, e) PROVE Undisturbed(b, e)
  BY DEF OthersUndisturbed
<1>1. FrameOK(b, e) /\ frame[b][e].recv \in Handle /\ b # NoActor
  BY HandlesAssumption DEF IInv, CallsOK, TypeOK, Frame, Actor
<1>2. \A k \in Handle : readers[k] \subseteq readers'[k]
  BY DEF RLock, IInv, TypeOK
<1>3. \A k \in Handle : writer[k] # NoActor => readers'[k] = readers[k]
  BY DEF RLock, IInv, TypeOK
<1>4. frame[b][e].pc \in WriterHeld => writer[frame[b][e].recv] = b
  BY <1>1 DEF FrameOK
<1>. QED
  BY <1>1, <1>2, <1>3, <1>4 DEF Undisturbed, RLock

(* A reader leaves: only its own call loses a lock. *)
LEMMA UndisturbedByRUnlock ==
  ASSUME IInv, NEW a, NEW d, NEW h \in Handle, NEW role, RUnlock(h, <<a, d, role>>),
         UNCHANGED box
  PROVE  OthersUndisturbed(a, d)
<1>. SUFFICES ASSUME NEW b \in Actor, NEW e \in Depth, Active(b, e), <<b, e>> # <<a, d>>
              PROVE  Undisturbed(b, e)
  BY DEF OthersUndisturbed
<1>1. FrameOK(b, e) /\ frame[b][e].recv \in Handle
  BY DEF IInv, CallsOK, TypeOK, Frame
<1>2. \A k \in Handle : readers'[k] = readers[k] \/ readers'[k] = readers[k] \ {<<a, d, role>>}
  BY DEF RUnlock, IInv, TypeOK
<1>3. \A r \in {"recv", "arg"} : <<b, e, r>> # <<a, d, role>>
  OBVIOUS
<1>4. frame[b][e].pc \in WriterHeld => writer[frame[b][e].recv] = b
  BY <1>1 DEF FrameOK
<1>. QED
  BY <1>1, <1>2, <1>3, <1>4 DEF Undisturbed, RUnlock

(* The writer of an object is unique: while a is past Lock, no other call is. *)
LEMMA OneWriter ==
  ASSUME IInv, NEW a \in Actor, top[a] > 0, Cur(a).pc \in WriterHeld,
         NEW b \in Actor, NEW e \in Depth, Active(b, e), <<b, e>> # <<a, top[a]>>,
         frame[b][e].pc \in WriterHeld
  PROVE  frame[b][e].recv # Recv(a)
<1>1. top[a] \in Depth /\ FrameOK(a, top[a]) /\ FrameOK(b, e)
  BY CurOK DEF IInv, CallsOK
<1>2. writer[Recv(a)] = a /\ writer[frame[b][e].recv] = b
  BY <1>1 DEF FrameOK, Cur, Recv
<1>3. CASE b = a
  <2>1. e < top[a] /\ frame[b][e].pc = "running"
    BY <1>1, <1>3 DEF IInv, OthersRunning, Active, TypeOK, Depth
  <2>. QED
    BY <2>1 DEF WriterHeld
<1>. QED
  BY <1>2, <1>3

(* The end of a Close admits the readers that waited for it. *)
LEMMA UndisturbedByUnlock ==
  ASSUME IInv, NEW a \in Actor, top[a] > 0, Cur(a).pc \in WriterHeld,
         Unlock(Recv(a)), UNCHANGED box
  PROVE  OthersUndisturbed(a, top[a])
<1>. SUFFICES ASSUME NEW b \in Actor, NEW e \in Depth, Active(b, e), <<b, e>> # <<a, top[a]>>
              PROVE  Undisturbed(b, e)
  BY DEF OthersUndisturbed
<1>1. FrameOK(b, e) /\ frame[b][e].recv \in Handle /\ Recv(a) \in Handle
  BY CurType DEF IInv, CallsOK, TypeOK, Frame
<1>2. \A k \in Handle : readers[k] \subseteq readers'[k]
  BY DEF Unlock, IInv, TypeOK
<1>3. \A k \in Handle : k # Recv(a) => readers'[k] = readers[k] /\ writer'[k] = writer[k]
  BY DEF Unlock, IInv, TypeOK
<1>4. frame[b][e].pc \in WriterHeld => /\ writer[frame[b][e].recv] = b
                                      /\ frame[b][e].recv # Recv(a)
  BY <1>1, OneWriter DEF FrameOK
<1>. QED
  BY <1>1, <1>2, <1>3, <1>4 DEF Undisturbed

(* The destructor frees what no other call has a lock on. *)
LEMMA UndisturbedByDtor ==
  ASSUME IInv, NEW a \in Actor, Dtor(a)
  PROVE  OthersUndisturbed(a, top[a])
<1>. SUFFICES ASSUME NEW b \in Actor, NEW e \in Depth, Active(b, e), <<b, e>> # <<a, top[a]>>
              PROVE  Undisturbed(b, e)
  BY DEF OthersUndisturbed
<1>1. top[a] > 0 /\ Cur(a).pc = "dtor" /\ UNCHANGED <<readers, writer>>
  BY DEF Dtor, At, rwmutex
<1>2. FrameOK(b, e) /\ frame[b][e].recv \in Handle /\ Recv(a) \in Handle
  BY <1>1, CurType DEF IInv, CallsOK, TypeOK, Frame
<1>3. readers[Recv(a)] = {}
  BY <1>1, CurOK DEF FrameOK, Cur, Recv
<1>4. \A k \in Handle : k # Recv(a) => box'[k] = box[k]
  BY DEF Dtor, IInv, TypeOK
<1>5. frame[b][e].pc \in WriterHeld => /\ writer[frame[b][e].recv] = b
                                      /\ frame[b][e].recv # Recv(a)
  BY <1>1, <1>2, OneWriter DEF FrameOK, WriterHeld
<1>. QED
  BY <1>1, <1>2, <1>3, <1>4, <1>5 DEF Undisturbed

(* The write lock is announced where nobody had it. *)
LEMMA UndisturbedByLock ==
  ASSUME IInv, NEW a \in Actor, Lock(a)
  PROVE  OthersUndisturbed(a, top[a])
<1>. SUFFICES ASSUME NEW b \in Actor, NEW e \in Depth, Active(b, e) PROVE Undisturbed(b, e)
  BY DEF OthersUndisturbed
<1>1. FrameOK(b, e) /\ frame[b][e].recv \in Handle /\ b # NoActor
  BY HandlesAssumption DEF IInv, CallsOK, TypeOK, Frame, Actor
<1>2. \A k \in Handle : writer[k] # NoActor => writer'[k] = writer[k]
  BY DEF Lock, IInv, TypeOK
<1>3. UNCHANGED <<readers, box>>
  BY DEF Lock, object
<1>4. frame[b][e].pc \in WriterHeld => writer[frame[b][e].recv] = b
  BY <1>1 DEF FrameOK
<1>. QED
  BY <1>1, <1>2, <1>3, <1>4 DEF Undisturbed

-----------------------------------------------------------------------------
(* The invariant, step by step. *)

(* No new dangling pointer appears unless a Close is in between its two       *)
(* assignments.                                                               *)
LEMMA PointersKept ==
  ASSUME IInv, NEW a \in Actor, ~At(a, "clear"),
         \A b \in Actor : b # a => top'[b] = top[b],
         \A b \in Actor, e \in Depth : b # a => frame'[b][e] = frame[b][e],
         \A h \in Handle : ptr'[h] /\ box'[h] # "live" => ptr[h] /\ box[h] # "live"
  PROVE  PointersGood'
<1>. SUFFICES ASSUME NEW h \in Handle, ptr'[h], box'[h] # "live"
              PROVE  \E b \in Actor : At(b, "clear")' /\ Recv(b)' = h
  BY DEF PointersGood
<1>1. PICK b \in Actor : At(b, "clear") /\ Recv(b) = h
  BY DEF IInv, PointersGood
<1>2. b # a /\ top[b] > 0
  BY <1>1 DEF At
<1>3. top[b] \in Depth
  BY <1>2, CurOK
<1>4. top'[b] = top[b] /\ frame'[b][top[b]] = frame[b][top[b]]
  BY <1>2, <1>3
<1>. QED
  BY <1>1, <1>4 DEF At, Recv, Cur

PointersUntouched ==
  \A h \in Handle : ptr'[h] /\ box'[h] # "live" => ptr[h] /\ box[h] # "live"

LEMMA StepAdvance ==
  ASSUME IInv, TypeOK', NEW a \in Actor, top[a] > 0, ~At(a, "clear"),
         NEW pc, NEW args, NEW use, Advance(a, pc, args, use),
         FrameOK(a, top[a])', OthersUndisturbed(a, top[a]), PointersUntouched
  PROVE  IInv'
<1>1. CallsOK' /\ OthersRunning'
  BY AdvanceCalls
<1>2. /\ top' = top
      /\ \A b \in Actor, e \in Depth : b # a => frame'[b][e] = frame[b][e]
  BY CurOK, AdvanceFrame DEF IInv
<1>3. PointersGood'
  BY <1>2, PointersKept DEF PointersUntouched
<1>. QED
  BY <1>1, <1>3 DEF IInv

LEMMA StepPush ==
  ASSUME IInv, TypeOK', NEW a \in Actor, Ready(a), NEW f, Push(a, f),
         NEW d, d = top[a] + 1, FrameOK(a, d)', OthersUndisturbed(a, d),
         PointersUntouched
  PROVE  IInv'
<1>1. CallsOK' /\ OthersRunning'
  BY PushCalls
<1>2. /\ \A b \in Actor : b # a => top'[b] = top[b]
      /\ \A b \in Actor, e \in Depth : b # a => frame'[b][e] = frame[b][e]
  BY PushFrame DEF IInv
<1>3. ~At(a, "clear")
  BY DEF Ready, At
<1>4. PointersGood'
  BY <1>2, <1>3, PointersKept DEF PointersUntouched
<1>. QED
  BY <1>1, <1>4 DEF IInv

LEMMA StepPop ==
  ASSUME IInv, TypeOK', NEW a \in Actor, top[a] > 0, ~At(a, "clear"), Pop(a),
         OthersUndisturbed(a, top[a]), PointersUntouched
  PROVE  IInv'
<1>1. CallsOK' /\ OthersRunning'
  BY PopCalls
<1>2. /\ \A b \in Actor : b # a => top'[b] = top[b]
      /\ \A b \in Actor, e \in Depth : b # a => frame'[b][e] = frame[b][e]
  BY CurOK, PopFrame DEF IInv
<1>3. PointersGood'
  BY <1>2, PointersKept DEF PointersUntouched
<1>. QED
  BY <1>1, <1>3 DEF IInv

(* What a call that moves on must show to be entitled where it goes. *)
LEMMA AdvanceOK ==
  ASSUME TypeOK, NEW a \in Actor, top[a] \in Depth, NEW pc, NEW args, NEW use,
         Advance(a, pc, args, use),
         Cur(a).kind = "close" => pc \in Closing,
         pc \in Closing => Cur(a).kind \in {"close", "function"},
         Cur(a).kind = "function" => pc \in FunctionPC,
         (Cur(a).kind = "bare") <=> (pc \in {"bare", "bareagain", "bareuse"}),
         pc \in {"peer", "peeragain"} => Cur(a).kind = "peer",
         pc \in NoPointer => use = {},
         pc \in ReceiverHeld /\ Cur(a).kind # "function" =>
           <<a, top[a], "recv">> \in readers'[Recv(a)] /\ box'[Recv(a)] = "live",
         Cur(a).kind \notin Unlocked /\ pc # "dtor" =>
           \A h \in use : /\ \/ <<a, top[a], "recv">> \in readers'[h]
                             \/ <<a, top[a], "arg">> \in readers'[h]
                          /\ box'[h] = "live",
         pc \in WriterHeld => writer'[Recv(a)] = a,
         pc \in {"dtor", "clear"} => readers'[Recv(a)] = {},
         pc = "dtor" => use = {Recv(a)} /\ box'[Recv(a)] = "live"
  PROVE  FrameOK(a, top[a])'
<1>. DEFINE f == frame'[a][top'[a]]
<1>1. /\ top' = top
      /\ f = [kind |-> Cur(a).kind, recv |-> Recv(a), args |-> args, pc |-> pc, use |-> use]
  BY AdvanceFrame
<1>2. f.kind = Cur(a).kind /\ f.recv = Recv(a) /\ f.pc = pc /\ f.use = use
  BY <1>1
<1>. HIDE DEF f
<1>3. /\ f.kind = "close" => f.pc \in Closing
      /\ f.pc \in Closing => f.kind \in {"close", "function"}
      /\ f.kind = "function" => f.pc \in FunctionPC
      /\ (f.kind = "bare") <=> (f.pc \in {"bare", "bareagain", "bareuse"})
      /\ f.pc \in {"peer", "peeragain"} => f.kind = "peer"
      /\ f.pc \in NoPointer => f.use = {}
  BY <1>2
<1>4. f.pc \in ReceiverHeld /\ f.kind # "function" =>
        <<a, top'[a], "recv">> \in readers'[f.recv] /\ box'[f.recv] = "live"
  BY <1>1, <1>2
<1>5. f.kind \notin Unlocked /\ f.pc # "dtor" =>
        \A h \in f.use : /\ \/ <<a, top'[a], "recv">> \in readers'[h]
                            \/ <<a, top'[a], "arg">> \in readers'[h]
                         /\ box'[h] = "live"
  BY <1>1, <1>2
<1>6. /\ f.pc \in WriterHeld => writer'[f.recv] = a
      /\ f.pc \in {"dtor", "clear"} => readers'[f.recv] = {}
      /\ f.pc = "dtor" => f.use = {f.recv} /\ box'[f.recv] = "live"
  BY <1>2
<1>. QED
  BY <1>3, <1>4, <1>5, <1>6 DEF FrameOK, f

(* A call that moves on with no pointer in hand; *)
LEMMA AdvanceWithNone ==
  ASSUME TypeOK, NEW a \in Actor, top[a] \in Depth, NEW pc \in {"check", "runlock"}, NEW args,
         Advance(a, pc, args, {}), Cur(a).kind \notin {"close", "bare"},
         Cur(a).kind = "function" => pc = "runlock"
  PROVE  FrameOK(a, top[a])'
<1>1. /\ pc \in NoPointer /\ pc \notin {"peer", "peeragain"}
      /\ pc \notin Closing /\ pc \notin {"bare", "bareagain", "bareuse"}
      /\ pc \notin ReceiverHeld
      /\ pc \notin WriterHeld /\ pc \notin {"dtor", "clear"}
      /\ pc = "runlock" => pc \in FunctionPC
  BY DEF NoPointer, Closing, ReceiverHeld, WriterHeld, FunctionPC
<1>. DEFINE use == {}
<1>2. Advance(a, pc, args, use) /\ \A h \in use : FALSE
  OBVIOUS
<1>3. use = {}
  OBVIOUS
<1>. HIDE DEF use
<1>. QED
  BY <1>1, <1>2, <1>3, AdvanceOK

(* with pointers it has locked; *)
LEMMA AdvanceWithSome ==
  ASSUME TypeOK, NEW a \in Actor, top[a] \in Depth, NEW args, NEW use,
         NEW pc \in ReceiverHeld, pc \in {"peer", "peeragain"} => Cur(a).kind = "peer",
         Cur(a).kind = "function" => pc \in FunctionPC,
         Advance(a, pc, args, use), Cur(a).kind \notin {"close", "bare"},
         Cur(a).kind # "function" =>
           <<a, top[a], "recv">> \in readers'[Recv(a)] /\ box'[Recv(a)] = "live",
         Cur(a).kind \notin Unlocked =>
           \A h \in use : /\ \/ <<a, top[a], "recv">> \in readers'[h]
                             \/ <<a, top[a], "arg">> \in readers'[h]
                          /\ box'[h] = "live"
  PROVE  FrameOK(a, top[a])'
<1>1. /\ pc \notin NoPointer
      /\ pc \notin Closing /\ pc \notin {"bare", "bareagain", "bareuse"}
      /\ pc \notin WriterHeld /\ pc \notin {"dtor", "clear"} /\ pc # "dtor"
  BY DEF NoPointer, Closing, ReceiverHeld, WriterHeld
<1>. QED
  BY <1>1, AdvanceOK

(* with the receiver's, or a Go function with none. *)
LEMMA AdvanceWithKept ==
  ASSUME TypeOK, NEW a \in Actor, top[a] \in Depth, NEW args,
         NEW pc \in ReceiverHeld, pc \in {"peer", "peeragain"} => Cur(a).kind = "peer",
         Cur(a).kind = "function" => pc \in FunctionPC,
         Advance(a, pc, args, Kept(a)), Cur(a).kind \notin {"close", "bare"},
         Cur(a).kind # "function" =>
           <<a, top[a], "recv">> \in readers'[Recv(a)] /\ box'[Recv(a)] = "live"
  PROVE  FrameOK(a, top[a])'
<1>1. \A h \in Kept(a) : Cur(a).kind # "function" /\ h = Recv(a)
  BY DEF Kept
<1>. QED
  BY <1>1, AdvanceWithSome

(* Unborn objects have no pointer trouble of their own. *)
LEMMA UntouchedByNewObjects ==
  ASSUME NEW new \in SUBSET Unborn, NewObjects(new)
  PROVE  PointersUntouched
  BY DEF NewObjects, PointersUntouched

(* Each step of a call that reads preserves the invariant. *)
LEMMA CallStepInv ==
  ASSUME IInv, NEW g \in Goroutine, CallStep(g) \/ CallbackEnds(g)
  PROVE  IInv'
<1>g. g \in Actor
  BY DEF Actor
<1>t. top[g] > 0
  BY DEF CallStep, CallbackEnds, CallbackReturn, FunctionReturns, FunctionPanics,
     RLockRecv, CheckRecv, RLockArg, CheckArg, CloneArg, ReadPeer, ReadPeerAgain,
     Enter, RUnlockArg, RUnlockRecv, CloseFunctionVm, ReadBare, ReadBareAgain,
     UseBare, At
<1>ty. TypeOK
  BY DEF IInv
<1>ty2. TypeOK'
  BY CallStepType DEF IInv
<1>d. top[g] \in Depth /\ FrameOK(g, top[g]) /\ Active(g, top[g])
  BY <1>g, <1>t, CurOK
<1>r. /\ Cur(g) = frame[g][top[g]] /\ Recv(g) = frame[g][top[g]].recv /\ Recv(g) \in Handle
      /\ Cur(g).use \subseteq Handle
      /\ Tok(g, "recv") = <<g, top[g], "recv">> /\ Tok(g, "arg") = <<g, top[g], "arg">>
  BY <1>g, <1>t, <1>ty, CurType DEF Cur, Recv, Tok, Frame
<1>a. At(g, "argrlock") \/ At(g, "argcheck") \/ At(g, "clone") \/ At(g, "peer")
        \/ At(g, "peeragain") =>
        Arg(g) \in Handle
  BY <1>g, <1>t, <1>ty, CurType DEF At, Converting
<1>f. /\ Cur(g).kind = "close" => Cur(g).pc \in Closing
      /\ Cur(g).kind = "function" => Cur(g).pc \in FunctionPC
      /\ (Cur(g).kind = "bare") <=> (Cur(g).pc \in {"bare", "bareagain", "bareuse"})
      /\ Cur(g).pc \in ReceiverHeld /\ Cur(g).kind # "function" =>
           Tok(g, "recv") \in readers[Recv(g)] /\ box[Recv(g)] = "live"
      /\ Cur(g).kind \notin Unlocked /\ Cur(g).pc # "dtor" =>
           \A h \in Cur(g).use : /\ Tok(g, "recv") \in readers[h] \/ Tok(g, "arg") \in readers[h]
                                 /\ box[h] = "live"
  BY <1>d, <1>r DEF FrameOK
<1>pc. /\ {"check", "rlock", "runlock"} \cap (Closing \cup {"bare", "bareagain", "bareuse"}) = {}
       /\ ReceiverHeld \cap (Closing \cup {"bare", "bareagain", "bareuse", "dtor"}) = {}
       /\ {"peer", "peeragain", "argrlock", "argcheck", "clone", "enter", "running"}
            \subseteq ReceiverHeld
       /\ {"rlock", "check", "enter", "peer"} \cap FunctionPC = {}
       /\ {"argrlock", "argcheck", "clone", "runlock", "running"} \subseteq FunctionPC
  BY DEF Closing, ReceiverHeld, FunctionPC
<1>kept. \A h \in Kept(g) : Cur(g).kind # "function" /\ h = Recv(g)
  BY DEF Kept
<1>1. CASE RLockRecv(g)
  <2>1. /\ Cur(g).pc = "rlock" /\ RLock(Recv(g), Tok(g, "recv"))
        /\ Advance(g, "check", Cur(g).args, {}) /\ UNCHANGED <<ptr, box>>
    BY <1>1, <1>r DEF RLockRecv, At, Goto, object
  <2>2. Cur(g).kind \notin {"close", "bare", "function"}
    BY <2>1, <1>f, <1>pc
  <2>3. FrameOK(g, top[g])'
    BY <2>1, <2>2, <1>g, <1>d, <1>ty, AdvanceWithNone
  <2>4. OthersUndisturbed(g, top[g]) /\ PointersUntouched /\ ~At(g, "clear")
    BY <2>1, <1>r, UndisturbedByRLock DEF PointersUntouched, At
  <2>. QED
    BY <2>1, <2>3, <2>4, <1>g, <1>t, <1>ty2, StepAdvance
<1>2. CASE CheckRecv(g)
  <2>. DEFINE next == NextPc(Cur(g).kind, Cur(g).args)
  <2>1. /\ Cur(g).pc = "check" /\ Tok(g, "recv") \in readers[Recv(g)]
        /\ UNCHANGED <<ptr, box, readers, writer>>
    BY <1>2, <1>r DEF CheckRecv, At, object, rwmutex
  <2>2. OthersUndisturbed(g, top[g]) /\ PointersUntouched /\ ~At(g, "clear")
    BY <2>1, <1>r, UndisturbedIfUnchanged DEF PointersUntouched, At
  <2>3. Cur(g).kind \notin {"close", "bare", "function"}
    BY <2>1, <1>f, <1>pc
  <2>4. CASE ptr[Recv(g)]
    <3>1. next \in ReceiverHeld /\ (next \in {"peer", "peeragain"} => Cur(g).kind = "peer")
      BY <2>3 DEF NextPc, ReceiverHeld
    <3>2. Advance(g, next, Cur(g).args, Kept(g))
      BY <1>2, <2>3, <2>4 DEF CheckRecv, Goto, Kept
    <3>3. box'[Recv(g)] = "live" /\ Tok(g, "recv") \in readers'[Recv(g)]
      BY <2>1, <2>4, <1>r, LockedPointerLive
    <3>. HIDE DEF next
    <3>4. FrameOK(g, top[g])'
      BY <2>3, <3>1, <3>2, <3>3, <1>g, <1>d, <1>r, <1>ty, AdvanceWithKept
    <3>. QED
      BY <2>2, <3>2, <3>4, <1>g, <1>t, <1>ty2, StepAdvance
  <2>5. CASE ~ptr[Recv(g)]
    <3>1. Advance(g, "runlock", Cur(g).args, {})
      BY <1>2, <2>5 DEF CheckRecv, Goto
    <3>2. FrameOK(g, top[g])'
      BY <2>3, <3>1, <1>g, <1>d, <1>ty, AdvanceWithNone
    <3>. QED
      BY <2>2, <3>1, <3>2, <1>g, <1>t, <1>ty2, StepAdvance
  <2>. QED
    BY <2>4, <2>5
<1>3. CASE RLockArg(g)
  <2>1. /\ Cur(g).pc = "argrlock" /\ RLock(Arg(g), Tok(g, "arg"))
        /\ Advance(g, "argcheck", Cur(g).args, Kept(g)) /\ UNCHANGED <<ptr, box>>
        /\ Arg(g) \in Handle
    BY <1>3, <1>r, <1>a DEF RLockArg, At, Goto, object
  <2>2. readers[Recv(g)] \subseteq readers'[Recv(g)]
    BY <2>1, <1>r, <1>ty DEF RLock, TypeOK
  <2>3. Cur(g).kind \notin {"close", "bare"} /\ "argcheck" \in ReceiverHeld
    BY <2>1, <1>f, <1>pc
  <2>4. Cur(g).kind # "function" =>
          Tok(g, "recv") \in readers'[Recv(g)] /\ box'[Recv(g)] = "live"
    BY <2>1, <2>2, <1>f, <1>pc
  <2>5. FrameOK(g, top[g])'
    BY <2>1, <2>3, <2>4, <1>g, <1>d, <1>r, <1>pc, <1>ty, AdvanceWithKept
  <2>6. OthersUndisturbed(g, top[g]) /\ PointersUntouched /\ ~At(g, "clear")
    BY <2>1, <1>r, UndisturbedByRLock DEF PointersUntouched, At
  <2>. QED
    BY <2>1, <2>5, <2>6, <1>g, <1>t, <1>ty2, StepAdvance
<1>4. CASE CheckArg(g)
  <2>1. /\ Cur(g).pc = "argcheck" /\ Tok(g, "arg") \in readers[Arg(g)]
        /\ UNCHANGED <<ptr, box, readers, writer>> /\ Arg(g) \in Handle
    BY <1>4, <1>r, <1>a DEF CheckArg, At, object, rwmutex
  <2>2. OthersUndisturbed(g, top[g]) /\ PointersUntouched /\ ~At(g, "clear")
    BY <2>1, <1>r, UndisturbedIfUnchanged DEF PointersUntouched, At
  <2>3. /\ Cur(g).kind \notin {"close", "bare"}
        /\ Cur(g).kind # "function" =>
             Tok(g, "recv") \in readers'[Recv(g)] /\ box'[Recv(g)] = "live"
    BY <2>1, <1>f, <1>pc
  <2>4. CASE ptr[Arg(g)]
    <3>1. PICK pc \in {"enter", "clone"} :
            /\ Advance(g, pc, Cur(g).args, Kept(g) \cup {Arg(g)})
            /\ Cur(g).kind = "function" => pc = "clone"
      BY <1>4, <2>4 DEF CheckArg, Goto
    <3>2. box'[Arg(g)] = "live" /\ Tok(g, "arg") \in readers'[Arg(g)]
      BY <2>1, <2>4, LockedPointerLive
    <3>3. /\ pc \in ReceiverHeld /\ pc \notin {"peer", "peeragain"}
          /\ Cur(g).kind = "function" => pc \in FunctionPC
      BY <3>1, <1>pc
    <3>5. \A h \in Kept(g) \cup {Arg(g)} :
            /\ Tok(g, "recv") \in readers'[h] \/ Tok(g, "arg") \in readers'[h]
            /\ box'[h] = "live"
      BY <2>3, <3>2, <1>kept
    <3>4. FrameOK(g, top[g])'
      BY <2>3, <3>1, <3>3, <3>5, <1>g, <1>d, <1>r, <1>ty, AdvanceWithSome
    <3>. QED
      BY <2>2, <3>1, <3>4, <1>g, <1>t, <1>ty2, StepAdvance
  <2>5. CASE ~ptr[Arg(g)]
    <3>1. \/ Advance(g, "enter", Cur(g).args, Kept(g)) /\ Cur(g).kind = "env"
          \/ Advance(g, "runlock", Cur(g).args, {})
      BY <1>4, <2>5 DEF CheckArg, Goto
    <3>2. CASE Advance(g, "enter", Cur(g).args, Kept(g)) /\ Cur(g).kind = "env"
      <4>1. FrameOK(g, top[g])'
        BY <2>3, <3>2, <1>g, <1>d, <1>r, <1>pc, <1>ty, AdvanceWithKept
      <4>. QED
        BY <2>2, <3>2, <4>1, <1>g, <1>t, <1>ty2, StepAdvance
    <3>3. CASE Advance(g, "runlock", Cur(g).args, {})
      <4>1. FrameOK(g, top[g])'
        BY <2>3, <3>3, <1>g, <1>d, <1>ty, AdvanceWithNone
      <4>. QED
        BY <2>2, <3>3, <4>1, <1>g, <1>t, <1>ty2, StepAdvance
    <3>. QED
      BY <3>1, <3>2, <3>3
  <2>. QED
    BY <2>4, <2>5
<1>5. CASE CloneArg(g)
  <2>. DEFINE rest == Tail(Cur(g).args)
              next == NextPc(Cur(g).kind, rest)
  <2>1. /\ Cur(g).pc = "clone" /\ RUnlock(Arg(g), Tok(g, "arg")) /\ Arg(g) \in Handle
        /\ Advance(g, next, rest, Kept(g)) /\ UNCHANGED <<ptr, box>>
    BY <1>5, <1>a DEF CloneArg, At, object
  <2>2. \/ /\ next \in ReceiverHeld /\ (next \in {"peer", "peeragain"} => Cur(g).kind = "peer")
           /\ Cur(g).kind = "function" => next \in FunctionPC
        \/ next = "runlock" /\ Cur(g).kind = "function"
    BY <1>pc DEF NextPc, ReceiverHeld
  <2>. HIDE DEF next, rest
  <2>3. Cur(g).kind \notin {"close", "bare"} /\ Tok(g, "recv") # Tok(g, "arg")
    BY <2>1, <1>f, <1>pc DEF Tok
  <2>4. readers[Recv(g)] \ {Tok(g, "arg")} \subseteq readers'[Recv(g)]
    BY <2>1, <1>r, <1>ty DEF RUnlock, TypeOK
  <2>5. Cur(g).kind # "function" =>
          Tok(g, "recv") \in readers'[Recv(g)] /\ box'[Recv(g)] = "live"
    BY <2>1, <2>3, <2>4, <1>f, <1>pc
  <2>6. FrameOK(g, top[g])'
    <3>1. CASE next = "runlock" /\ Cur(g).kind = "function"
      <4>1. Kept(g) = {}
        BY <3>1 DEF Kept
      <4>. QED
        BY <2>1, <2>3, <3>1, <4>1, <1>g, <1>d, <1>ty, AdvanceWithNone
    <3>2. CASE ~(next = "runlock" /\ Cur(g).kind = "function")
      BY <2>1, <2>2, <2>3, <2>5, <3>2, <1>g, <1>d, <1>r, <1>ty, AdvanceWithKept
    <3>. QED
      BY <3>1, <3>2
  <2>7. OthersUndisturbed(g, top[g]) /\ PointersUntouched /\ ~At(g, "clear")
    BY <2>1, <1>r, UndisturbedByRUnlock DEF PointersUntouched, At
  <2>. QED
    BY <2>1, <2>6, <2>7, <1>g, <1>t, <1>ty2, StepAdvance
<1>6. CASE ReadPeer(g) \/ ReadPeerAgain(g)
  <2>1. /\ Cur(g).pc \in {"peer", "peeragain"} /\ UNCHANGED <<ptr, box, readers, writer>>
        /\ \/ \E pc \in {"peeragain", "enter"} : \E args, use : Advance(g, pc, args, use)
           \/ Advance(g, "runlock", <<>>, {})
    BY <1>6 DEF ReadPeer, ReadPeerAgain, At, Goto, object, rwmutex
  <2>2. OthersUndisturbed(g, top[g]) /\ PointersUntouched /\ ~At(g, "clear")
    BY <2>1, <1>r, UndisturbedIfUnchanged DEF PointersUntouched, At
  <2>3. Cur(g).kind = "peer" /\ Cur(g).kind \in Unlocked /\ Cur(g).kind \notin {"close", "bare"}
    BY <2>1, <1>d, <1>r DEF FrameOK, Unlocked
  <2>4. Tok(g, "recv") \in readers'[Recv(g)] /\ box'[Recv(g)] = "live"
    BY <2>1, <2>3, <1>f, <1>pc
  <2>5. CASE \E pc \in {"peeragain", "enter"} : \E args, use : Advance(g, pc, args, use)
    <3>1. PICK pc \in {"peeragain", "enter"} : \E args, use : Advance(g, pc, args, use)
      BY <2>5
    <3>2. PICK args, use : Advance(g, pc, args, use)
      BY <3>1
    <3>3. pc \in ReceiverHeld
      BY <1>pc
    <3>4. FrameOK(g, top[g])'
      BY <2>3, <2>4, <3>2, <3>3, <1>g, <1>d, <1>r, <1>pc, <1>ty, AdvanceWithSome
    <3>. QED
      BY <2>2, <3>2, <3>4, <1>g, <1>t, <1>ty2, StepAdvance
  <2>6. CASE Advance(g, "runlock", <<>>, {})
    <3>1. FrameOK(g, top[g])'
      BY <2>3, <2>6, <1>g, <1>d, <1>ty, AdvanceWithNone
    <3>. QED
      BY <2>2, <2>6, <3>1, <1>g, <1>t, <1>ty2, StepAdvance
  <2>. QED
    BY <2>1, <2>5, <2>6
<1>7. CASE Enter(g) /\ Cur(g).kind \in {"callback", "call"}
  <2>1. /\ Cur(g).pc = "enter" /\ UNCHANGED <<ptr, box, readers, writer>>
        /\ Advance(g, "running", Cur(g).args, Cur(g).use)
    BY <1>7 DEF Enter, At, object, rwmutex, Goto
  <2>2. OthersUndisturbed(g, top[g]) /\ PointersUntouched /\ ~At(g, "clear")
    BY <2>1, <1>r, UndisturbedIfUnchanged DEF PointersUntouched, At
  <2>3. FrameOK(g, top[g])'
    BY <2>1, <1>7, <1>f, <1>pc, <1>g, <1>d, <1>r, <1>ty, AdvanceWithSome
  <2>. QED
    BY <2>1, <2>2, <2>3, <1>g, <1>t, <1>ty2, StepAdvance
<1>8. CASE (Enter(g) /\ Cur(g).kind \notin {"callback", "call"}) \/ CallbackReturn(g)
  <2>1. /\ Cur(g).pc \in {"enter", "running"} /\ UNCHANGED <<readers, writer>>
        /\ Advance(g, "runlock", Cur(g).args, {})
        /\ \E new \in Results : NewObjects(new)
    BY <1>8 DEF Enter, CallbackReturn, At, rwmutex, Goto
  <2>2. PICK new \in SUBSET Unborn : NewObjects(new)
    BY <2>1 DEF Results
  <2>3. OthersUndisturbed(g, top[g]) /\ PointersUntouched /\ ~At(g, "clear")
    BY <2>1, <2>2, UndisturbedByNewObjects, UntouchedByNewObjects DEF At
  <2>4. Cur(g).kind \notin {"close", "bare"}
    BY <2>1, <1>f, <1>pc
  <2>5. FrameOK(g, top[g])'
    BY <2>1, <2>4, <1>g, <1>d, <1>ty, AdvanceWithNone
  <2>. QED
    BY <2>1, <2>3, <2>5, <1>g, <1>t, <1>ty2, StepAdvance
<1>9. CASE RUnlockArg(g)
  <2>1. /\ frame[g][top[g]].pc = "runlock" /\ RUnlock(Arg(g), Tok(g, "arg"))
        /\ UNCHANGED <<ptr, box, top, frame>> /\ Arg(g) \in Handle
    BY <1>9, <1>g, <1>t, <1>ty, CurType DEF RUnlockArg, At, object, calls, Cur
  <2>2. OthersUndisturbed(g, top[g])
    BY <2>1, <1>r, UndisturbedByRUnlock
  <2>3. FrameOK(g, top[g])'
    BY <2>1, <1>d DEF FrameOK, NoPointer, ReceiverHeld, WriterHeld
  <2>4. CallsOK'
    BY <2>1, <2>2, <2>3, FrameKept DEF CallsOK, OthersUndisturbed, IInv, Active, TypeOK
  <2>5. OthersRunning'
    BY <2>1 DEF OthersRunning, IInv, Active
  <2>6. PointersGood'
    BY <2>1 DEF PointersGood, IInv, At, Recv, Cur
  <2>. QED
    BY <2>4, <2>5, <2>6, <1>ty2 DEF IInv
<1>10. CASE RUnlockRecv(g)
  <2>1. /\ Cur(g).pc = "runlock" /\ RUnlock(Recv(g), Tok(g, "recv")) /\ Pop(g)
        /\ UNCHANGED <<ptr, box>>
    BY <1>10 DEF RUnlockRecv, At, object
  <2>2. OthersUndisturbed(g, top[g]) /\ PointersUntouched /\ ~At(g, "clear")
    BY <2>1, <1>r, UndisturbedByRUnlock DEF PointersUntouched, At
  <2>. QED
    BY <2>1, <2>2, <1>g, <1>t, <1>ty2, StepPop
<1>81. CASE FunctionReturns(g)
  <2>1. PICK s \in ReturnLists(g) : Advance(g, NextPc("function", s), s, {})
    BY <1>81 DEF FunctionReturns
  <2>2. /\ Cur(g).pc = "running" /\ Cur(g).kind = "function"
        /\ UNCHANGED <<ptr, box, readers, writer>>
    BY <1>81 DEF FunctionReturns, At, object, rwmutex
  <2>3. OthersUndisturbed(g, top[g]) /\ PointersUntouched /\ ~At(g, "clear")
    BY <2>2, UndisturbedIfUnchanged DEF PointersUntouched, At
  <2>. DEFINE next == NextPc("function", s)
              use == {}
  <2>4. next \in {"argrlock", "runlock"} /\ use = {}
    BY DEF NextPc
  <2>5. Advance(g, next, s, use)
    BY <2>1
  <2>. HIDE DEF next, use
  <2>6. FrameOK(g, top[g])'
    <3>1. CASE next = "argrlock"
      BY <2>2, <2>4, <2>5, <3>1, <1>g, <1>d, <1>pc, <1>ty, AdvanceWithSome
    <3>2. CASE next = "runlock"
      BY <2>2, <2>4, <2>5, <3>2, <1>g, <1>d, <1>ty, AdvanceWithNone
    <3>. QED
      BY <2>4, <3>1, <3>2
  <2>. QED
    BY <2>3, <2>5, <2>6, <1>g, <1>t, <1>ty2, StepAdvance
<1>82. CASE FunctionPanics(g)
  <2>1. Cur(g).pc = "running" /\ UNCHANGED <<ptr, box, readers, writer>> /\ Pop(g)
    BY <1>82 DEF FunctionPanics, At, object, rwmutex
  <2>2. OthersUndisturbed(g, top[g]) /\ PointersUntouched /\ ~At(g, "clear")
    BY <2>1, UndisturbedIfUnchanged DEF PointersUntouched, At
  <2>. QED
    BY <2>1, <2>2, <1>g, <1>t, <1>ty2, StepPop
<1>83. CASE CloseFunctionVm(g)
  <2>1. /\ Cur(g).pc = "runlock" /\ Cur(g).kind = "function"
        /\ UNCHANGED <<ptr, box, readers, writer>>
    BY <1>83 DEF CloseFunctionVm, At, object, rwmutex
  <2>2. OthersUndisturbed(g, top[g]) /\ PointersUntouched /\ ~At(g, "clear")
    BY <2>1, UndisturbedIfUnchanged DEF PointersUntouched, At
  <2>. DEFINE use == {}
  <2>3. Advance(g, "lock", <<>>, use) /\ use = {}
    BY <1>83 DEF CloseFunctionVm
  <2>4. /\ "lock" \in Closing /\ "lock" \in FunctionPC
        /\ "lock" \notin ReceiverHeld /\ "lock" \notin WriterHeld
    BY DEF Closing, FunctionPC, ReceiverHeld, WriterHeld
  <2>. HIDE DEF use
  <2>5. FrameOK(g, top[g])'
    BY <2>1, <2>3, <2>4, <1>g, <1>d, <1>ty, AdvanceOK
  <2>. QED
    BY <2>2, <2>3, <2>5, <1>g, <1>t, <1>ty2, StepAdvance
<1>11. CASE ReadBare(g) \/ ReadBareAgain(g)
  <2>1. /\ Cur(g).pc \in {"bare", "bareagain"} /\ UNCHANGED <<ptr, box, readers, writer>>
        /\ \/ \E pc \in {"bareagain", "bareuse"} : \E use :
               Advance(g, pc, Cur(g).args, use) /\ (pc = "bareagain" => use = {})
           \/ Pop(g)
    BY <1>11 DEF ReadBare, ReadBareAgain, At, object, rwmutex, Goto
  <2>2. OthersUndisturbed(g, top[g]) /\ PointersUntouched /\ ~At(g, "clear")
    BY <2>1, <1>r, UndisturbedIfUnchanged DEF PointersUntouched, At
  <2>3. ASSUME NEW pc \in {"bareagain", "bareuse"}, NEW use,
               Advance(g, pc, Cur(g).args, use), pc = "bareagain" => use = {}
        PROVE  IInv'
    <3>1. Cur(g).kind = "bare" /\ "bare" \in Unlocked
      BY <2>1, <1>f DEF Unlocked
    <3>2. /\ pc \notin Closing \cup ReceiverHeld \cup WriterHeld
          /\ pc \in NoPointer => pc = "bareagain"
      BY DEF Closing, NoPointer, ReceiverHeld, WriterHeld
    <3>3. FrameOK(g, top[g])'
      BY <2>3, <3>1, <3>2, <1>g, <1>d, <1>ty, AdvanceOK
    <3>. QED
      BY <2>2, <2>3, <3>3, <1>g, <1>t, <1>ty2, StepAdvance
  <2>4. CASE Pop(g)
    BY <2>2, <2>4, <1>g, <1>t, <1>ty2, StepPop
  <2>. QED
    BY <2>1, <2>3, <2>4
<1>12. CASE UseBare(g)
  <2>1. /\ Cur(g).pc = "bareuse" /\ UNCHANGED <<ptr, box, readers, writer>> /\ Pop(g)
    BY <1>12 DEF UseBare, At, object, rwmutex
  <2>2. OthersUndisturbed(g, top[g]) /\ PointersUntouched /\ ~At(g, "clear")
    BY <2>1, <1>r, UndisturbedIfUnchanged DEF PointersUntouched, At
  <2>. QED
    BY <2>1, <2>2, <1>g, <1>t, <1>ty2, StepPop
<1>. QED
  BY <1>1, <1>2, <1>3, <1>4, <1>5, <1>6, <1>7, <1>8, <1>81, <1>82, <1>83, <1>9, <1>10,
     <1>11, <1>12 DEF CallStep, CallbackEnds

(* Each step of a Close preserves the invariant. *)
LEMMA CloseStepInv ==
  ASSUME IInv, NEW a \in Actor, CloseStep(a)
  PROVE  IInv'
<1>t. top[a] > 0
  BY DEF CloseStep, Lock, Drain, Dtor, ClearPtr, At
<1>ty. TypeOK
  BY DEF IInv
<1>ty2. TypeOK'
  BY CloseStepType DEF IInv
<1>d. top[a] \in Depth /\ FrameOK(a, top[a]) /\ Active(a, top[a])
  BY <1>t, CurOK
<1>r. Cur(a) = frame[a][top[a]] /\ Recv(a) = frame[a][top[a]].recv /\ Recv(a) \in Handle
  BY <1>t, <1>ty, CurType DEF Cur, Recv
<1>f. /\ Cur(a).pc \in Closing => Cur(a).kind \in {"close", "function"}
      /\ Cur(a).pc \in WriterHeld => writer[Recv(a)] = a
      /\ Cur(a).pc \in {"dtor", "clear"} => readers[Recv(a)] = {}
  BY <1>d, <1>r DEF FrameOK
<1>pc. /\ {"lock", "drain", "dtor", "clear"} \subseteq Closing
       /\ Closing \subseteq FunctionPC
       /\ Closing \cap ({"bare", "bareagain", "bareuse", "peer", "peeragain"}
                          \cup ReceiverHeld) = {}
       /\ {"drain", "dtor", "clear"} \subseteq WriterHeld
       /\ {"drain", "clear"} \subseteq NoPointer
       /\ "dtor" \notin NoPointer
  BY DEF Closing, WriterHeld, ReceiverHeld, NoPointer, FunctionPC
<1>k. Cur(a).kind \in {"close", "function"}
  BY <1>f, <1>pc DEF CloseStep, Lock, Drain, Dtor, ClearPtr, At
<1>1. CASE Lock(a)
  <2>1. /\ Cur(a).pc = "lock" /\ Advance(a, "drain", Cur(a).args, {})
        /\ UNCHANGED <<ptr, box, readers>> /\ writer'[Recv(a)] = a
    BY <1>1, <1>r, <1>ty DEF Lock, At, Goto, object, TypeOK
  <2>2. OthersUndisturbed(a, top[a]) /\ PointersUntouched /\ ~At(a, "clear")
    BY <2>1, <1>1, UndisturbedByLock DEF PointersUntouched, At
  <2>3. FrameOK(a, top[a])'
    BY <2>1, <1>k, <1>pc, <1>d, <1>ty, AdvanceOK
  <2>. QED
    BY <2>1, <2>2, <2>3, <1>t, <1>ty2, StepAdvance
<1>2. CASE Drain(a) /\ ptr[Recv(a)]
  <2>1. /\ Cur(a).pc = "drain" /\ Advance(a, "dtor", Cur(a).args, {Recv(a)})
        /\ UNCHANGED <<ptr, box, readers, writer>> /\ readers[Recv(a)] = {}
    BY <1>2 DEF Drain, At, Goto, object, rwmutex
  <2>2. OthersUndisturbed(a, top[a]) /\ PointersUntouched /\ ~At(a, "clear")
    BY <2>1, UndisturbedIfUnchanged DEF PointersUntouched, At
  <2>3. box[Recv(a)] = "live"
    <3>. SUFFICES ASSUME box[Recv(a)] # "live" PROVE FALSE
      OBVIOUS
    <3>1. PICK b \in Actor : At(b, "clear") /\ Recv(b) = Recv(a)
      BY <1>2, <1>r DEF IInv, PointersGood
    <3>2. top[b] > 0 /\ b # a /\ frame[b][top[b]].pc = "clear" /\ frame[b][top[b]].recv = Recv(a)
      BY <2>1, <3>1 DEF At, Cur, Recv
    <3>3. top[b] \in Depth /\ Active(b, top[b])
      BY <3>2, CurOK
    <3>. QED
      BY <2>1, <3>2, <3>3, <1>t, <1>pc, OneWriter
  <2>4. FrameOK(a, top[a])'
    BY <2>1, <2>3, <1>f, <1>k, <1>pc, <1>d, <1>ty, AdvanceOK
  <2>. QED
    BY <2>1, <2>2, <2>4, <1>t, <1>ty2, StepAdvance
<1>3. CASE Drain(a) /\ ~ptr[Recv(a)]
  <2>1. Cur(a).pc = "drain" /\ Unlock(Recv(a)) /\ Pop(a) /\ UNCHANGED <<ptr, box>>
    BY <1>3 DEF Drain, At, object
  <2>2. OthersUndisturbed(a, top[a]) /\ PointersUntouched /\ ~At(a, "clear")
    BY <2>1, <1>t, <1>pc, UndisturbedByUnlock DEF PointersUntouched, At
  <2>. QED
    BY <2>1, <2>2, <1>t, <1>ty2, StepPop
<1>4. CASE Dtor(a)
  <2>1. /\ Cur(a).pc = "dtor" /\ Advance(a, "clear", Cur(a).args, {})
        /\ UNCHANGED <<ptr, readers, writer>>
        /\ \A h \in Handle : h # Recv(a) => box'[h] = box[h]
    BY <1>4, <1>ty DEF Dtor, At, Goto, rwmutex, TypeOK
  <2>2. OthersUndisturbed(a, top[a])
    BY <1>4, UndisturbedByDtor
  <2>3. FrameOK(a, top[a])'
    BY <2>1, <1>f, <1>k, <1>pc, <1>d, <1>ty, AdvanceOK
  <2>4. CallsOK' /\ OthersRunning'
    BY <2>1, <2>2, <2>3, <1>t, AdvanceCalls
  <2>5. PointersGood'
    <3>1. /\ top' = top
          /\ frame'[a][top[a]] = [kind |-> Cur(a).kind, recv |-> Recv(a), args |-> Cur(a).args,
                                  pc |-> "clear", use |-> {}]
          /\ \A b \in Actor, e \in Depth : <<b, e>> # <<a, top[a]>> => frame'[b][e] = frame[b][e]
      BY <2>1, <1>d, <1>ty, AdvanceFrame
    <3>2. At(a, "clear")' /\ Recv(a)' = Recv(a)
      BY <3>1, <1>t DEF At, Cur, Recv
    <3>. SUFFICES ASSUME NEW h \in Handle, ptr'[h], box'[h] # "live"
                  PROVE  \E b \in Actor : At(b, "clear")' /\ Recv(b)' = h
      BY DEF PointersGood
    <3>3. CASE h = Recv(a)
      BY <3>2, <3>3
    <3>4. CASE h # Recv(a)
      <4>1. PICK b \in Actor : At(b, "clear") /\ Recv(b) = h
        BY <2>1, <3>4 DEF IInv, PointersGood
      <4>2. b # a /\ top[b] \in Depth
        BY <2>1, <4>1, CurOK DEF At
      <4>. QED
        BY <3>1, <4>1, <4>2 DEF At, Cur, Recv
    <3>. QED
      BY <3>3, <3>4
  <2>. QED
    BY <2>4, <2>5, <1>ty2 DEF IInv
<1>5. CASE ClearPtr(a)
  <2>1. /\ Cur(a).pc = "clear" /\ Unlock(Recv(a)) /\ Pop(a) /\ UNCHANGED box
        /\ ~ptr'[Recv(a)] /\ \A h \in Handle : h # Recv(a) => ptr'[h] = ptr[h]
    BY <1>5, <1>r, <1>ty DEF ClearPtr, At, TypeOK
  <2>2. OthersUndisturbed(a, top[a])
    BY <2>1, <1>t, <1>pc, UndisturbedByUnlock
  <2>3. CallsOK' /\ OthersRunning'
    BY <2>1, <2>2, <1>t, PopCalls
  <2>4. PointersGood'
    <3>1. /\ \A b \in Actor : b # a => top'[b] = top[b]
          /\ \A b \in Actor, e \in Depth : <<b, e>> # <<a, top[a]>> => frame'[b][e] = frame[b][e]
      BY <2>1, <1>d, <1>ty, PopFrame
    <3>. SUFFICES ASSUME NEW h \in Handle, ptr'[h], box'[h] # "live"
                  PROVE  \E b \in Actor : At(b, "clear")' /\ Recv(b)' = h
      BY DEF PointersGood
    <3>2. h # Recv(a)
      BY <2>1
    <3>3. PICK b \in Actor : At(b, "clear") /\ Recv(b) = h
      BY <2>1, <3>2 DEF IInv, PointersGood
    <3>4. b # a /\ top[b] \in Depth
      BY <3>2, <3>3, CurOK DEF At
    <3>. QED
      BY <3>1, <3>3, <3>4 DEF At, Cur, Recv
  <2>. QED
    BY <2>3, <2>4, <1>ty2 DEF IInv
<1>. QED
  BY <1>1, <1>2, <1>3, <1>4, <1>5 DEF CloseStep

(* A call that has just been entered is entitled to nothing, and needs nothing. *)
LEMMA EnteredOK ==
  ASSUME TypeOK, NEW a \in Actor, Ready(a), NEW f, Push(a, f),
         NEW d, d = top[a] + 1,
         f.use = {},
         \/ f.pc = "rlock" /\ f.kind \notin {"close", "bare", "function"}
         \/ f.pc = "running" /\ f.kind = "function"
         \/ f.pc = "bare" /\ f.kind = "bare"
         \/ f.pc = "lock" /\ f.kind = "close"
  PROVE  FrameOK(a, d)'
<1>1. frame'[a][d] = f
  BY PushFrame
<1>2. /\ f.pc \in ReceiverHeld => f.kind = "function"
      /\ f.pc \notin WriterHeld /\ f.pc \notin {"dtor", "clear"}
      /\ f.kind = "close" => f.pc \in Closing
      /\ f.pc \in Closing => f.kind \in {"close", "function"}
      /\ f.kind = "function" => f.pc \in FunctionPC
      /\ (f.kind = "bare") <=> (f.pc \in {"bare", "bareagain", "bareuse"})
      /\ f.pc \notin {"peer", "peeragain"} /\ f.pc # "dtor"
  BY DEF ReceiverHeld, WriterHeld, Closing, FunctionPC
<1>. QED
  BY <1>1, <1>2 DEF FrameOK

LEMMA StartInv ==
  ASSUME IInv, NEW g \in Goroutine, Start(g)
  PROVE  IInv'
<1>g. g \in Actor
  BY DEF Actor
<1>ty. TypeOK /\ TypeOK'
  BY StartType DEF IInv
<1>1. CASE Create(g)
  <2>1. UNCHANGED <<readers, writer, top, frame>>
    BY <1>1 DEF Create, rwmutex, calls
  <2>2. PICK new \in SUBSET Unborn : NewObjects(new)
    BY <1>1 DEF Create
  <2>3. OthersUndisturbed(NoActor, 0) /\ PointersUntouched
    BY <2>1, <2>2, UndisturbedByNewObjects, UntouchedByNewObjects
  <2>4. CallsOK'
    <3>. SUFFICES ASSUME NEW b \in Actor, NEW e \in Depth, Active(b, e)' PROVE FrameOK(b, e)'
      BY DEF CallsOK
    <3>1. Active(b, e) /\ <<b, e>> # <<NoActor, 0>>
      BY <2>1, HandlesAssumption DEF Active, Actor, Depth
    <3>. QED
      BY <2>1, <2>3, <3>1, <1>ty, FrameKept DEF IInv, CallsOK, OthersUndisturbed, TypeOK
  <2>5. OthersRunning'
    BY <2>1 DEF OthersRunning, IInv, Active
  <2>6. PointersGood'
    BY <2>1, <2>3 DEF PointersGood, PointersUntouched, IInv, At, Recv, Cur
  <2>. QED
    BY <2>4, <2>5, <2>6, <1>ty DEF IInv
<1>2. CASE StartCall(g) \/ StartBare(g) \/ StartClose(g)
  <2>1. Ready(g) /\ UNCHANGED <<ptr, readers, writer, box>>
    BY <1>2, <1>g, <1>ty, CanStartReady DEF StartCall, StartBare, StartClose, object, rwmutex
  <2>2. \E f : /\ Push(g, f) /\ f.use = {}
               /\ \/ f.pc = "rlock" /\ f.kind \notin {"close", "bare", "function"}
                  \/ f.pc = "bare" /\ f.kind = "bare"
                  \/ f.pc = "lock" /\ f.kind = "close"
    <3>1. CASE StartCall(g)
      <4>1. PICK k \in Kinds \ {"bare", "close"}, r \in Handle \ ErrorHandle :
              \E s \in ArgLists(g, k, r) :
                Push(g, [kind |-> k, recv |-> r, args |-> s, pc |-> "rlock", use |-> {}])
        BY <3>1 DEF StartCall
      <4>2. PICK s \in ArgLists(g, k, r) :
              Push(g, [kind |-> k, recv |-> r, args |-> s, pc |-> "rlock", use |-> {}])
        BY <4>1
      <4>3. k \notin {"close", "bare", "function"}
        BY HandlesAssumption DEF ProgramKinds
      <4>. WITNESS [kind |-> k, recv |-> r, args |-> s, pc |-> "rlock", use |-> {}]
      <4>. QED
        BY <4>2, <4>3
    <3>2. CASE StartBare(g)
      <4>1. PICK h \in ErrorHandle :
              Push(g, [kind |-> "bare", recv |-> h, args |-> <<>>, pc |-> "bare", use |-> {}])
        BY <3>2 DEF StartBare
      <4>. WITNESS [kind |-> "bare", recv |-> h, args |-> <<>>, pc |-> "bare", use |-> {}]
      <4>. QED
        BY <4>1
    <3>3. CASE StartClose(g)
      <4>1. PICK h \in Handle : Push(g, CloseFrame(h))
        BY <3>3 DEF StartClose
      <4>. WITNESS CloseFrame(h)
      <4>. QED
        BY <4>1 DEF CloseFrame
    <3>. QED
      BY <1>2, <3>1, <3>2, <3>3
  <2>3. PICK f : /\ Push(g, f) /\ f.use = {}
                 /\ \/ f.pc = "rlock" /\ f.kind \notin {"close", "bare", "function"}
                    \/ f.pc = "bare" /\ f.kind = "bare"
                    \/ f.pc = "lock" /\ f.kind = "close"
    BY <2>2
  <2>4. \A e : e = top[g] + 1 => FrameOK(g, e)'
    BY <2>1, <2>3, <1>g, <1>ty, EnteredOK
  <2>5. PICK e : e = top[g] + 1
    OBVIOUS
  <2>6. OthersUndisturbed(g, e) /\ PointersUntouched
    BY <2>1, UndisturbedIfUnchanged DEF PointersUntouched
  <2>. QED
    BY <2>1, <2>3, <2>4, <2>5, <2>6, <1>g, <1>ty, StepPush
<1>. QED
  BY <1>1, <1>2 DEF Start

(* A Go function is entered with a VM of its own. *)
LEMMA CallFunctionInv ==
  ASSUME IInv, NEW g \in Goroutine, CallFunction(g)
  PROVE  IInv'
<1>g. g \in Actor /\ TypeOK /\ TypeOK' /\ Ready(g)
  BY CallFunctionType, CallFunctionReady DEF Actor, IInv
<1>1. PICK v \in Unborn \cap FunctionVm :
        NewObjects({v}) /\ Push(g, FunctionFrame(v)) /\ UNCHANGED rwmutex
  BY CallFunctionVm
<1>2. PICK e : e = top[g] + 1
  OBVIOUS
<1>3. /\ FunctionFrame(v).use = {}
      /\ FunctionFrame(v).pc = "running" /\ FunctionFrame(v).kind = "function"
  BY DEF FunctionFrame
<1>4. FrameOK(g, e)'
  BY <1>g, <1>1, <1>2, <1>3, EnteredOK
<1>5. OthersUndisturbed(g, e) /\ PointersUntouched
  BY <1>1, UndisturbedByNewObjects, UntouchedByNewObjects DEF rwmutex
<1>. QED
  BY <1>g, <1>1, <1>2, <1>4, <1>5, StepPush

LEMMA CollectInv ==
  ASSUME IInv, NEW h \in Handle, Forget(h) \/ RunFinalizer(h)
  PROVE  IInv'
<1>ty. TypeOK /\ TypeOK'
  BY CollectType DEF IInv
<1>1. CASE Forget(h)
  <2>1. UNCHANGED <<ptr, box, readers, writer, top, frame>>
    BY <1>1 DEF Forget, rwmutex, calls
  <2>. QED
    BY <2>1, <1>ty DEF IInv, CallsOK, FrameOK, OthersRunning, PointersGood, Active, At, Recv, Cur
<1>2. CASE RunFinalizer(h)
  <2>1. /\ Finalizer \in Actor /\ Ready(Finalizer) /\ Push(Finalizer, CloseFrame(h))
        /\ UNCHANGED <<ptr, readers, writer, box>>
    BY <1>2, HandlesAssumption DEF RunFinalizer, Actor, Ready, rwmutex
  <2>2. \A e : e = top[Finalizer] + 1 => FrameOK(Finalizer, e)'
    BY <2>1, <1>ty, EnteredOK DEF CloseFrame
  <2>3. PICK e : e = top[Finalizer] + 1
    OBVIOUS
  <2>4. OthersUndisturbed(Finalizer, e) /\ PointersUntouched
    BY <2>1, UndisturbedIfUnchanged DEF PointersUntouched
  <2>. QED
    BY <2>1, <2>2, <2>3, <2>4, <1>ty, StepPush
<1>. QED
  BY <1>1, <1>2

LEMMA InitInv == Init => IInv
<1>. SUFFICES ASSUME Init PROVE IInv
  OBVIOUS
<1>1. \A a \in Actor : \A d \in Depth : ~Active(a, d)
  BY DEF Init, Active
<1>. QED
  BY <1>1, InitType DEF IInv, CallsOK, OthersRunning, PointersGood, Init

LEMMA NextInv == IInv /\ [Next]_vars => IInv'
<1>. SUFFICES ASSUME IInv, [Next]_vars PROVE IInv'
  OBVIOUS
<1>1. CASE UNCHANGED vars
  <2>1. UNCHANGED <<ptr, box, readers, writer, top, frame>>
    BY <1>1 DEF vars, object, rwmutex, calls
  <2>2. TypeOK'
    BY NextType DEF IInv
  <2>. QED
    BY <2>1, <2>2 DEF IInv, CallsOK, FrameOK, OthersRunning, PointersGood, Active, At, Recv, Cur
<1>2. CASE Next
  BY <1>2, CallStepInv, CloseStepInv, StartInv, CallFunctionInv, CollectInv DEF Next
<1>. QED
  BY <1>1, <1>2

LEMMA Invariance == Spec => []IInv
<1>. QED
  BY InitInv, NextInv, PTL DEF Spec

(* A call that locks what it reads never holds a pointer to freed memory,     *)
(* whatever the rest of the program does: no use after free, no second free.  *)
THEOREM PointerSafety == Spec => []LockedCallsNeverStale
<1>1. IInv => LockedCallsNeverStale
  <2>. SUFFICES ASSUME IInv, NEW a \in Actor, NEW d \in Depth, Active(a, d),
                       frame[a][d].kind \notin Unlocked, NEW h \in frame[a][d].use
                PROVE  box[h] = "live"
    BY DEF LockedCallsNeverStale
  <2>1. FrameOK(a, d)
    BY DEF IInv, CallsOK
  <2>2. CASE frame[a][d].pc # "dtor"
    BY <2>1, <2>2 DEF FrameOK
  <2>3. CASE frame[a][d].pc = "dtor"
    BY <2>1, <2>3 DEF FrameOK
  <2>. QED
    BY <2>2, <2>3
<1>. QED
  BY <1>1, Invariance, PTL

=============================================================================
