------------------------------ MODULE Handles ------------------------------
(***************************************************************************)
(* The managed handles of gluau: every Go wrapper (LuaTable, LuaString,    *)
(* LuaFunction, LuaUserData, ErrorVariant, GoLuaVmWrapper) holds an        *)
(* *object (vm/object.go): a pointer to a Rust Box, guarded by an RWMutex, *)
(* with a finalizer.  Goroutines call methods, which read the pointer and  *)
(* hand it to Rust; Close frees the Box; the garbage collector closes what *)
(* the program no longer reaches.                                          *)
(*                                                                         *)
(* A call is a frame with a program counter.  Frames nest, because Rust    *)
(* calls back into Go: ForEach and ForEachValue run a callback, a call     *)
(* into Lua runs the Go functions that CreateFunction lent to Lua, and     *)
(* both may call the API again.  A Go function is a frame too: its closure *)
(* (vm.go:193) wraps a VM for it, read-locks what it returns and closes    *)
(* the VM.  Two locks are involved: the object's RWMutex (Go's, modelled   *)
(* here as the sync package implements it) and the VM's reentrant mutex    *)
(* inside mluau (external: Cargo.toml asks for the "send" feature), which  *)
(* every operation on Lua data takes and which a call into Lua keeps while *)
(* Go code runs inside of it.  One Lua state is modelled.                  *)
(***************************************************************************)
EXTENDS Naturals, Sequences

CONSTANTS
  Goroutine,     \* the program's goroutines
  Finalizer,     \* the Go runtime's single finalizer goroutine
  NoActor,       \* no goroutine: nobody is closing
  Handle,        \* the objects
  ErrorHandle,   \* those that are ErrorVariants: no Lua data behind them
  Kinds,         \* the shapes of call the program makes
  Passes,        \* <<r, a>>: the program passes a to a method of r
  FunctionVm,    \* the VMs made for calls of Go functions (and their bound)
  Shared,        \* those of them other goroutines may get hold of
  Returns,       \* what Go functions return (of a GoString, the VM it needs)
  NestedCalls,   \* callbacks and Go functions call the API
  MaxDepth,      \* bound: frames of one goroutine
  MaxArgs        \* bound: values passed to, or returned by, one call

(* What the program calls: a method that ends in Rust; ForEach or          *)
(* ForEachValue (callback); a call that may run Lua code and so Go         *)
(* functions (Call, and Get, Set, ... by way of metamethods); LoadChunk    *)
(* with an environment (env); CreateUserData with its metatable (meta);    *)
(* Equals or SetMetatable (peer); ErrorVariant.Bytes (bare); Close.        *)
ProgramKinds == {"method", "callback", "call", "env", "meta", "peer", "bare", "close"}
AllKinds == ProgramKinds \cup {"function"}

ASSUME HandlesAssumption ==
  /\ Finalizer \notin Goroutine
  /\ NoActor \notin Goroutine \cup {Finalizer}
  /\ Handle # {}
  /\ ErrorHandle \subseteq Handle
  /\ Kinds \subseteq ProgramKinds
  /\ FunctionVm \subseteq Handle \ ErrorHandle
  /\ Shared \subseteq FunctionVm
  /\ Returns \subseteq Handle
  /\ NestedCalls \in BOOLEAN
  /\ Passes \subseteq Handle \X Handle
  /\ MaxDepth \in Nat \ {0}
  /\ MaxArgs \in Nat

Actor == Goroutine \cup {Finalizer}
Depth == 1 .. MaxDepth
Token == Actor \X Depth \X {"recv", "arg"}  \* one RLock held by one frame

VARIABLES
  ptr,      \* ptr[h]: object.ptr is not nil
  box,      \* box[h]: the Rust allocation, "unborn", "live" or "freed"
  fin,      \* fin[h]: a finalizer is set on the object
  held,     \* held[h]: the program's own variables reach the object
  readers,  \* readers[h]: the read locks held on the object
  parked,   \* parked[h]: RLock calls waiting for a Close to finish
  writer,   \* writer[h]: who has announced or holds the write lock
  top,      \* top[a]: how many calls actor a is inside of
  frame     \* frame[a][d]: the d-th of them

object == <<ptr, box, fin, held>>
rwmutex == <<readers, parked, writer>>
calls == <<top, frame>>
vars == <<object, rwmutex, calls>>

PC == {"rlock", "check", "peer", "peeragain", "argrlock", "argcheck", "clone",
       "enter", "running", "runlock", "bare", "bareagain", "bareuse",
       "lock", "drain", "dtor", "clear"}

Converting == {"peer", "peeragain", "argrlock", "argcheck", "clone"}

(* use: the raw pointers the call has read and will still dereference. *)
Frame == {f \in [kind : AllKinds, recv : Handle, args : Seq(Handle), pc : PC,
                 use : SUBSET Handle] : f.pc \in Converting => f.args # <<>>}

(* What a popped frame is left as, so that finished calls leave no trace. *)
IdleFrame == [kind |-> "method", recv |-> CHOOSE h \in Handle : TRUE,
              args |-> <<>>, pc |-> "rlock", use |-> {}]

TypeOK == /\ ptr \in [Handle -> BOOLEAN]
          /\ box \in [Handle -> {"unborn", "live", "freed"}]
          /\ fin \in [Handle -> BOOLEAN]
          /\ held \in [Handle -> BOOLEAN]
          /\ readers \in [Handle -> SUBSET Token]
          /\ parked \in [Handle -> SUBSET Token]
          /\ writer \in [Handle -> Actor \cup {NoActor}]
          /\ top \in [Actor -> 0 .. MaxDepth]
          /\ frame \in [Actor -> [Depth -> Frame]]

Init == /\ ptr = [h \in Handle |-> FALSE]
        /\ box = [h \in Handle |-> "unborn"]
        /\ fin = [h \in Handle |-> FALSE]
        /\ held = [h \in Handle |-> FALSE]
        /\ readers = [h \in Handle |-> {}]
        /\ parked = [h \in Handle |-> {}]
        /\ writer = [h \in Handle |-> NoActor]
        /\ top = [a \in Actor |-> 0]
        /\ frame = [a \in Actor |-> [d \in Depth |-> IdleFrame]]

-----------------------------------------------------------------------------
(* Frames *)

Active(a, d) == d \in 1 .. top[a]
Cur(a) == frame[a][top[a]]
At(a, pc) == top[a] > 0 /\ Cur(a).pc = pc
Recv(a) == Cur(a).recv
Arg(a) == Head(Cur(a).args)
Tok(a, role) == <<a, top[a], role>>

(* The current call moves on: to pc, with args to convert, pointers use. *)
Advance(a, pc, args, use) ==
  /\ frame' = [frame EXCEPT ![a][top[a]] =
                 [kind |-> Cur(a).kind, recv |-> Recv(a), args |-> args,
                  pc |-> pc, use |-> use]]
  /\ UNCHANGED top

Goto(a, pc, use) == Advance(a, pc, Cur(a).args, use)

Push(a, f) == /\ frame' = [frame EXCEPT ![a][top[a] + 1] = f]
              /\ top' = [top EXCEPT ![a] = @ + 1]

Pop(a) == /\ frame' = [frame EXCEPT ![a][top[a]] = IdleFrame]
          /\ top' = [top EXCEPT ![a] = @ - 1]

(* The program runs its own code: outside any call, in a callback or in a Go *)
(* function; and there it may make a call.                                   *)
InProgram(a) == top[a] = 0 \/ (At(a, "running") /\ Cur(a).kind # "call")
CanStart(a) == InProgram(a) /\ (top[a] = 0 \/ (NestedCalls /\ top[a] < MaxDepth))

(* A variable of g's code refers to h: the VM of a Go function is known to   *)
(* that function, unless the program shares it.                              *)
Private == FunctionVm \ Shared
Mine(g, h) == \E d \in Depth : /\ Active(g, d)
                              /\ frame[g][d].kind = "function"
                              /\ frame[g][d].recv = h
MayUse(g, h) == held[h] /\ (h \in Private => Mine(g, h))

(* Mutant: nothing refers to the receiver after its pointer was read. *)
PinsNothing(f) == {}

(* The objects a call keeps alive: its receiver until the deferred RUnlock   *)
(* (a Go function's VM until the deferred Close), an argument until it is    *)
(* converted (or, under a deferred RUnlock, to the end).  ErrorVariant.Bytes *)
(* defers nothing: after its unlocked read of ptr it refers to the object no *)
(* more.                                                                     *)
Pins(f) == (IF f.pc = "bareuse" THEN {} ELSE {f.recv})
             \cup {f.args[i] : i \in DOMAIN f.args}

Reachable(h) == held[h] \/ \E a \in Actor : \E d \in Depth :
                             Active(a, d) /\ h \in Pins(frame[a][d])

-----------------------------------------------------------------------------
(* sync.RWMutex: a pending Lock stops new readers; Unlock admits the parked  *)
(* readers before the next writer.                                           *)

RLock(h, t) ==
  /\ IF writer[h] = NoActor
       THEN readers' = [readers EXCEPT ![h] = @ \cup {t}] /\ UNCHANGED parked
       ELSE parked' = [parked EXCEPT ![h] = @ \cup {t}] /\ UNCHANGED readers
  /\ UNCHANGED writer

RUnlock(h, t) == /\ readers' = [readers EXCEPT ![h] = @ \ {t}]
                 /\ UNCHANGED <<parked, writer>>

Unlock(h) == /\ writer' = [writer EXCEPT ![h] = NoActor]
             /\ readers' = [readers EXCEPT ![h] = @ \cup parked[h]]
             /\ parked' = [parked EXCEPT ![h] = {}]

(* mluau's VM mutex: free for a unless another actor is inside a call that   *)
(* runs callbacks or Lua code.                                               *)
LuaFree(a) == \A b \in Actor \ {a} : \A d \in Depth :
                Active(b, d) => frame[b][d].pc # "running"

-----------------------------------------------------------------------------
(* Objects *)

(* Mutant: no finalizer is set. *)
NewObjectsUnfinalized(new) ==
  /\ ptr' = [h \in Handle |-> ptr[h] \/ h \in new]
  /\ box' = [h \in Handle |-> IF h \in new THEN "live" ELSE box[h]]
  /\ held' = [h \in Handle |-> held[h] \/ h \in new]
  /\ UNCHANGED fin

(* newObject on each of new: box handed over by Rust, finalizer set. *)
NewObjects(new) ==
  /\ ptr' = [h \in Handle |-> ptr[h] \/ h \in new]
  /\ box' = [h \in Handle |-> IF h \in new THEN "live" ELSE box[h]]
  /\ fin' = [h \in Handle |-> fin[h] \/ h \in new]
  /\ held' = [h \in Handle |-> held[h] \/ h \in new]

Unborn == {h \in Handle : box[h] = "unborn"}

(* A call into Lua returns nothing new, or one handle (a table, a value...). *)
Results == {{}} \cup {{h} : h \in Unborn \ (ErrorHandle \cup FunctionVm)}

(* An object made without a call on another: CreateLuaVm, CreateErrorVariant, *)
(* a key, value or argument handed to a running callback or function.         *)
Create(g) == /\ InProgram(g)
             /\ \E h \in Unborn \ FunctionVm : NewObjects({h})
             /\ UNCHANGED <<rwmutex, calls>>

(* The program drops its last variable that refers to h. *)
Forget(h) == /\ held[h]
             /\ held' = [held EXCEPT ![h] = FALSE]
             /\ UNCHANGED <<ptr, box, fin, rwmutex, calls>>

-----------------------------------------------------------------------------
(* Calls that read the object: RLock, PointerNoLock, convert the arguments,  *)
(* call Rust, RUnlock.                                                       *)

(* Argument lists: only methods and calls convert values one by one; env,    *)
(* meta and peer take exactly one table.                                     *)
ArgLists(g, k, r) ==
  LET n == CASE k \in {"method", "call"} -> 0 .. MaxArgs
             [] k = "callback" -> {0}
             [] OTHER -> {1}
  IN  {s \in UNION {[1 .. i -> Handle] : i \in n} :
         \A i \in DOMAIN s : /\ MayUse(g, s[i])
                             /\ <<r, s[i]>> \in Passes
                             /\ k \in {"env", "meta", "peer"} => s[i] \notin ErrorHandle}

StartCall(g) ==
  /\ CanStart(g)
  /\ \E k \in Kinds \ {"bare", "close"}, r \in Handle \ ErrorHandle :
       /\ MayUse(g, r)
       /\ \E s \in ArgLists(g, k, r) :
            Push(g, [kind |-> k, recv |-> r, args |-> s, pc |-> "rlock", use |-> {}])
  /\ UNCHANGED <<object, rwmutex>>

RLockRecv(g) == /\ At(g, "rlock")
                /\ RLock(Recv(g), Tok(g, "recv"))
                /\ Goto(g, "check", {})
                /\ UNCHANGED object

(* Mutant: one conversion too many. *)
NextPcPastEnd(k, args) == IF k = "peer" THEN "peer" ELSE "argrlock"

(* What the call does next, with args still to convert. *)
NextPc(k, args) == CASE args = <<>> /\ k = "function" -> "runlock"
                     [] args = <<>> /\ k # "function" -> "enter"
                     [] args # <<>> /\ k = "peer" -> "peer"
                     [] OTHER -> "argrlock"

(* Mutant: the pointer is read without waiting for the lock. *)
CheckRecvUnlocked(g) ==
  /\ At(g, "check")
  /\ IF ptr[Recv(g)]
       THEN Goto(g, NextPc(Cur(g).kind, Cur(g).args), {Recv(g)})
       ELSE Goto(g, "runlock", {})
  /\ UNCHANGED <<object, rwmutex>>

(* Mutant: the early return of a closed object forgets the RUnlock. *)
CheckRecvNoUnlock(g) ==
  /\ At(g, "check")
  /\ Tok(g, "recv") \in readers[Recv(g)]
  /\ IF ptr[Recv(g)]
       THEN Goto(g, NextPc(Cur(g).kind, Cur(g).args), {Recv(g)})
       ELSE Pop(g)
  /\ UNCHANGED <<object, rwmutex>>

(* innerPtr / lua(): an error if the object is closed. *)
CheckRecv(g) ==
  /\ At(g, "check")
  /\ Tok(g, "recv") \in readers[Recv(g)]
  /\ IF ptr[Recv(g)]
       THEN Goto(g, NextPc(Cur(g).kind, Cur(g).args), {Recv(g)})
       ELSE Goto(g, "runlock", {})
  /\ UNCHANGED <<object, rwmutex>>

(* The receiver's pointer stays in use while arguments are converted; a Go   *)
(* function converts what it returns, and reads no receiver.                 *)
Kept(g) == IF Cur(g).kind = "function" THEN {} ELSE {Recv(g)}

RLockArg(g) == /\ At(g, "argrlock")
               /\ RLock(Arg(g), Tok(g, "arg"))
               /\ Goto(g, "argcheck", Kept(g))
               /\ UNCHANGED object

(* A closed value or metatable is an error; LoadChunk goes on without a      *)
(* closed environment.                                                       *)
CheckArg(g) ==
  /\ At(g, "argcheck")
  /\ Tok(g, "arg") \in readers[Arg(g)]
  /\ CASE ptr[Arg(g)] ->
            Goto(g, IF Cur(g).kind \in {"env", "meta"} THEN "enter" ELSE "clone",
                 Kept(g) \cup {Arg(g)})
       [] ~ptr[Arg(g)] /\ Cur(g).kind = "env" -> Goto(g, "enter", Kept(g))
       [] OTHER -> Goto(g, "runlock", {})
  /\ UNCHANGED <<object, rwmutex>>

(* valueToC: luago_value_clone under the argument's read lock, then RUnlock. *)
CloneArg(g) ==
  /\ At(g, "clone")
  /\ Arg(g) \in ErrorHandle \/ LuaFree(g)
  /\ RUnlock(Arg(g), Tok(g, "arg"))
  /\ LET rest == Tail(Cur(g).args)
     IN  Advance(g, NextPc(Cur(g).kind, rest), rest, Kept(g))
  /\ UNCHANGED object

(* Equals and SetMetatable look at the other table's pointer with no lock    *)
(* (innerPtr's nil check) ...                                                *)
ReadPeer(g) ==
  /\ At(g, "peer")
  /\ IF ptr[Arg(g)] THEN Goto(g, "peeragain", {Recv(g)})
                     ELSE Advance(g, "runlock", <<>>, {})
  /\ UNCHANGED <<object, rwmutex>>

(* ... read it once more to return it, unless the compiler kept the value    *)
(* (the reads race with Close), and do not refer to that table again.  Rust  *)
(* takes the nil of a table closed in between for no table at all.           *)
ReadPeerAgain(g) ==
  /\ At(g, "peeragain")
  /\ \E seen \in {TRUE, ptr[Arg(g)]} :
       Advance(g, "enter", <<>>, IF seen THEN {Recv(g), Arg(g)} ELSE {Recv(g)})
  /\ UNCHANGED <<object, rwmutex>>

(* The Rust function: done at once, or running callbacks or Lua code. *)
Enter(g) ==
  /\ At(g, "enter")
  /\ LuaFree(g)
  /\ IF Cur(g).kind \in {"callback", "call"}
       THEN Goto(g, "running", Cur(g).use) /\ UNCHANGED object
       ELSE Goto(g, "runlock", {}) /\ \E new \in Results : NewObjects(new)
  /\ UNCHANGED rwmutex

(* The last callback returns (or fails, or panics and is recovered), or the  *)
(* Lua code ends, and so does the Rust function.                             *)
CallbackReturn(g) == /\ At(g, "running")
                     /\ Cur(g).kind # "function"
                     /\ Goto(g, "runlock", {})
                     /\ \E new \in Results : NewObjects(new)
                     /\ UNCHANGED rwmutex

(* The deferred RUnlocks, last one first. *)
RUnlockArg(g) == /\ At(g, "runlock")
                 /\ Cur(g).args # <<>>
                 /\ Tok(g, "arg") \in readers[Arg(g)]
                 /\ RUnlock(Arg(g), Tok(g, "arg"))
                 /\ UNCHANGED <<object, calls>>

RUnlockRecv(g) ==
  /\ At(g, "runlock")
  /\ Cur(g).kind # "function"
  /\ Cur(g).args # <<>> => Tok(g, "arg") \notin readers[Arg(g)]
  /\ RUnlock(Recv(g), Tok(g, "recv"))
  /\ Pop(g)
  /\ UNCHANGED object

-----------------------------------------------------------------------------
(* A Go function called by Lua code: the closure of CreateFunction, under    *)
(* the VM mutex of the call that runs the code.                              *)

(* Lua calls a Go function; the closure makes an object of the VM it gets.   *)
CallFunction(g) ==
  /\ At(g, "running")
  /\ Cur(g).kind = "call"
  /\ top[g] < MaxDepth
  /\ \E v \in Unborn \cap FunctionVm :
       /\ NewObjects({v})
       /\ Push(g, [kind |-> "function", recv |-> v, args |-> <<>>,
                   pc |-> "running", use |-> {}])
  /\ UNCHANGED rwmutex

ReturnLists(g) == UNION {[1 .. n -> {h \in Returns \ {Recv(g)} : MayUse(g, h)}] :
                           n \in 0 .. MaxArgs}

(* The program's function returns (an error: nothing to convert); the        *)
(* closure converts the values with RLockArg, CheckArg and CloneArg, up to   *)
(* the first one that is closed.                                             *)
FunctionReturns(g) ==
  /\ At(g, "running")
  /\ Cur(g).kind = "function"
  /\ \E s \in ReturnLists(g) : Advance(g, NextPc("function", s), s, {})
  /\ UNCHANGED <<object, rwmutex>>

(* It panics: the Close of its VM is deferred only once it has returned.     *)
FunctionPanics(g) == /\ At(g, "running")
                     /\ Cur(g).kind = "function"
                     /\ Pop(g)
                     /\ UNCHANGED <<object, rwmutex>>

(* Mutant: the VM is left to the collector. *)
LeaveFunctionVm(g) ==
  /\ At(g, "runlock")
  /\ Cur(g).kind = "function"
  /\ Cur(g).args # <<>> => Tok(g, "arg") \notin readers[Arg(g)]
  /\ Pop(g)
  /\ UNCHANGED <<object, rwmutex>>

(* defer callbackVm.Close(). *)
CloseFunctionVm(g) ==
  /\ At(g, "runlock")
  /\ Cur(g).kind = "function"
  /\ Cur(g).args # <<>> => Tok(g, "arg") \notin readers[Arg(g)]
  /\ Advance(g, "lock", <<>>, {})
  /\ UNCHANGED <<object, rwmutex>>

-----------------------------------------------------------------------------
(* ErrorVariant.Bytes and String: the pointer is read and used with no lock. *)

StartBare(g) ==
  /\ "bare" \in Kinds
  /\ CanStart(g)
  /\ \E h \in ErrorHandle :
       held[h] /\ Push(g, [kind |-> "bare", recv |-> h, args |-> <<>>,
                           pc |-> "bare", use |-> {}])
  /\ UNCHANGED <<object, rwmutex>>

ReadBare(g) == /\ At(g, "bare")
               /\ IF ptr[Recv(g)] THEN Goto(g, "bareagain", {}) ELSE Pop(g)
               /\ UNCHANGED <<object, rwmutex>>

(* The second read, as in ReadPeerAgain; Rust makes nil an empty string. *)
ReadBareAgain(g) ==
  /\ At(g, "bareagain")
  /\ \E seen \in {TRUE, ptr[Recv(g)]} :
       Goto(g, "bareuse", IF seen THEN {Recv(g)} ELSE {})
  /\ UNCHANGED <<object, rwmutex>>

UseBare(g) == /\ At(g, "bareuse")
              /\ Pop(g)
              /\ UNCHANGED <<object, rwmutex>>

-----------------------------------------------------------------------------
(* object.Close *)

CloseFrame(h) == [kind |-> "close", recv |-> h, args |-> <<>>,
                  pc |-> "lock", use |-> {}]

StartClose(g) == /\ "close" \in Kinds
                 /\ CanStart(g)
                 /\ \E h \in Handle : MayUse(g, h) /\ Push(g, CloseFrame(h))
                 /\ UNCHANGED <<object, rwmutex>>

(* The collector finds h unreachable: its finalizer is Close, run by the     *)
(* finalizer goroutine, and is set no more.                                  *)
RunFinalizer(h) == /\ fin[h]
                   /\ ~Reachable(h)
                   /\ top[Finalizer] = 0
                   /\ fin' = [fin EXCEPT ![h] = FALSE]
                   /\ Push(Finalizer, CloseFrame(h))
                   /\ UNCHANGED <<ptr, box, held, rwmutex>>

(* RWMutex.Lock, first half: announce the writer. *)
Lock(a) == /\ At(a, "lock")
           /\ writer[Recv(a)] = NoActor
           /\ writer' = [writer EXCEPT ![Recv(a)] = a]
           /\ Goto(a, "drain", {})
           /\ UNCHANGED <<object, readers, parked>>

(* Mutant: Close does not wait for the readers. *)
DrainAtOnce(a) ==
  /\ At(a, "drain")
  /\ IF ptr[Recv(a)]
       THEN Goto(a, "dtor", {Recv(a)}) /\ UNCHANGED rwmutex
       ELSE Unlock(Recv(a)) /\ Pop(a)
  /\ UNCHANGED object

(* Second half: wait for the readers to leave.  Then nothing if already closed. *)
Drain(a) == /\ At(a, "drain")
            /\ readers[Recv(a)] = {}
            /\ IF ptr[Recv(a)]
                 THEN Goto(a, "dtor", {Recv(a)}) /\ UNCHANGED rwmutex
                 ELSE Unlock(Recv(a)) /\ Pop(a)
            /\ UNCHANGED object

(* tab.dtor: the Box is dropped; dropping Lua data takes the VM mutex. *)
Dtor(a) == /\ At(a, "dtor")
           /\ Recv(a) \in ErrorHandle \/ LuaFree(a)
           /\ box' = [box EXCEPT ![Recv(a)] = "freed"]
           /\ Goto(a, "clear", {})
           /\ UNCHANGED <<ptr, fin, held, rwmutex>>

(* Mutant: the write lock is kept. *)
ClearPtrNoUnlock(a) ==
  /\ At(a, "clear")
  /\ ptr' = [ptr EXCEPT ![Recv(a)] = FALSE]
  /\ fin' = [fin EXCEPT ![Recv(a)] = FALSE]
  /\ Pop(a)
  /\ UNCHANGED <<box, held, rwmutex>>

(* Mutant: Close leaves ptr and the finalizer as they were. *)
ClearPtrNothing(a) == /\ At(a, "clear")
                      /\ Unlock(Recv(a))
                      /\ Pop(a)
                      /\ UNCHANGED object

(* ptr = nil, the finalizer is removed, Unlock. *)
ClearPtr(a) == /\ At(a, "clear")
               /\ ptr' = [ptr EXCEPT ![Recv(a)] = FALSE]
               /\ fin' = [fin EXCEPT ![Recv(a)] = FALSE]
               /\ Unlock(Recv(a))
               /\ Pop(a)
               /\ UNCHANGED <<box, held>>

-----------------------------------------------------------------------------
CallStep(g) ==
  \/ RLockRecv(g) \/ CheckRecv(g) \/ RLockArg(g) \/ CheckArg(g) \/ CloneArg(g)
  \/ ReadPeer(g) \/ ReadPeerAgain(g) \/ Enter(g) \/ RUnlockArg(g) \/ RUnlockRecv(g)
  \/ CloseFunctionVm(g) \/ ReadBare(g) \/ ReadBareAgain(g) \/ UseBare(g)
CloseStep(a) == Lock(a) \/ Drain(a) \/ Dtor(a) \/ ClearPtr(a)
Start(g) == Create(g) \/ StartCall(g) \/ StartBare(g) \/ StartClose(g)
CallbackEnds(g) == CallbackReturn(g) \/ FunctionReturns(g) \/ FunctionPanics(g)

Next == \/ \E g \in Goroutine : \/ Start(g) \/ CallStep(g)
                               \/ CallFunction(g) \/ CallbackEnds(g)
        \/ \E a \in Actor : CloseStep(a)
        \/ \E h \in Handle : Forget(h) \/ RunFinalizer(h)

Spec == Init /\ [][Next]_vars

(* Fairness: the Go scheduler runs every goroutine that can run, and a lock  *)
(* that is free again and again is acquired in the end (sync.Mutex and       *)
(* mluau's mutex are eventually fair), hence SF; callbacks, Go functions and *)
(* Lua code end; the collector runs.                                         *)
Fairness ==
  /\ \A g \in Goroutine : /\ SF_vars(CallStep(g) \/ CloseStep(g))
                          /\ SF_vars(CallbackEnds(g))
  /\ SF_vars(CloseStep(Finalizer))
  /\ \A h \in Handle : WF_vars(RunFinalizer(h))

FairSpec == Spec /\ Fairness

-----------------------------------------------------------------------------
(* Properties *)

(* The calls that read a pointer without taking that object's lock. *)
Unlocked == {"peer", "bare"}

(* No call that locks what it reads, Close included, holds a raw pointer it  *)
(* will still dereference to an allocation that was freed: neither a use     *)
(* after free nor a second free, whatever else the program does.             *)
LockedCallsNeverStale ==
  \A a \in Actor : \A d \in Depth :
    Active(a, d) /\ frame[a][d].kind \notin Unlocked =>
      \A h \in frame[a][d].use : box[h] = "live"

(* The same of every call, as object.go:60 has it: "Close() can only be      *)
(* called if no one is reading/using the object".                            *)
NoStalePointer ==
  \A a \in Actor : \A d \in Depth :
    Active(a, d) => \A h \in frame[a][d].use : box[h] = "live"

(* Lock accounting over nested calls: whoever holds or waits for a lock of h *)
(* is a call in progress that names h and will release it, so no path        *)
(* through errors, closed arguments and callbacks leaves an object locked.   *)
NoLockLeak ==
  \A h \in Handle :
    /\ \A t \in readers[h] \cup parked[h] :
         /\ Active(t[1], t[2])
         /\ frame[t[1]][t[2]].kind # "close"
         /\ t[3] = "recv" => /\ frame[t[1]][t[2]].recv = h
                             /\ frame[t[1]][t[2]].kind # "function"
         /\ t[3] = "arg" => /\ frame[t[1]][t[2]].args # <<>>
                            /\ Head(frame[t[1]][t[2]].args) = h
    /\ writer[h] # NoActor =>
         /\ Active(writer[h], top[writer[h]])
         /\ Recv(writer[h]) = h
         /\ Cur(writer[h]).kind \in {"close", "function"}

(* Every allocation still alive will be freed by someone: its finalizer is   *)
(* armed, or a Close is at work on it.                                       *)
NothingLeaks ==
  \A h \in Handle : box[h] = "live" =>
    \/ fin[h]
    \/ \E a \in Actor : \E d \in Depth :
         Active(a, d) /\ frame[a][d].kind = "close" /\ frame[a][d].recv = h

(* The finalizer goroutine serves all objects one after another, so it must  *)
(* not block on an object's RWMutex: the deferred RUnlocks keep an object    *)
(* reachable as long as anyone holds or wants its lock.                      *)
FinalizerNeverWaitsForReaders ==
  At(Finalizer, "lock") \/ At(Finalizer, "drain") =>
    LET h == Recv(Finalizer)
    IN  readers[h] = {} /\ parked[h] = {} /\ writer[h] \in {NoActor, Finalizer}

LuaOperation(a) == \/ At(a, "enter")
                   \/ At(a, "clone") /\ Arg(a) \notin ErrorHandle
                   \/ At(a, "dtor") /\ Recv(a) \notin ErrorHandle

(* a's next step needs b to move first. *)
WaitsFor(a, b) ==
  \/ At(a, "check") /\ Tok(a, "recv") \in parked[Recv(a)] /\ writer[Recv(a)] = b
  \/ At(a, "argcheck") /\ Tok(a, "arg") \in parked[Arg(a)] /\ writer[Arg(a)] = b
  \/ At(a, "lock") /\ writer[Recv(a)] = b
  \/ At(a, "drain") /\ \E t \in readers[Recv(a)] : t[1] = b
  \/ LuaOperation(a) /\ b # a
       /\ \E d \in Depth : Active(b, d) /\ frame[b][d].pc = "running"

Deadlocked(S) == S # {} /\ \A a \in S : \E b \in S : WaitsFor(a, b)

(* No set of goroutines, of any size, waits for one another. *)
NoDeadlock == \A S \in SUBSET Actor : ~Deadlocked(S)

(* Whoever closes it, a is closing an object whose loop is not over.         *)
ClosesInsideLoop(a) ==
  /\ At(a, "lock") \/ At(a, "drain") \/ At(a, "dtor")
  /\ \E b \in Actor : \E d \in Depth :
       /\ Active(b, d)
       /\ frame[b][d].kind = "callback" /\ frame[b][d].recv = Recv(a)

(* table.go:101, the only deadlock the API documents: "the LuaTable should   *)
(* not be closed while inside a ForEach loop".  Any other deadlock of the    *)
(* API's methods and Close would be undocumented.                            *)
OnlyDocumentedDeadlock ==
  \A S \in SUBSET Actor : Deadlocked(S) => \E a \in S : ClosesInsideLoop(a)

(* Every call the program makes comes back. *)
EveryCallReturns == \A g \in Goroutine : top[g] > 0 ~> top[g] = 0

(* The VM made for a call of a Go function is closed once the function has   *)
(* returned, vm.go:183: "funcVm will only be open until the callback         *)
(* function returns".                                                        *)
FunctionVmCloses ==
  \A v \in FunctionVm :
    (\E g \in Goroutine : \E d \in Depth :
       /\ Active(g, d)
       /\ frame[g][d].kind = "function" /\ frame[g][d].recv = v
       /\ frame[g][d].pc # "running") ~> ~ptr[v]

(* The memory of an object the program has dropped is given back. *)
DroppedIsFreed ==
  \A h \in Handle : (box[h] = "live" /\ ~held[h]) ~> box[h] = "freed"

(* The pointers a call, or a Close, has read under a lock and will still     *)
(* dereference or free.                                                      *)
Holds(a, d) == IF Active(a, d) /\ frame[a][d].kind \notin Unlocked
                 THEN frame[a][d].use ELSE {}

Phase == [h \in Handle |-> CASE box[h] = "unborn" -> "unborn"
                             [] box[h] = "live" -> "open"
                             [] box[h] = "freed" -> "closed"]

Users == [h \in Handle |-> {u \in Actor \X Depth : h \in Holds(u[1], u[2])}]

(* The handles keep the promise of ManagedHandle to the calls that lock what *)
(* they read: a user is a frame that has read the pointer and will           *)
(* dereference it, or free it: a Close at its destructor.                    *)
Promise == INSTANCE ManagedHandle WITH
  User <- Actor \X Depth, phase <- Phase, users <- Users

ImplementsManagedHandle == Promise!Spec
=============================================================================
