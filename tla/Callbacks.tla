------------------------------ MODULE Callbacks ------------------------------
(***************************************************************************)
(* Go values lent to Rust (vm/callback.go): the functions of CreateFunction, *)
(* the callbacks of ForEach and ForEachValue, the data of CreateUserData.  *)
(* Rust holds a cgo.Handle to each, calls it back through a trampoline and *)
(* drops it once.  What a callback receives and returns travels in structs *)
(* and multivalues that Rust allocates and must free.                      *)
(*                                                                         *)
(* The Lua state lives as long as something refers to it strongly: a VM    *)
(* wrapper, the program's or one handed to a callback, or a call into Lua  *)
(* that is running (external: mluau's Lua is reference counted; its        *)
(* strings, functions and userdata refer to it weakly).  mluau's mutex     *)
(* lets one goroutine at a time be inside Lua, so there is one stack; the  *)
(* program's other goroutines interleave with it.                          *)
(***************************************************************************)
EXTENDS Naturals, Sequences

CONSTANTS
  Function,   \* Go functions given to Lua
  UserData,   \* Go data given to Lua
  Loop,       \* callbacks of ForEach and ForEachValue calls
  Main,       \* the VM wrapper of CreateLuaVm
  CallbackVm, \* bound: VM wrappers of callbacks, as many as there are at a time
  LuaString,  \* the strings whose bytes are read
  None,       \* no VM wrapper, no reader
  MaxDepth,   \* bound: calls nested in one another
  MaxItems    \* bound: entries a loop visits

LuaOwned == Function \cup UserData   \* dropped by Lua's collector
Lent == LuaOwned \cup Loop
Vm == {Main} \cup CallbackVm

ASSUME CallbacksAssumption ==
  /\ Function \cap UserData = {}
  /\ LuaOwned \cap Loop = {}
  /\ Main \notin CallbackVm
  /\ UserData \cap LuaString = {}
  /\ None \notin UserData \cup LuaString \cup Vm
  /\ MaxDepth \in Nat /\ MaxItems \in Nat

VARIABLES
  cgo,     \* cgo[c]: c's entry in the table of cgo handles
  owner,   \* owner[c]: the IGoCallbackWrapper or DynamicData holding it
  maker,   \* maker[f]: the open VM wrapper that f's closure refers to
  goRef,   \* those that an open LuaFunction or LuaUserData refers to
  luaRef,  \* those that Lua data refers to
  vm,      \* vm[v]: allocated by Rust, open in Go, or lost without a finalizer
  held,    \* the VM wrappers the program refers to, by itself or by its tables
  stack,   \* the calls inside Lua, callbacks nesting
  alloc,   \* what Rust and Go have allocated for those calls
  reader,  \* what another goroutine has read an address or a handle out of
  misuse   \* who used a handle or an address that is no longer valid

handles == <<cgo, owner, maker, misuse>>
refs == <<goRef, luaRef>>
state == <<vm, held>>
calls == <<stack, alloc>>
vars == <<handles, refs, state, calls, reader>>

(* A call of a Go function (with FunctionCallbackData's two results), or a   *)
(* loop: err is errv (the item that set it), seen and bad the items visited  *)
(* and those that failed.                                                    *)
Frame == [cb : Function \cup Loop, fromGo : BOOLEAN, vm : CallbackVm \cup {None},
          pc : {"enter", "body", "rust"},
          values : BOOLEAN, error : BOOLEAN,
          stop : BOOLEAN, err : 0 .. MaxItems,
          seen : 0 .. MaxItems, bad : SUBSET (1 .. MaxItems)]

NewFrame(c, fromGo, v) ==
  [cb |-> c, fromGo |-> fromGo, vm |-> v, pc |-> "enter", values |-> FALSE, error |-> FALSE,
   stop |-> FALSE, err |-> 0, seen |-> 0, bad |-> {}]

TypeOK == /\ cgo \in [Lent -> {"unborn", "valid", "deleted"}]
          /\ owner \in [Lent -> {"unborn", "alive", "dropped"}]
          /\ maker \in [Function -> Vm \cup {None}]
          /\ goRef \subseteq LuaOwned
          /\ luaRef \subseteq LuaOwned
          /\ vm \in [Vm -> {"none", "raw", "open", "lost"}]
          /\ held \subseteq {v \in Vm : vm[v] = "open"}
          /\ stack \in Seq(Frame) /\ Len(stack) <= MaxDepth
          /\ alloc \subseteq (0 .. MaxDepth) \X {"data", "args", "values", "error"}
          /\ reader \in UserData \cup LuaString \cup {None}
          /\ misuse \subseteq {"call", "drop", "data", "bytes"}

Init == /\ cgo = [c \in Lent |-> "unborn"]
        /\ owner = [c \in Lent |-> "unborn"]
        /\ maker = [f \in Function |-> None]
        /\ goRef = {} /\ luaRef = {}
        /\ vm = [v \in Vm |-> IF v = Main THEN "open" ELSE "none"]
        /\ held = {Main}
        /\ stack = <<>> /\ alloc = {}
        /\ reader = None
        /\ misuse = {}

-----------------------------------------------------------------------------
(* The Lua state and what it owns *)

Depth == Len(stack)
Top == stack[Depth]
InBody == stack # <<>> /\ Top.pc = "body"
InGo == stack = <<>> \/ InBody   \* the program's own code runs
InCall == stack # <<>> /\ Top.cb \in Function
InLoop == stack # <<>> /\ Top.cb \in Loop

Alive == stack # <<>> \/ \E v \in Vm : vm[v] # "none"
Running == {stack[i].cb : i \in DOMAIN stack}
Owned == {c \in LuaOwned : owner[c] = "alive"}

(* The VM wrappers the program can use: its own, and the ones its running    *)
(* callbacks were given.                                                     *)
Given == {stack[i].vm : i \in {j \in DOMAIN stack : stack[j].pc = "body"}}
Usable(v) == vm[v] = "open" /\ InGo /\ v \in held \cup Given

(* What keeps the Go runtime from finalizing v.  The closure that            *)
(* CreateFunction lends to Lua refers to its VM wrapper, and the table of    *)
(* cgo handles to the closure.                                               *)
Pinned(v) == v \in held \cup Given \/ \E f \in Function : cgo[f] = "valid" /\ maker[f] = v

(* Rust drops what holds the handles of C: each trampoline finds its object  *)
(* through the handle, runs its drop function and deletes the handle.        *)
Drop(C) ==
  /\ owner' = [c \in Lent |-> IF c \in C THEN "dropped" ELSE owner[c]]
  /\ cgo' = [c \in Lent |-> IF c \in C THEN "deleted" ELSE cgo[c]]
  /\ maker' = [f \in Function |->
       IF f \notin C /\ maker[f] \in Vm /\ vm'[maker[f]] = "open" THEN maker[f] ELSE None]
  /\ misuse' = misuse \cup {w \in {"drop"} : \E c \in C : cgo[c] # "valid"}

(* After a reference to the Lua state is gone: the last one takes the state, *)
(* and everything it owns, with it.  C is dropped in any case.               *)
Release(C) == IF stack' # <<>> \/ \E v \in Vm : vm'[v] # "none"
                THEN Drop(C) /\ UNCHANGED luaRef
                ELSE Drop(C \cup Owned) /\ luaRef' = {}

(* GoLuaVmWrapper.Close, by whoever calls it. *)
Free(v) == vm' = [vm EXCEPT ![v] = "none"] /\ held' = held \ {v}

CloseVm(v) == /\ Usable(v)
              /\ Free(v)
              /\ UNCHANGED <<calls, goRef, reader>>
              /\ Release({})

(* The program lets go of a VM wrapper without closing it. *)
Forget(v) == /\ v \in held
             /\ held' = held \ {v}
             /\ UNCHANGED <<handles, refs, vm, calls, reader>>

(* Mutant: the VM wrapper of a callback is not given a finalizer. *)
FinalizeOnlyMain(v) ==
  /\ v = Main
  /\ vm[v] = "open" /\ ~Pinned(v) /\ InGo
  /\ Free(v)
  /\ UNCHANGED <<calls, goRef, reader>>
  /\ Release({})

(* Its finalizer: of the program's, or of one a panicking callback left open. *)
Finalize(v) == /\ vm[v] = "open" /\ ~Pinned(v) /\ InGo
               /\ Free(v)
               /\ UNCHANGED <<calls, goRef, reader>>
               /\ Release({})

Lend(c, v) ==
  /\ cgo' = [cgo EXCEPT ![c] = "valid"]
  /\ owner' = [owner EXCEPT ![c] = "alive"]
  /\ maker' = [f \in Function |-> IF f = c THEN v ELSE maker[f]]
  /\ goRef' = goRef \cup {c}

(* CreateFunction, CreateUserData: a new handle goes to Rust, which keeps it *)
(* in the new Lua value or, on failure, drops it.                            *)
Create(c, v) ==
  /\ cgo[c] = "unborn"
  /\ Usable(v)
  /\ \/ Lend(c, v)
     \/ /\ cgo' = [cgo EXCEPT ![c] = "deleted"]
        /\ owner' = [owner EXCEPT ![c] = "dropped"]
        /\ UNCHANGED <<maker, goRef>>
  /\ UNCHANGED <<misuse, luaRef, state, calls, reader>>

(* Lua's collector finds c unreachable. *)
Collect(c) == /\ Alive
              /\ owner[c] = "alive"
              /\ c \notin goRef \cup luaRef \cup Running
              /\ UNCHANGED <<refs, state, calls, reader>>
              /\ Drop({c})

(* Mutant: closing the program's object gives the Go value back, although    *)
(* Lua may have it too.                                                      *)
ReferReturning(c) ==
  /\ \/ Alive /\ InGo /\ c \in goRef /\ luaRef' = luaRef \cup {c} /\ UNCHANGED <<cgo, goRef>>
     \/ Alive /\ InGo /\ c \in luaRef /\ goRef' = goRef \cup {c} /\ UNCHANGED <<cgo, luaRef>>
     \/ luaRef' = luaRef \ {c} /\ UNCHANGED <<cgo, goRef>>
     \/ /\ c \in goRef /\ c # reader
        /\ ~ \E i \in DOMAIN stack : stack[i].cb = c /\ stack[i].fromGo
        /\ goRef' = goRef \ {c} /\ cgo' = [cgo EXCEPT ![c] = "deleted"]
        /\ UNCHANGED luaRef
  /\ UNCHANGED <<owner, maker, misuse, state, calls, reader>>

(* References come and go: the program gives c to Lua and gets it back, Lua  *)
(* drops it, the program closes its object.  Close waits for the calls that  *)
(* hold the object's read lock.                                              *)
Refer(c) ==
  /\ \/ Alive /\ InGo /\ c \in goRef /\ luaRef' = luaRef \cup {c} /\ UNCHANGED goRef
     \/ Alive /\ InGo /\ c \in luaRef /\ goRef' = goRef \cup {c} /\ UNCHANGED luaRef
     \/ luaRef' = luaRef \ {c} /\ UNCHANGED goRef
     \/ /\ c # reader
        /\ ~ \E i \in DOMAIN stack : stack[i].cb = c /\ stack[i].fromGo
        /\ goRef' = goRef \ {c} /\ UNCHANGED luaRef
  /\ UNCHANGED <<handles, state, calls, reader>>

-----------------------------------------------------------------------------
(* Calls of Go functions: luago_create_function's closure around             *)
(* CreateFunction's                                                          *)

PushFrame(f) == stack' = Append(stack, f)
SetTop(f) == stack' = [stack EXCEPT ![Depth] = f]
PopFrame == stack' = SubSeq(stack, 1, Depth - 1)
At(x) == <<Depth, x>>
Leaked == <<0, "values">>   \* a list of results that nobody frees any more

(* The closure allocates the arguments, a VM wrapper and the struct; called  *)
(* by Go through LuaFunction.Call, or by Lua code.                           *)
Invoke(f) ==
  /\ Alive /\ InGo
  /\ Depth < MaxDepth
  /\ owner[f] = "alive"
  /\ \E fromGo \in BOOLEAN, v \in CallbackVm :
       /\ f \in IF fromGo THEN goRef ELSE luaRef
       /\ vm[v] = "none" /\ \A i \in DOMAIN stack : stack[i].vm # v
       /\ PushFrame(NewFrame(f, fromGo, v))
       /\ vm' = [vm EXCEPT ![v] = "raw"]
  /\ alloc' = alloc \cup ({Depth + 1} \X {"data", "args"})
  /\ UNCHANGED <<handles, refs, held, reader>>

(* goCallbackTrampoline: the callback is found through its handle. *)
Trampoline == misuse' = misuse \cup {w \in {"call"} : cgo[Top.cb] # "valid"}

(* Mutant: what the callback is given is not an object. *)
EnterBodyUnwrapped ==
  /\ InCall /\ Top.pc = "enter"
  /\ Trampoline
  /\ SetTop([Top EXCEPT !.pc = "body"])
  /\ held' \in {held, held \cup {Top.vm}}
  /\ UNCHANGED <<cgo, owner, maker, refs, vm, alloc, reader>>

(* CreateFunction's closure takes the arguments and wraps the callback's VM; *)
(* the function may keep that for later.                                     *)
EnterBody == /\ InCall /\ Top.pc = "enter"
             /\ Trampoline
             /\ SetTop([Top EXCEPT !.pc = "body"])
             /\ vm' = [vm EXCEPT ![Top.vm] = "open"]
             /\ held' \in {held, held \cup {Top.vm}}
             /\ UNCHANGED <<cgo, owner, maker, refs, alloc, reader>>

GiveError == /\ SetTop([Top EXCEPT !.pc = "rust", !.error = TRUE])
             /\ alloc' = alloc \cup {At("error")}

(* An argument cannot be read (Values.tla): recovered into an error, but the *)
(* VM is not wrapped yet.                                                    *)
TakePanics == /\ InCall /\ Top.pc = "enter"
              /\ Trampoline
              /\ GiveError
              /\ vm' = [vm EXCEPT ![Top.vm] = "lost"]
              /\ UNCHANGED <<cgo, owner, maker, refs, held, reader>>

(* The function returns values, and they can be converted; the deferred      *)
(* Close frees the callback's VM wrapper.                                    *)
Succeed == /\ InCall /\ InBody
           /\ SetTop([Top EXCEPT !.pc = "rust", !.values = TRUE])
           /\ alloc' = alloc \cup {At("values")}
           /\ Free(Top.vm)
           /\ UNCHANGED <<goRef, reader>>
           /\ Release({})

(* It returns an error, or values that cannot be converted (the list of those *)
(* converted so far is closed), or an error with an empty message (its first *)
(* byte's address panics).                                                   *)
Fail == /\ InCall /\ InBody
        /\ GiveError
        /\ Free(Top.vm)
        /\ UNCHANGED <<goRef, reader>>
        /\ Release({})

(* It returns a value whose conversion panics (a wrapper of no object): the  *)
(* list of those converted so far is neither closed nor in the struct.       *)
ConvertPanics == /\ InCall /\ InBody
                 /\ SetTop([Top EXCEPT !.pc = "rust", !.error = TRUE])
                 /\ alloc' = alloc \cup {At("error"), Leaked}
                 /\ Free(Top.vm)
                 /\ UNCHANGED <<goRef, reader>>
                 /\ Release({})

(* The function itself panics: recovered into an error, but the Close of its *)
(* VM wrapper was not deferred yet.                                          *)
Panic == /\ InCall /\ InBody
         /\ GiveError
         /\ UNCHANGED <<handles, refs, state, reader>>

(* Mutant: the error is read through its pointer and not taken back. *)
LeaveWithoutError ==
  /\ InCall /\ Top.pc = "rust"
  /\ alloc' = alloc \ ({At("data"), At("args")} \cup {x \in {At("values")} : Top.values})
  /\ PopFrame
  /\ UNCHANGED <<state, goRef, reader>>
  /\ Release({})

(* Back in the closure: the arguments and the struct are freed, and of the   *)
(* results the error, or else the values, handed to Lua.                     *)
Leave == /\ InCall /\ Top.pc = "rust"
         /\ alloc' = alloc \ ({At("data"), At("args")}
                                \cup {x \in {At("values")} : Top.values}
                                \cup {x \in {At("error")} : Top.error})
         /\ PopFrame
         /\ UNCHANGED <<state, goRef, reader>>
         /\ Release({})

-----------------------------------------------------------------------------
(* ForEach and ForEachValue *)

StartLoop(l) == /\ cgo[l] = "unborn"
                /\ Alive /\ InGo
                /\ Depth < MaxDepth
                /\ cgo' = [cgo EXCEPT ![l] = "valid"]
                /\ owner' = [owner EXCEPT ![l] = "alive"]
                /\ PushFrame(NewFrame(l, TRUE, None))
                /\ UNCHANGED <<maker, misuse, refs, state, alloc, reader>>

NextItem == /\ InLoop /\ Top.pc = "enter"
            /\ Top.seen < MaxItems /\ ~Top.stop
            /\ Trampoline
            /\ SetTop([Top EXCEPT !.pc = "body", !.seen = @ + 1])
            /\ UNCHANGED <<cgo, owner, maker, refs, state, alloc, reader>>

ItemSucceeds == /\ InLoop /\ InBody
                /\ SetTop([Top EXCEPT !.pc = "enter"])
                /\ UNCHANGED <<handles, refs, state, alloc, reader>>

(* Mutant: a recovered panic is reported but does not stop the iteration. *)
ItemFailsOn == /\ InLoop /\ InBody
               /\ SetTop([Top EXCEPT !.pc = "enter", !.err = Top.seen,
                                     !.bad = @ \cup {Top.seen}])
               /\ UNCHANGED <<handles, refs, state, alloc, reader>>

(* An error or a recovered panic: errv is set and the iteration stopped. *)
ItemFails == /\ InLoop /\ InBody
             /\ SetTop([Top EXCEPT !.pc = "enter", !.err = Top.seen, !.stop = TRUE,
                                   !.bad = @ \cup {Top.seen}])
             /\ UNCHANGED <<handles, refs, state, alloc, reader>>

(* Mutant: the wrapper of the callback is not dropped. *)
EndLoopKeeping ==
  /\ InLoop /\ Top.pc = "enter"
  /\ PopFrame
  /\ UNCHANGED <<state, alloc, goRef, reader>>
  /\ Release({})

(* There are no more entries, or the iteration was stopped: the wrapper of   *)
(* the callback is dropped when the Rust function returns.                   *)
EndLoop == /\ InLoop /\ Top.pc = "enter"
           /\ PopFrame
           /\ UNCHANGED <<state, alloc, goRef, reader>>
           /\ Release({Top.cb})

-----------------------------------------------------------------------------
(* Another goroutine reads an object in two steps: Rust returns a handle or  *)
(* an address out of Lua, which takes the VM's mutex, and Go uses it when    *)
(* only the object's own read lock is held.                                  *)

(* LuaUserData.AssociatedData *)
ReadHandle(u) == /\ reader = None
                 /\ Alive /\ stack = <<>>
                 /\ u \in goRef
                 /\ owner[u] = "alive"
                 /\ reader' = u
                 /\ UNCHANGED <<handles, refs, state, calls>>

LookUp == /\ reader \in UserData
          /\ misuse' = misuse \cup {w \in {"data"} : cgo[reader] # "valid"}
          /\ reader' = None
          /\ UNCHANGED <<cgo, owner, maker, refs, state, calls>>

(* LuaString.Bytes, BytesWithNul *)
ReadAddress(s) == /\ reader = None
                  /\ Alive /\ stack = <<>>
                  /\ reader' = s
                  /\ UNCHANGED <<handles, refs, state, calls>>

CopyBytes == /\ reader \in LuaString
             /\ misuse' = misuse \cup {w \in {"bytes"} : ~Alive}
             /\ reader' = None
             /\ UNCHANGED <<cgo, owner, maker, refs, state, calls>>

Next == \/ \E v \in Vm : CloseVm(v) \/ Forget(v) \/ Finalize(v)
        \/ \E c \in LuaOwned, v \in Vm : Create(c, v)
        \/ \E c \in LuaOwned : Collect(c) \/ Refer(c)
        \/ \E f \in Function : Invoke(f)
        \/ EnterBody \/ TakePanics \/ Succeed \/ Fail \/ ConvertPanics
        \/ Panic \/ Leave
        \/ \E l \in Loop : StartLoop(l)
        \/ NextItem \/ ItemSucceeds \/ ItemFails \/ EndLoop
        \/ \E u \in UserData : ReadHandle(u)
        \/ \E s \in LuaString : ReadAddress(s)
        \/ LookUp \/ CopyBytes

Spec == Init /\ [][Next]_vars

(* The Go runtime finalizes what nobody refers to.  Lua collects when it     *)
(* runs, which nothing makes it do.                                          *)
FairSpec == Spec /\ \A v \in Vm : WF_vars(Finalize(v))

-----------------------------------------------------------------------------
(* Properties *)

(* No trampoline looks up a deleted handle (cgo.Handle.Value would panic     *)
(* into Rust frames): no callback is called once dropped, none is dropped    *)
(* twice, though functions run while they are closed, collected, or their    *)
(* state is.                                                                 *)
TrampolinesSafe == misuse \cap {"call", "drop"} = {}

(* function.rs:6, "Aside from the LuaVmWrapper, Rust will deallocate         *)
(* everything": whichever way callbacks end, what was allocated for a call   *)
(* is freed when it returns, and each result pointer set is live until then. *)
(* The one exception is a list of results whose conversion panicked.         *)
CallbackDataFreed ==
  /\ \A x \in alloc : x[1] \in DOMAIN stack \/ x = Leaked
  /\ \A d \in DOMAIN stack : stack[d].cb \in Function =>
       /\ {<<d, "data">>, <<d, "args">>} \subseteq alloc
       /\ stack[d].values <=> <<d, "values">> \in alloc
       /\ stack[d].error <=> <<d, "error">> \in alloc
       /\ stack[d].pc = "rust" => stack[d].values # stack[d].error
       /\ vm[stack[d].vm] = "raw" => stack[d].pc = "enter"

(* A loop reports the first item that failed, and visits none after it, even *)
(* when the failure is a panic and callbacks nest other loops.               *)
LoopStopsAtFirstFailure ==
  \A d \in DOMAIN stack : stack[d].bad # {} =>
    /\ stack[d].bad = {stack[d].err}
    /\ stack[d].seen = stack[d].err

(* When the Lua state is gone Rust holds no Go value any more. *)
NothingOutlivesState == ~Alive => \A c \in Lent : cgo[c] # "valid"

(* Once the program has let go of its VM wrappers, closed or not, and stays  *)
(* out of Lua, every Go value it lent is given back, although panics leave   *)
(* VM wrappers open behind it: unless a wrapper is lost, or pinned by a Go   *)
(* function that Lua still owns.                                             *)
LetGo == stack = <<>> /\ held = {} /\ goRef = {}
NeverReleased ==
  \E v \in Vm : vm[v] = "lost" \/ \E f \in Function : cgo[f] = "valid" /\ maker[f] = v

ReleasedInTheEnd ==
  <>[](LetGo /\ ~NeverReleased) => <>[](\A c \in Lent : cgo[c] # "valid")

(* main.go:18, "ensure the Lua VM can be created and closed properly on GC": *)
(* when the program refers to nothing any more, the state goes.              *)
ClosedOnCollection == <>[]LetGo => <>[](~Alive)

(* What a goroutine got out of Lua is still there when it uses it.           *)
(* userdata.go:55-57: a handle that is not valid is an "internal error"      *)
(* AssociatedData returns; looking it up must not panic.  string.go:23: it   *)
(* "Returns the LuaString as a byte slice".                                  *)
ReadersSafe == misuse \cap {"data", "bytes"} = {}
=============================================================================
