# Verification of gluau in TLA+

gluau binds the Luau language to Go.  Go code (`vm/*.go`) holds pointers to
Rust heap allocations (`rustlib/rustlib/src/*.rs`), and Rust holds handles to
Go functions and Go data.  What can go wrong is seldom in one function: it is
in who owns an allocation, who may free it, and in which order goroutines, the
Go garbage collector, Lua's collector and callbacks reach it.  This directory
models that part of the system, checks it with TLC and proves its safety with
TLAPS.

## 1. Inventory

| Component | Source | State | Operations | What makes it correct |
|---|---|---|---|---|
| managed objects | `vm/object.go` | pointer, RWMutex, finalizer | newObject, PointerNoLock, Close | freed once, never under a reader, never leaked |
| API methods | `vm/table.go`, `string.go`, `function.go`, `userdata.go`, `vm.go` | none of their own; they hold read locks while in Rust | some 45 methods in six shapes (below) | every path releases its locks; no deadlock; every call returns |
| value conversion | `vm/value.go`, `value.rs` | Boxes in flight between the two sides | valueToC, valueFromC, clone, from_owned, to_value_from_owned | each Box has one owner; tag and type agree |
| value lists | `vm/multivalue.go`, `multivalue.rs` | a Rust list | push, pop, take, close, fromValues | order kept; freed on every path |
| functions | `vm/function.go`, `function.rs` | a Box | Call | arguments and results arrive, or an error |
| callbacks | `vm/callback.go`, `lib.rs`, `vm.go` CreateFunction | cgo handle table, FunctionCallbackData | newGoCallback, ToC, two trampolines, Drop | dropped once, not called after; call data freed |
| iteration | `table.go` ForEach, ForEachValue; `table.rs` | errv, stop | the loop and its callback | stops at the first failure and reports it |
| userdata | `vm/userdata.go`, `userdata.rs` | Go data behind a handle | CreateUserData, AssociatedData | the data is there while it can be asked for |
| virtual machine | `vm/vm.go`, `vm.rs` | the Lua state, reference counted | CreateLuaVm, Create*, LoadChunk, Close | goes with its last reference, and everything with it |
| strings, error variants | `string.go`, `errorvariant.go` | a Box | Bytes, String, Pointer, Close | as objects; what Bytes copies is still there |
| chunks | `chunk.go`, `chunk.rs` | two strings given to Rust | LoadChunk | both are freed |
| results | `result.go`, `result.rs` | an error string | to_error, moveErrorToGoError | freed once, by Go |
| compiler options, `main.go` | | none | | not modelled (section 8) |

Interactions.  A method read-locks its receiver, reads the pointer, converts
its arguments (read-locking each), calls Rust and unlocks.  Rust may call back
into Go while it holds mluau's VM mutex and Go holds the receiver's read lock;
the callback may call any method.  A Go function that Lua calls is given a VM
wrapper of its own, which gluau closes when the function returns, after it has
read-locked and converted what the function returned; all of that under the VM
mutex.  Close takes the write lock and drops the
Box, which takes the VM mutex.  The garbage collector calls Close from the one
finalizer goroutine.  Lua's collector, or the end of the Lua state, drops Go
callbacks and data through trampolines.

Hard behaviours, with their source lines, are the `hazards` of `PROJECT.json`.

## 2. Modules

| Module | What it is |
|---|---|
| `ManagedHandle` | abstract: an allocation is used only while open, freed once, and never while used |
| `Handles` | objects, RWMutexes, VM mutex, goroutines, finalizer, nested calls; implements `ManagedHandle` |
| `HandlesProofs` | types and pointer safety of `Handles` |
| `HandlesLocks` | who holds which lock, who frees what, the finalizer goroutine, deadlock |
| `HandlesRefinement` | `Handles` implements `ManagedHandle` |
| `MCHandles` | instances of `Handles` |
| `Values`, `MCValues` | values and lists crossing between Go and Rust |
| `ValuesProofs` | ownership, losses, order, labels and panics of `Values` |
| `Callbacks` | Go values lent to Rust, calls of them, loops, the life of the Lua state |
| `CallbacksProofs` | every safety invariant of `Callbacks` |

### Handles

State: per object `ptr` (the Go field), `box` (the Rust allocation), `fin` (is
a finalizer set), `held` (the program still has a variable); its RWMutex as
`readers`, `parked` (RLock waiting for a writer), `writer`; per goroutine a
stack of frames (`top`, `frame`) with a program counter.  A frame's `use` is
the raw pointers it has read and will still dereference.  `box` and `ptr` are
two variables because between `dtor` and `ptr = nil` they disagree.

Actions follow a call's steps: `StartCall`, `RLockRecv`, `CheckRecv`
(`innerPtr`), for each argument `RLockArg`, `CheckArg`, `CloneArg`, then
`Enter` (the Rust function), `CallbackReturn`, `RUnlockArg`, `RUnlockRecv`.
Close is `Lock`, `Drain`, `Dtor`, `ClearPtr`, started by the program, by
`RunFinalizer`, or by gluau itself (below).  The shapes of call (`Kinds`):

| Kind | Methods |
|---|---|
| method | all that convert 0 to n values one by one and return |
| callback | ForEach, ForEachValue: a callback runs |
| call | Call (and a `Get` or `Set` with metamethods): converts values, then Lua code runs, which may call Go functions |
| env | LoadChunk: one table, locked to the end, ignored when closed |
| meta | CreateUserData: one table, locked to the end, an error when closed |
| peer | Equals, SetMetatable: one table, not locked, its pointer read twice |
| bare | ErrorVariant.Bytes and String: nothing locked |
| close | Close |

A Go function is a frame of its own (kind "function"), entered by Lua code with
`CallFunction`, which makes an object of the VM it is given.  What the program's
function returns (`FunctionReturns`) is converted by the same `RLockArg`,
`CheckArg`, `CloneArg` as an argument; for a GoString the object is the VM
CreateFunction was called on.  Then `CloseFunctionVm` turns the frame into a
Close of its VM (vm.go:220).  If the function panics (`FunctionPanics`) the
Close was not deferred yet, and the VM is left to the collector.  `Shared` are
the functions' VMs that the program lets other goroutines have.

The RWMutex is Go's: a waiting writer stops new readers, and Unlock admits the
readers that waited.  The VM mutex is held by whoever runs a callback
(`LuaFree`).  An object is reachable while the program has a variable or a
frame still refers to it (`Pins`): a deferred RUnlock keeps its object alive.
Dropping a Box of Lua data is taken to need the VM mutex, a VM wrapper's
included; what mluau really does there is not in this repository.
`PointerNoLock` reads `ptr` twice, for the nil check and for the result.  Without
a lock a Close may come in between, and the compiler may or may not keep the first
value, so `ReadPeerAgain` and `ReadBareAgain` allow both.

### Values

State: the `heap` of Boxes, ChunkStrings and error strings; the Boxes owned by
open Go objects (`wrappers`), and those objects whose `lua` field is nil
although their methods use it (`unbound`); the call in progress, with what is
still to convert, what is converted and what came back; its `lists`.

| Steps | Code |
|---|---|
| `Begin`, `Convert...`, `Push`, `GiveUp` | a method's conversions: `valueToC`, `multiValueFromValues`, `newChunkString` |
| `InvokeMethod`, `InvokeChunk`, `InvokeFunction` | the Rust function takes ownership of all it is given, or not |
| `TakeArg`, `BodyFails`, `BodyReturns`, conversions, `CallbackReturns` | a function of CreateFunction that Lua calls: takes its arguments, fails or converts its results |
| `TakeError`, `Take`, `TakePanics`, `Return` | the error string, or the results, come back |
| `Receive`, `ReceivePanics`, `CloseValue` | the rest of the program |

The call's lists follow it through both languages: "call" is what Call sends,
"args" and "out" are the callback's, "rets" is what Call takes.  One conversion
is one step, because it runs under that object's read lock, which `Handles`
shows to exclude Close; closing wrappers and receiving values interleave with
the steps.  A wrapper that is closed before its turn is `Unusable`, as nil is:
its conversion is an error.  A value with nothing inside (`HollowValues`: the
ToValue of a nil *LuaTable, say) makes it panic: out of the method (`PanicsOut`)
or, over a Go function's results, into CreateFunction's recover
(`PanicRecovered`), which loses the list of results.
Freed addresses are reused at once: a second owner of a freed Box would be an
owner of somebody else's, which `OwnedOnce` sees.

What crosses is abstracted to its kind and identity.  A light userdata is a
pointer with a `Pointee`, because `valueFromC` reads through it; an error is a
text, and what it becomes when it is made UTF-8 (`Lossy`).  What Lua makes of a
value it is given is the constant `AsLua`: an integral Number becomes an Integer
(main.go:338-356), and an error may become something else, as vm.rs:12 asks for
(`disable_error_userdata`).  The theorems hold for every such function that, like
these, changes nothing a second time; the runs make the Number an Integer and the
error a string.  A table that
crosses under a string's tag arrives all the same: both Rust types are one
reference into Lua, so the build's outcome is modelled, and the tag itself is
checked by `CrossesUnchanged`.

### Callbacks

State: cgo's handle table and the Rust owners of its entries (`cgo`, `owner`),
what Go and Lua refer to (`goRef`, `luaRef`); the VM wrappers (`vm`), which of
them the program keeps (`held`) and which one each Go function's closure refers
to (`maker`); the stack of running calls with their allocations; another
goroutine between two halves of a read (`reader`).

A VM wrapper is the program's (`Main`) or made for a call of a Go function: Rust
allocates it ("raw"), the callback wraps it ("open"), and its deferred Close
frees it, unless the callback panicked (then a finalizer does) or its arguments
could not be taken ("lost": nothing does).  A panic while results are converted
(`ConvertPanics`) leaves the list of results behind; `alloc` keeps it as
`Leaked`.  The program may keep a callback's
wrapper, use it after the call, and close it itself.  Each wrapper, and each
running call, keeps the Lua state.  `Release` is the end of the Lua state: any
step that takes the last strong reference drops everything the state owns.
`Pinned` says what keeps the Go runtime from finalizing a wrapper: the program,
a running callback, and every Go function that Lua owns whose closure refers to
it, through the table of cgo handles.

`misuse` records a lookup of a deleted handle, which panics in cgo, and a read
of a freed string.  `ReadHandle` with `LookUp` is AssociatedData, `ReadAddress`
with `CopyBytes` is Bytes: the first half runs in Lua under mluau's mutex, so no
call is on the stack, the second outside of it.  A string stays alive until its
state goes, as the LuaString refers to it and is locked.

## 3. Runs

| Run | Result | Shows |
|---|---|---|
| `handles_live` | passes | Go functions called through Lua, their VMs closed by gluau, objects passed in one order and closed by anyone (an error variant, read unlocked, among them), none returned: no deadlock, every call returns, functions' VMs are closed, dropped memory is freed |
| `handles_nested` | passes | everything passed to everything, callbacks, environments, unlocked peers, Go functions that return objects, call the API and have their VM shared, closes anywhere: locks and allocations accounted for, refinement of `ManagedHandle` |
| `handles_collected` | passes | with closing left to gluau and the collector, and the VMs of Go functions kept inside of them, no deadlock is possible at all, and the finalizer waits for no reader |
| `handles_unlocked` | violation | a pointer used after Close freed it |
| `handles_deadlock` | violation | a table passed to its own method, and a Close in between; an object's lock against the VM's mutex; a Go function that only returns an object, and a Close of that object elsewhere; a goroutine inside a method of a Go function's VM, and gluau's Close of that VM |
| `values` | passes | one owner per allocation, through methods, chunks, loops, calls of Lua and Go functions, errors and panics; lists are released (panics excepted); order and identity are kept, up to what Lua makes of a value |
| `values_lost` | violation | the key of a failed Set, the name of a chunk without code, the list of a Go function's results after a recovered panic |
| `values_changed` | violation | a table labelled as a string; a light userdata replaced by what it points at |
| `values_panics` | violation | a value with nothing inside, a null light userdata, and a Go string for a function or table that came from Lua, panic |
| `callbacks` | passes | handles dropped once and not used after, call data freed (but for results whose conversion panicked), loops stop, the state takes everything with it, and goes in the end unless a wrapper is lost or pinned |
| `callbacks_readers` | violation | the VM closes between the two halves of Bytes or AssociatedData |
| `callbacks_collected` | violation | all dropped, nothing collected: the cycle through both heaps |

Each violation is a disagreement with a comment in the source, quoted in
`PROJECT.json`.  Where a run stands for several, TLC prints the shortest trace;
constants reduced in its cfg give the others:

| Run | Trace | Others |
|---|---|---|
| `handles_unlocked` | ErrorVariant.Bytes | Kinds without "bare": Equals |
| `handles_deadlock` | one table locked twice | Passes = {}: object lock against VM mutex, in a loop over another table; and with Kinds = {"method", "call"}: a Go function's VM; with Kinds = {"call", "close"} and NestedCalls = FALSE: a returned object |
| `values_lost` | Set | Op = {"chunk"}: the chunk's name; Op = {"many"}: the list of results |
| `values_changed` | the table's tag | Datum without t: light userdata |
| `values_panics` | ForEach | Datum = {int}: a value with nothing inside; and with Hollow = {}, Datum = {null}, Op = {"many"}: Call; Datum = {s, f}, Op = {"many"}: a function from Lua; Datum = {s, t}, Op = {"one", "many"}: a table from Call |
| `callbacks_readers` | Bytes | LuaString = {}: AssociatedData |

Deadlock.  `CHECK_DEADLOCK FALSE` everywhere: a program may have closed or
dropped all it had, and the models are then quiet, as the program is.  Real
deadlocks are `NoDeadlock`: no set of goroutines in which each waits for
another of the set.  `OnlyDocumentedDeadlock` allows those in which somebody, be
it another goroutine, closes an object while inside a ForEach loop over it.

Bounds.  `Handles`: two goroutines and the finalizer, because every deadlock and
race found needs two actors and a third only adds waiting of the same kind; two
objects (one more where error variants or returned objects matter), one of them
a Go function's VM where there are such functions; calls nested two deep, three
where Go functions, frames of their own, call the API; one argument or result per call: enough
for an object to be receiver, argument, result, callback's target and closed at
once.  `handles_nested` visits 452,309 states, `handles_live` 66,416,
`handles_collected` 85,648.  `Values`: four addresses hold a wrapper, a clone, a
result and an error string; lists of two show order.  `values` (286,025 states)
has no calls with two converted values, no chunk without code and no pointer
that reads as another: `values_lost` and `values_changed` show what happens
there; and no table, which crosses as the function does but for its tag
(`values_changed`).
`Callbacks`: two functions, a userdata, a loop of two items and a reader; one
callback's wrapper at a time, so loops and Go functions nest two deep but two Go
functions do not.  With two wrappers they do, and that instance is beyond what a
run can visit; the same properties hold with CallbackVm = {v1, v2} and either
Function = {f1} (it calls itself; 379,716 states) or UserData and LuaString
empty (1,050,472 states).  Symmetry is used only in
runs without liveness.  `Handles` does not reuse addresses: a stale pointer is
then always visible as one.

## 4. Fairness

`Handles!FairSpec`: strong fairness of each goroutine's steps inside a call and
of Close, gluau's own included, because Go's scheduler is fair and its RWMutex, like mluau's mutex,
lets a waiter in eventually, though it is free only from time to time; strong
fairness of callbacks' and Go functions' returns, an assumption about the
program's code (a callback that never returns keeps its locks); weak fairness of each
finalizer, the collector's promise.  Nothing makes the program start calls or
forget objects.  `Callbacks!FairSpec`: only weak
fairness of each VM wrapper's finalizer.  Lua's collector is given none: it runs
when Lua does, and nothing makes Lua run.

## 5. What is proved

All theorems hold for every value of the constants that satisfies the module's
assumptions (`HandlesAssumption`, `ValuesAssumption` and `LuaAssumption`,
`CallbacksAssumption`):
any sets of goroutines, objects, addresses and values, any depth of nesting, any
number of arguments and items.  A theorem with a further hypothesis is marked.
Every invariant used in a proof was checked with TLC first.

### Handles

| Theorem | Proves | Hypothesis |
|---|---|---|
| `TypeCorrect` | `TypeOK` | |
| `PointerSafety` | `LockedCallsNeverStale` | |
| `LockAccounting` | `NoLockLeak` | |
| `NoLeak` | `NothingLeaks` | |
| `FinalizerNeverWaits` | `FinalizerNeverWaitsForReaders` | |
| `HandlesImplementManagedHandle` | `ImplementsManagedHandle` | |
| `LockingProgramsNeverStale` | `NoStalePointer` | no peer and bare calls in `Kinds` |
| `CollectorNeverDeadlocks` | `NoDeadlock` | no close in `Kinds`: only finalizers and gluau close; `Shared = {}` |
| `OrderedNeverDeadlocks` | `NoDeadlock` | no nested calls, `Returns = {}`, `Shared = {}` and `PassedInOrder` |

`LockedCallsNeverStale` is not inductive: it does not say why a Close cannot
free what a frame uses.  The invariant `IInv` adds, for each frame, what its
program counter entails (`FrameOK`): from `check` on, its token is among the
readers of, or parked at, its receiver; once it uses a pointer the token is a
reader's and the object is open; the same for the argument; a Close at its
destructor is the writer, no one else reads, and the object is live.
`OthersRunning` says that only the last frame of a goroutine may be anywhere
but in a callback, and `PointersGood` that an open pointer is to a live Box
except at that Close's last step.  The proof has one step per action and one
lemma per kind of change (a frame moves, is pushed, is popped).

`HandlesLocks` looks from the locks to the frames: a token in an RWMutex is that
of an active frame at a step where it should have it, and waits only where the
frame waits (`TokensOK`); an announced writer is an active Close past `lock`
(`WritersOK`).  For leaks, an unborn object is untouched and a live one has its
finalizer or a Close (`BoxesOK`), and a Close past its destructor has a freed Box
(`FreedFirst`).  For the finalizer goroutine, its object is referred to by no
frame of the program (`FinalizerOK`), which the deferred RUnlocks keep true.

The two theorems about deadlock have the same shape.  Without closes by the
program a writer is the finalizer, which waits for no reader, or the Close of a
function's VM, which nobody else refers to when it is not shared; so every wait
ends at the one actor inside Lua (`OneInLua`), and that one waits for nobody.
With closes but without nested calls and returned objects nobody inside Lua
waits, so a circle of waiting goes from an object being closed to a reader of it
that has parked at its argument, which is being closed too; the receiver was
passed that argument (`PassedOK`), so the circle is one in `Passes`, which
`PassedInOrder` excludes.  What the hypotheses exclude does deadlock:
the four traces of `handles_deadlock` are the first theorem's setting with a
shared VM, and the second's with a returned object, with nested calls and with
an object passed to itself.

The refinement goes step by step: an action of `Handles` leaves boxes and users
alone, or is one of the abstract steps, by what it does to the current frame's
pointers; `UseOK` says that those are the receiver's and the argument's.  A Close counts
as a user from when it has read the pointer, and the abstract `Close` is that of
the only user left, of an open allocation: a second free would be a use of a
closed one.

### Values

| Theorem | Proves | Hypothesis |
|---|---|---|
| `TypeCorrect` | `TypeOK` | |
| `OneOwner` | `OwnedOnce` | |
| `ListsReleased` | `MultiReleased` | |
| `OnlyKnownLosses` | a step that ends `NothingLost` is one of `Loses` | |
| `NoLoss` | `NothingLost` | "two" not in `Op`; no empty strings with "chunk" |
| `EchoIsFaithful` | `EchoFaithful` | `PointersRead` |
| `NothingChanges` | `CrossesUnchanged` | `PointersRead`, no tables |
| `NothingPanics` | `NoPanicEscapes` | every pointer points at something; `Hollow = {}`; no strings, or no functions and tables |

The invariant `Base` says what each stage of a call entails: what is still to
convert is an open wrapper with that value (`TodoOK`), values are in flight and an
error string exists only in their stages (`StagesOK`), and a list is there when
its stage works on it (`ListsOK`).  `EchoOK` adds, for each stage, that the list,
the value in flight and those still to convert or to take make up what was
passed as Lua holds it, in order.  The hypotheses exclude exactly the traces of
`values_lost`, `values_changed` and `values_panics`: there each is violated and so
is the property.  The passing run `values` has constants that satisfy
those of the properties it checks.  `MultiReleased` names the two ways a
list is left behind, both panics: out of Call, and over a Go function's result with
nothing inside.  That `EchoFaithful` holds whatever `AsLua` is means that gluau
adds no change to Lua's; it does not say that Lua changes nothing.

### Callbacks

| Theorem | Proves |
|---|---|
| `TypeCorrect` | `TypeOK` |
| `TrampolinesFind` | `TrampolinesSafe` |
| `CallsFreed` | `CallbackDataFreed` |
| `LoopsStop` | `LoopStopsAtFirstFailure` |
| `StateTakesAll` | `NothingOutlivesState` |

These follow from one invariant.  A handle is valid exactly while Rust can call
back through it (`HandlesMatchOwners`).  Only the innermost call moves (`BodiesBelow`);
each call of a Go function has a VM wrapper to itself (`VmsOK`); what is
allocated is what the calls in progress will free, or `Leaked` (`AllocOK`); a loop that saw a
failure has stopped (`LoopsOK`); whatever is on the stack has a live Rust owner
(`FramesOwned`), a loop's callback for as long as the loop (`LoopsOnce`,
`LoopsOwned`), and Lua's values no longer than the state (`StateOwns`).

## 6. What is only model-checked

- Liveness: `EveryCallReturns`, `FunctionVmCloses`, `DroppedIsFreed`,
  `ReleasedInTheEnd`.  The prover
  does not handle fairness and ENABLED.
- The properties of the runs that expect a violation, as far as section 5 has no
  conditional theorem about them: `OnlyDocumentedDeadlock`, `NothingLeftBehind`,
  `ReadersSafe` and `ClosedOnCollection`.
- Deadlock freedom of programs between the two theorems: calls in callbacks, or
  returned objects, together with explicit closes.  The bare theorem is false
  there (`handles_deadlock`).

`ReleasedInTheEnd` has a condition, `NeverReleased`: no wrapper is lost, and none
is pinned by a Go function that Lua still owns.  It says when a program that
only lets go is cleaned up after; `callbacks_collected` shows that without the
condition it is not.

## 7. Plan

1. Done: the three models, their runs, and the proof of every safety invariant
   and of the refinement.
2. Left to prove: `ReadersSafe` where the program keeps the VM open during
   reads; a misuse, when it happens, is one of the two kinds `callbacks_readers`
   shows; what a Close may never do as action properties of `Handles`.

Not provable here, and left to TLC: liveness under fairness, anything with
ENABLED, and inductions over recursive definitions.

## 8. Not modelled

Compiler options and memory limits (numbers passed on), DebugValue and
test_callback (test APIs), the lengths of strings and texts of errors beyond
being UTF-8, what Lua programs compute, Go functions run by an `__eq` metamethod
within Equals, Thread and Buffer values (no Go API yet;
their Boxes have no finalizer), calls into a VM that is already gone (what mluau
does then is not in this repository), and `main.go`, a demonstration.  External,
modelled from their use: `sync.RWMutex`, the garbage collector, `runtime/cgo`
handles, Rust's allocator, mluau's VM mutex, reference counts and collector.
