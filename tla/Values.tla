------------------------------- MODULE Values -------------------------------
(***************************************************************************)
(* How Lua values cross between Go and Rust, and who owns the heap Box     *)
(* behind each of them.  Go to Rust: valueToC clones the Box of a wrapper, *)
(* or makes a new one for a GoString, and Rust takes ownership.  Rust to   *)
(* Go: from_owned boxes the value, valueFromC gives it a wrapper.  Lists   *)
(* travel in multivalues, chunks in ChunkStrings, errors in C strings, all *)
(* of them allocated by Rust.                                              *)
(*                                                                         *)
(* One call is followed from its first conversion to its last result, or   *)
(* to a panic, through the Go function it may reach; the rest of the       *)
(* program closes wrappers and receives values meanwhile.                  *)
(* Converting one value is one step: it runs under that object's read lock *)
(* (Handles.tla shows what that lock buys).                                *)
(***************************************************************************)
EXTENDS Naturals, Sequences

CONSTANTS
  Box,          \* addresses of heap allocations
  NoBox,        \* nil
  Datum,        \* Lua values: scalars, or the identity of a table, a string...
  NoDatum,      \* no value
  KindOf,       \* KindOf[d]: the Lua type of d
  EmptyString,  \* the strings of length 0
  Pointee,      \* Pointee[d]: what the light userdata d points at, if it is not null
  Lossy,        \* Lossy[d]: d, an error's text once it has been made UTF-8
  AsLua,        \* AsLua[d]: what Lua makes of d when it is given d
  Hollow,       \* markers of Go Values with nothing inside, if there are any
  NoList,       \* no multivalue
  Op,           \* the shapes of call the program makes
  Callee,       \* the functions it calls: "lua", "go"
  MaxArgs       \* bound: values passed to one call of a function

(* Scalar kinds travel in the C struct itself.  Thread and Buffer have no    *)
(* wrapper type in Go yet and are left out.                                  *)
Scalar == {"Nil", "Boolean", "LightUserData", "Integer", "Number", "Vector"}
Boxed == {"String", "Table", "Function", "UserData", "Error"}

ASSUME ValuesAssumption ==
  /\ NoBox \notin Box
  /\ NoDatum \notin Datum
  /\ NoList \notin Seq(Datum)
  /\ KindOf \in [Datum -> Scalar \cup Boxed]
  /\ EmptyString \subseteq {d \in Datum : KindOf[d] = "String"}
  /\ Pointee \in [Datum -> Datum \cup {NoDatum}]
  /\ \A d \in Datum :
       Pointee[d] # NoDatum => KindOf[d] = "LightUserData" /\ KindOf[Pointee[d]] = KindOf[d]
  /\ Lossy \in [Datum -> Datum]
  /\ \A d \in Datum : /\ KindOf[Lossy[d]] = KindOf[d] /\ Lossy[Lossy[d]] = Lossy[d]
                      /\ KindOf[d] # "Error" => Lossy[d] = d
  /\ Hollow \cap (Datum \cup {NoDatum}) = {}
  /\ Op \subseteq {"one", "two", "many", "chunk", "each"}
  /\ Callee \subseteq {"lua", "go"}
  /\ MaxArgs \in Nat

(* Lua has its own idea of a value: an integral Number comes back as an      *)
(* Integer (main.go:338-356), an error perhaps as a string (vm.rs:12).  What *)
(* Lua has made of a value it keeps, and its text is UTF-8.                  *)
ASSUME LuaAssumption ==
  /\ AsLua \in [Datum -> Datum]
  /\ \A d \in Datum : /\ AsLua[AsLua[d]] = AsLua[d]
                      /\ Lossy[AsLua[Lossy[d]]] = AsLua[Lossy[d]]

VARIABLES
  heap,      \* heap[b]: what is allocated at b
  wrappers,  \* the Boxes owned by an open Go object
  unbound,   \* those whose Go object has no lua field although its methods use it
  call,      \* the call in progress, or the last one
  lists      \* the multivalues of that call

vars == <<heap, wrappers, unbound, call, lists>>

Unused == [type |-> "none", datum |-> NoDatum]
Live(t, d) == [type |-> t, datum |-> d]
ErrorString == Live("ErrorString", NoDatum)   \* what a failed Rust function returns

(* A Go Value: a wrapper around a Box; a scalar or a GoString, which have no *)
(* Box; one that conversions refuse: nil, a wrapper that is closed; or one   *)
(* they panic on: the ToValue of a nil *LuaTable, such as Metatable returns. *)
Value == [box : Box \cup {NoBox}, datum : Datum \cup {NoDatum} \cup Hollow]
Unusable == [box |-> NoBox, datum |-> NoDatum]
HollowValues == {[box |-> NoBox, datum |-> x] : x \in Hollow}

(* struct GoLuaValue: a tag and a pointer or a scalar. *)
CValue == [tag : Scalar \cup Boxed \cup {"ChunkString"}, box : Box \cup {NoBox}, datum : Datum]

PC == {"idle", "convert", "args", "results", "take", "error", "panicked"}

(* recv: the receiver if it is one of wrappers; given: what was passed;      *)
(* todo: still to convert, a callback's arguments, or the result that made a *)
(* callback panic; conv: converted, Rust has not taken it yet; got: what     *)
(* came back; err: the error's string.                                       *)
Call == [op : {"one", "two", "many", "chunk", "each"}, recv : Box \cup {NoBox}, pc : PC,
         given : Seq(Datum \cup {NoDatum} \cup Hollow), todo : Seq(Value), conv : Seq(CValue),
         got : Seq(Datum \cup {NoDatum}), err : Box \cup {NoBox}]

NoCall == [op |-> "one", recv |-> NoBox, pc |-> "idle", given |-> <<>>, todo |-> <<>>,
           conv |-> <<>>, got |-> <<>>, err |-> NoBox]

(* What LuaFunction.Call sends, what a Go function is given, what it gives   *)
(* back, and what Call receives.                                             *)
List == {"call", "args", "out", "rets"}

TypeOK == /\ heap \in [Box -> {Unused, ErrorString}
                                \cup {Live(t, d) : t \in Boxed \cup {"ChunkString"}, d \in Datum}]
          /\ wrappers \subseteq Box
          /\ unbound \subseteq wrappers
          /\ call \in Call
          /\ lists \in [List -> Seq(Datum) \cup {NoList}]

Init == /\ heap = [b \in Box |-> Unused]
        /\ wrappers = {}
        /\ unbound = {}
        /\ call = NoCall
        /\ lists = [l \in List |-> NoList]

-----------------------------------------------------------------------------
(* The heap *)

New(H) == {b \in Box : H[b] = Unused}
Free(H, B) == [b \in Box |-> IF b \in B THEN Unused ELSE H[b]]
Flying == {call.conv[i].box : i \in DOMAIN call.conv} \ {NoBox}
Owned == wrappers \cup Flying \cup ({call.err} \ {NoBox})

(* Reading a light userdata reads through it. *)
Decode(d) == IF KindOf[d] = "LightUserData" THEN Pointee[d] ELSE d
Faults(d) == Decode(d) = NoDatum

(* Mutant: every value gets a Box and a wrapper, scalars too. *)
TargetAnything(H, d) == New(H)

(* from_owned: a boxed value comes with a new Box. *)
Target(H, d) == IF KindOf[d] \in Boxed THEN New(H) ELSE {NoBox}

(* valueFromC, in a GoLuaVmWrapper or, when ~lua, in nil: a wrapper owns the *)
(* Box.  Functions never get their lua field, tables get the receiver's.     *)
Wrap(H, d, b, lua) ==
  /\ heap' = IF b = NoBox THEN H ELSE [H EXCEPT ![b] = Live(KindOf[d], d)]
  /\ wrappers' = wrappers \cup ({b} \ {NoBox})
  /\ unbound' = IF KindOf[d] = "Function" \/ (KindOf[d] = "Table" /\ ~lua)
                  THEN unbound \cup {b} ELSE unbound

(* to_error: the call returns an error, a C string that Go has to free.      *)
Fail(H) == \E b \in New(H) :
             /\ heap' = [H EXCEPT ![b] = ErrorString]
             /\ call' = [call EXCEPT !.pc = "error", !.todo = <<>>, !.conv = <<>>, !.err = b]

-----------------------------------------------------------------------------
(* The rest of the program *)

(* ForEach hands over a key or a value, or CreateString, CreateTable,        *)
(* CreateErrorVariant and the like make one.                                 *)
Receive(d) == /\ ~Faults(d)
              /\ \E b \in Target(heap, d) : Wrap(heap, d, b, TRUE)
              /\ UNCHANGED <<call, lists>>

(* ForEach's callback reads what it is handed before it defers its recover.  *)
ReceivePanics(d) == /\ "each" \in Op
                    /\ call.pc = "idle"
                    /\ Faults(d)
                    /\ call' = [NoCall EXCEPT !.op = "each", !.pc = "panicked"]
                    /\ lists' = [l \in List |-> NoList]
                    /\ UNCHANGED <<heap, wrappers, unbound>>

(* Close, or the finalizer, on the object that owns b.  Not on the receiver  *)
(* of the call, which is locked.                                             *)
CloseValue(b) ==
  /\ b \in wrappers
  /\ call.pc = "idle" \/ b # call.recv
  /\ heap' = Free(heap, {b})
  /\ wrappers' = wrappers \ {b}
  /\ unbound' = unbound \ {b}
  /\ call' = [call EXCEPT
       !.todo = [i \in DOMAIN @ |-> IF @[i].box = b THEN Unusable ELSE @[i]]]
  /\ UNCHANGED lists

-----------------------------------------------------------------------------
(* Go to Rust *)

(* What the program can pass: its wrappers, scalars, Go strings, and what    *)
(* cannot be converted.                                                      *)
GoStrings == {[box |-> NoBox, datum |-> d] : d \in {e \in Datum : KindOf[e] = "String"}}
Scalars == {[box |-> NoBox, datum |-> d] : d \in {e \in Datum : KindOf[e] \in Scalar}}
Passable == {[box |-> b, datum |-> heap[b].datum] : b \in wrappers}
              \cup Scalars \cup GoStrings \cup HollowValues \cup {Unusable}

(* one: Get, RawGet, ContainsKey, Push, RawPush, RawInsert, RawRemove;       *)
(* two: Set, RawSet; many: LuaFunction.Call; chunk: LoadChunk's name, code.  *)
Args(op) == CASE op = "one" -> [1 .. 1 -> Passable]
              [] op = "two" -> [1 .. 2 -> Passable]
              [] op = "many" -> UNION {[1 .. n -> Passable] : n \in 0 .. MaxArgs}
              [] op = "chunk" -> [1 .. 2 -> GoStrings]

(* An object whose lua field is set, or one of wrappers where it is not.     *)
Receiver(op) ==
  {NoBox} \cup {b \in unbound : \/ op = "many" /\ heap[b].type = "Function"
                                \/ op \in {"one", "two"} /\ heap[b].type = "Table"}

Begin(op) ==
  /\ call.pc = "idle"
  /\ op # "each"
  /\ \E r \in Receiver(op), s \in Args(op) :
       call' = [NoCall EXCEPT !.op = op, !.recv = r, !.pc = "convert", !.todo = s,
                              !.given = [i \in DOMAIN s |-> s[i].datum]]
  /\ lists' = [l \in List |-> IF l = "call" /\ op = "many" THEN <<>> ELSE NoList]
  /\ UNCHANGED <<heap, wrappers, unbound>>

IsGoString(v) == v \in GoStrings
IsScalar(v) == v \in Scalars

Converting == /\ call.pc \in {"convert", "results"}
              /\ call.todo # <<>>
              /\ call.op = "many" => call.conv = <<>>

Converted(c) == call' = [call EXCEPT !.todo = Tail(@), !.conv = Append(@, c)]

(* Boxed for Rust: b is new, or there is nothing to allocate.                *)
ConvertedTo(b, t, d) ==
  /\ heap' = IF b = NoBox THEN heap ELSE [heap EXCEPT ![b] = Live(t, d)]
  /\ Converted([tag |-> t, box |-> b, datum |-> d])
  /\ UNCHANGED <<wrappers, unbound, lists>>

(* _directValueToC's tag for a value of kind k. *)
TagFor(k) == IF k = "Table" THEN "String" ELSE k

(* Mutant: the wrapper's own Box is passed on, as if needsClone were false. *)
ConvertWrapperUncloned ==
  /\ Converting
  /\ LET v == Head(call.todo)
     IN  /\ v.box \in wrappers
         /\ Converted([tag |-> KindOf[v.datum], box |-> v.box, datum |-> v.datum])
  /\ UNCHANGED <<heap, wrappers, unbound, lists>>

(* needsClone: the C value gets a Box of its own, an error's text made UTF-8. *)
ConvertWrapper ==
  /\ Converting
  /\ LET w == Head(call.todo).box
     IN  /\ w \in wrappers
         /\ \E b \in New(heap) :
              ConvertedTo(b, TagFor(KindOf[heap[w].datum]), Lossy[heap[w].datum])

(* createStringAsPtr: a new string with no wrapper, passed on uncloned.      *)
(* Results are converted in the lua of CreateFunction, arguments in the      *)
(* receiver's.                                                               *)
HasLua == call.pc = "results" \/ call.recv = NoBox

ConvertGoString ==
  /\ Converting /\ call.op # "chunk"
  /\ IsGoString(Head(call.todo))
  /\ HasLua
  /\ \E b \in New(heap) : ConvertedTo(b, "String", Head(call.todo).datum)

ConvertScalar ==
  /\ Converting
  /\ IsScalar(Head(call.todo))
  /\ LET d == Head(call.todo).datum IN ConvertedTo(NoBox, KindOf[d], d)

(* newChunkString: nothing is allocated for an empty name or code. *)
ConvertChunkString ==
  /\ Converting /\ call.op = "chunk"
  /\ LET d == Head(call.todo).datum
     IN  \E b \in IF d \in EmptyString THEN {NoBox} ELSE New(heap) :
           ConvertedTo(b, "ChunkString", d)

(* CreateFunction's callback ends in an error, returned, recovered from a    *)
(* panic or of a conversion, which closes the list of results; Rust frees    *)
(* that of the arguments and fails the call.                                 *)
CallbackFails == /\ Fail(heap)
                 /\ lists' = [lists EXCEPT !["args"] = NoList, !["out"] = NoList]
                 /\ UNCHANGED <<wrappers, unbound>>

(* Mutant: the multivalue is forgotten when a value cannot be converted. *)
GiveUpWithoutClose ==
  /\ call' = [call EXCEPT !.pc = "idle", !.todo = <<>>, !.conv = <<>>]
  /\ UNCHANGED <<heap, wrappers, unbound, lists>>

(* A method gives up: only a multivalue is cleaned up after. *)
GiveUp == /\ call' = [call EXCEPT !.pc = "idle", !.todo = <<>>, !.conv = <<>>]
          /\ lists' = [lists EXCEPT !["call"] = NoList]
          /\ UNCHANGED <<heap, wrappers, unbound>>

(* A value that is nil or closed, a string Lua has no memory for. *)
ConvertFails ==
  /\ Converting /\ call.op # "chunk"
  /\ LET v == Head(call.todo)
     IN  v = Unusable \/ (IsGoString(v) /\ HasLua)
  /\ IF call.pc = "results" THEN CallbackFails ELSE GiveUp

(* A value with nothing inside is dereferenced, and so is the nil lua that   *)
(* createStringAsPtr is called on.                                           *)
Panics(v) == v \in HollowValues \/ (IsGoString(v) /\ ~HasLua)

(* The panic leaves the method, ...                                          *)
PanicsOut == /\ call' = [call EXCEPT !.pc = "panicked", !.todo = <<>>, !.conv = <<>>]
             /\ UNCHANGED <<heap, wrappers, unbound, lists>>

(* ... or CreateFunction's closure recovers it.  Then nobody has the list of *)
(* results as far as it was made: it is neither closed nor handed to Rust.   *)
PanicRecovered ==
  /\ \E b \in New(heap) :
       /\ heap' = [heap EXCEPT ![b] = ErrorString]
       /\ call' = [call EXCEPT !.pc = "error", !.todo = <<Head(@)>>, !.err = b]
  /\ lists' = [lists EXCEPT !["args"] = NoList]
  /\ UNCHANGED <<wrappers, unbound>>

ConvertPanics ==
  /\ Converting /\ call.op # "chunk"
  /\ Panics(Head(call.todo))
  /\ IF call.pc = "results" THEN PanicRecovered ELSE PanicsOut

Pushing == call.op = "many" /\ call.pc \in {"convert", "results"} /\ call.conv # <<>>
Pushed == LET l == IF call.pc = "convert" THEN "call" ELSE "out"
          IN  lists' = [lists EXCEPT ![l] = Append(@, Head(call.conv).datum)]

(* Mutant: the value is pushed by reference and its Box left to the caller. *)
PushByReference == /\ Pushing
                   /\ Pushed
                   /\ call' = [call EXCEPT !.conv = <<>>]
                   /\ UNCHANGED <<heap, wrappers, unbound>>

(* luago_multivalue_push takes the converted value and its Box. *)
Push == /\ Pushing
        /\ Pushed
        /\ heap' = Free(heap, Flying)
        /\ call' = [call EXCEPT !.conv = <<>>]
        /\ UNCHANGED <<wrappers, unbound>>

-----------------------------------------------------------------------------
(* The Rust function, and the Go function it may call *)

Ready == call.pc = "convert" /\ call.todo = <<>>
Done(pc) == call' = [call EXCEPT !.pc = pc, !.conv = <<>>]

(* What comes out of Lua, its text made by Rust. *)
FromLua == {d \in Datum : AsLua[d] = d /\ Lossy[d] = d}
Through(l) == [i \in DOMAIN l |-> AsLua[l[i]]]

(* A method takes ownership of its values, fails or not; a value may come    *)
(* back.                                                                     *)
InvokeMethod ==
  /\ Ready
  /\ call.op \in {"one", "two"}
  /\ LET H == Free(heap, Flying)
     IN  \/ heap' = H /\ Done("idle") /\ UNCHANGED <<wrappers, unbound>>
         \/ Fail(H) /\ UNCHANGED <<wrappers, unbound>>
         \/ /\ call.op = "one"
            /\ \E d \in FromLua :
                 /\ \E b \in Target(H, d) : Wrap(H, d, b, call.recv = NoBox)
                 /\ Done(IF Faults(d) THEN "panicked" ELSE "idle")
  /\ UNCHANGED lists

(* luago_load_chunk: without code it returns before it takes the name; else  *)
(* both strings are taken, and there is a function or an error.              *)
InvokeChunk ==
  /\ Ready
  /\ call.op = "chunk"
  /\ LET H == IF call.conv[2].box = NoBox THEN heap ELSE Free(heap, Flying)
     IN  \/ Fail(H) /\ UNCHANGED <<wrappers, unbound>>
         \/ /\ call.conv[2].box # NoBox
            /\ \E d \in Datum, b \in New(H) :
                 /\ KindOf[d] = "Function"
                 /\ heap' = [H EXCEPT ![b] = Live("Function", d)]
                 /\ wrappers' = wrappers \cup {b}
            /\ Done("idle")
            /\ UNCHANGED unbound
  /\ UNCHANGED lists

(* luago_function_call consumes the multivalue and gives Lua its values.     *)
(* The call fails, or runs function(...) return ... end, or a Go function,   *)
(* which gets a list of its own.                                             *)
InvokeFunction ==
  /\ Ready
  /\ call.op = "many"
  /\ call.conv = <<>>
  /\ UNCHANGED <<wrappers, unbound>>
  /\ \/ /\ Fail(heap)
        /\ lists' = [lists EXCEPT !["call"] = NoList]
     \/ /\ "lua" \in Callee
        /\ Done("take")
        /\ lists' = [lists EXCEPT !["call"] = NoList, !["rets"] = Through(lists["call"])]
        /\ UNCHANGED heap
     \/ /\ "go" \in Callee
        /\ Done("args")
        /\ lists' = [lists EXCEPT !["call"] = NoList, !["args"] = Through(lists["call"])]
        /\ UNCHANGED heap

(* CreateFunction's closure takes its arguments out of the list, ...         *)
TakeArg ==
  /\ call.pc = "args"
  /\ lists["args"] # <<>>
  /\ LET d == Head(lists["args"])
     IN  /\ ~Faults(d)
         /\ \E b \in Target(heap, d) :
              /\ Wrap(heap, d, b, TRUE)
              /\ call' = [call EXCEPT !.todo = Append(@, [box |-> b, datum |-> Decode(d)])]
  /\ lists' = [lists EXCEPT !["args"] = Tail(@)]

(* ... recovering if one of them cannot be read, and runs.  The Go function  *)
(* returns an error, panics, ...                                             *)
BodyFails == /\ call.pc = "args"
             /\ lists["args"] # <<>> => Faults(Head(lists["args"]))
             /\ CallbackFails

(* ... or returns the values it was given, or one with nothing inside.       *)
Replaced(s) == {[s EXCEPT ![i] = v] : i \in DOMAIN s, v \in HollowValues}

BodyReturns == /\ call.pc = "args"
               /\ lists["args"] = <<>>
               /\ \E s \in {call.todo} \cup Replaced(call.todo) :
                    call' = [call EXCEPT !.pc = "results", !.todo = s]
               /\ lists' = [lists EXCEPT !["out"] = <<>>]
               /\ UNCHANGED <<heap, wrappers, unbound>>

(* The Rust closure frees the arguments and hands the results to Lua. *)
CallbackReturns ==
  /\ call.pc = "results"
  /\ call.todo = <<>> /\ call.conv = <<>>
  /\ Done("take")
  /\ lists' = [lists EXCEPT !["args"] = NoList, !["out"] = NoList,
                            !["rets"] = Through(lists["out"])]
  /\ UNCHANGED <<heap, wrappers, unbound>>

-----------------------------------------------------------------------------
(* The way back *)

(* moveErrorToGoError *)
TakeError == /\ call.pc = "error"
             /\ heap' = Free(heap, {call.err})
             /\ call' = [call EXCEPT !.pc = "idle", !.err = NoBox]
             /\ UNCHANGED <<wrappers, unbound, lists>>

(* Mutant: pop from the back, as multivalue.go:46 warns it does not. *)
TakeLast ==
  /\ call.pc = "take"
  /\ lists["rets"] # <<>>
  /\ LET n == Len(lists["rets"])
         d == lists["rets"][n]
     IN  /\ ~Faults(d)
         /\ \E b \in Target(heap, d) : Wrap(heap, d, b, FALSE)
         /\ call' = [call EXCEPT !.got = Append(@, Decode(d))]
         /\ lists' = [lists EXCEPT !["rets"] = SubSeq(@, 1, n - 1)]

(* take: pop the first value of the multivalue and wrap it.  Call gives the  *)
(* multivalue no lua.                                                        *)
Take == /\ call.pc = "take"
        /\ lists["rets"] # <<>>
        /\ LET d == Head(lists["rets"])
           IN  /\ ~Faults(d)
               /\ \E b \in Target(heap, d) : Wrap(heap, d, b, FALSE)
               /\ call' = [call EXCEPT !.got = Append(@, Decode(d))]
        /\ lists' = [lists EXCEPT !["rets"] = Tail(@)]

(* Nothing recovers in Call. *)
TakePanics == /\ call.pc = "take"
              /\ lists["rets"] # <<>>
              /\ Faults(Head(lists["rets"]))
              /\ Done("panicked")
              /\ lists' = [lists EXCEPT !["rets"] = Tail(@)]
              /\ UNCHANGED <<heap, wrappers, unbound>>

(* rets.close() *)
Return == /\ call.pc = "take"
          /\ lists["rets"] = <<>>
          /\ Done("idle")
          /\ lists' = [lists EXCEPT !["rets"] = NoList]
          /\ UNCHANGED <<heap, wrappers, unbound>>

Next == \/ \E d \in Datum : Receive(d) \/ ReceivePanics(d)
        \/ \E b \in Box : CloseValue(b)
        \/ \E op \in Op : Begin(op)
        \/ ConvertWrapper \/ ConvertGoString \/ ConvertScalar \/ ConvertChunkString
        \/ ConvertFails \/ ConvertPanics \/ Push
        \/ InvokeMethod \/ InvokeChunk \/ InvokeFunction
        \/ TakeArg \/ BodyFails \/ BodyReturns \/ CallbackReturns
        \/ TakeError \/ Take \/ TakePanics \/ Return

Spec == Init /\ [][Next]_vars

-----------------------------------------------------------------------------
(* Properties *)

(* Every live Box has an owner that will free it: an open wrapper, the call  *)
(* in progress or the error it returns.  So value.go:351-353, "the LuaString *)
(* will be dropped in rust side automatically", and chunk.rs:3, "A           *)
(* ChunkString will be deallocated by Rust directly", on every path.         *)
NothingLost == \A b \in Box : heap[b] # Unused => b \in Owned

(* And only one: Rust is never given a Box that a wrapper will free, nor the *)
(* same Box twice; and no owner has a freed one.                             *)
OwnedOnce ==
  /\ \A b \in Owned : heap[b] # Unused
  /\ wrappers \cap Flying = {}
  /\ call.err \notin wrappers \cup Flying
  /\ \A i, j \in DOMAIN call.conv :
       i # j => call.conv[i].box = NoBox \/ call.conv[i].box # call.conv[j].box

(* Calling the identity function, be it Lua's or Go's, returns what was      *)
(* passed: the same values in the same order, as Lua makes of them what it   *)
(* does (integral Numbers are Integers), however they were passed and        *)
(* whatever is closed meanwhile.  Errors cross with their text made UTF-8.   *)
EchoFaithful ==
  call.op = "many" /\ call.pc = "idle" /\ call.got # <<>> =>
    call.got = [i \in DOMAIN call.given |-> AsLua[Lossy[call.given[i]]]]

During(l, pcs) == lists[l] # NoList => call.op = "many" /\ call.pc \in pcs

(* The result whose conversion panicked. *)
PanickedOn == {call.todo[i] : i \in DOMAIN call.todo} \cap HollowValues

(* A multivalue lives as long as its part of the call: every way out has     *)
(* freed it or passed it on.  Only panics leave one behind: out of Call its  *)
(* own, and from a Go function's result with nothing inside the results.     *)
MultiReleased ==
  /\ During("call", {"convert", "panicked"})
  /\ During("args", {"args", "results"})
  /\ During("out", {"results"} \cup IF PanickedOn # {} THEN {"error", "idle"} ELSE {})
  /\ During("rets", {"take", "panicked"})

(* Nothing is left behind, without exceptions: no Box loses its owner (value.go *)
(* 351-353, Rust frees what methods are given) and the results of a Go function *)
(* go with the call of it (vm.go:237, "Rust will deallocate values as well").   *)
NothingLeftBehind == NothingLost /\ During("out", {"results"})

(* What crosses is what was sent.  On its way to Rust a value is labelled    *)
(* with its own type (rustlib.h:86-87: a String tag comes with a "Pointer to *)
(* LuaString"), and gluau changes nothing on the way back: value.go:80,      *)
(* "ValueLightUserData is a pointer to an arbitrary C data type".            *)
CrossesUnchanged ==
  /\ \A i \in DOMAIN call.conv :
       call.op # "chunk" => call.conv[i].tag = KindOf[call.conv[i].datum]
  /\ EchoFaithful

(* function.go:29-30, "Call calls a function `f` returning either the        *)
(* returned arguments or the error"; table.go:118-120, "it is undefined      *)
(* behavior for the callback to unwind into Rust ... so we must recover()    *)
(* any panic that occurs in the callback".                                   *)
NoPanicEscapes == call.pc # "panicked"
=============================================================================
