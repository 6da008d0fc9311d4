---------------------------- MODULE ValuesProofs ----------------------------
(***************************************************************************)
(* Machine-checked facts about Values, for every heap, every set of Lua    *)
(* values and any number of arguments.                                     *)
(***************************************************************************)
EXTENDS Values, SequenceTheorems, TLAPS

-----------------------------------------------------------------------------
(* The inductive invariant: what each stage of a call entails for the        *)
(* wrappers, the lists and the values in flight.                             *)

(* A wrapper's Box holds a Lua value of the wrapper's type. *)
WrappersOK == \A b \in wrappers : /\ heap[b].datum \in Datum
                                  /\ heap[b].type = KindOf[heap[b].datum]

(* What is still to convert is an open wrapper, unless it was closed. *)
TodoOK == \A i \in DOMAIN call.todo : call.todo[i].box # NoBox =>
            /\ call.todo[i].box \in wrappers
            /\ heap[call.todo[i].box].datum = call.todo[i].datum

(* Only a list's values are converted after Rust has taken over, and one of  *)
(* them at a time; a chunk is made of two strings; the error string is there *)
(* while the call fails.                                                     *)
StagesOK ==
  /\ call.op # "many" => call.pc \in {"idle", "convert", "error", "panicked"}
  /\ call.op = "many" => Len(call.conv) <= 1
  /\ call.conv # <<>> => call.pc \in {"convert", "results"}
  /\ call.op = "chunk" /\ call.pc = "convert" => \A i \in DOMAIN call.todo : call.todo[i] \in GoStrings
  /\ call.err # NoBox <=> call.pc = "error"

(* A list is there when the stage that works on it needs it. *)
ListsOK ==
  /\ MultiReleased
  /\ call.op = "many" =>
       /\ call.pc = "convert" => lists["call"] # NoList
       /\ call.pc = "args" => lists["args"] # NoList
       /\ call.pc = "results" => lists["out"] # NoList
       /\ call.pc = "take" => lists["rets"] # NoList

ShapeOK == WrappersOK /\ TodoOK /\ StagesOK /\ ListsOK

(* With no second value to convert, and no chunk without code, nothing has   *)
(* been converted when a conversion fails, and both strings of a chunk are.  *)
ConvertedOK ==
  /\ call.op = "one" /\ call.pc = "convert" => Len(call.conv) + Len(call.todo) = 1
  /\ call.op = "chunk" /\ call.pc = "convert" =>
       /\ Len(call.conv) + Len(call.todo) = 2
       /\ \A i \in DOMAIN call.conv : call.conv[i].box # NoBox
  /\ call.pc = "convert" => call.op \in Op \cap {"one", "many", "chunk"}

(* d is what x becomes on its way to Lua, and what Lua has made of it.       *)
IsSent(x, d) == x \in Datum /\ d = Lossy[x]
IsEcho(x, d) == x \in Datum /\ d = AsLua[Lossy[x]]

(* s continues what was passed, g, after the first k values of it; a value   *)
(* that was closed on the way is Unusable, and one may have been replaced by *)
(* one with nothing inside.                                                  *)
IsLost(v) == v = Unusable \/ v \in HollowValues
Sent(g, s, k) == \A i \in DOMAIN s : IsSent(g[k + i], s[i])
SentAs(g, s, k) == \A i \in DOMAIN s : IsSent(g[k + i], s[i].datum)
WillBeSent(g, s, k) == \A i \in DOMAIN s : s[i] = Unusable \/ s[i].datum = g[k + i]
Arrives(g, s, k) == \A i \in DOMAIN s : IsEcho(g[k + i], s[i])
ArrivesAs(g, s, k) == \A i \in DOMAIN s : IsEcho(g[k + i], s[i].datum)
WillArrive(g, s, k) == \A i \in DOMAIN s : IsLost(s[i]) \/ IsEcho(g[k + i], s[i].datum)

(* At each stage a list l, the values c in flight and those still to convert *)
(* or to take, t, make up what was passed.                                   *)
ConvertEcho(g, l, c, t) == /\ Len(l) + Len(c) + Len(t) = Len(g)
                           /\ Sent(g, l, 0)
                           /\ SentAs(g, c, Len(l))
                           /\ WillBeSent(g, t, Len(l) + Len(c))

ResultsEcho(g, l, c, t) == /\ Len(l) + Len(c) + Len(t) = Len(g)
                           /\ Arrives(g, l, 0)
                           /\ ArrivesAs(g, c, Len(l))
                           /\ WillArrive(g, t, Len(l) + Len(c))

ArgsEcho(g, l, t) == /\ Len(t) + Len(l) = Len(g)
                     /\ WillArrive(g, t, 0)
                     /\ Arrives(g, l, Len(t))

TakeEcho(g, l, r) == /\ Len(r) + Len(l) = Len(g)
                     /\ Arrives(g, r, 0)
                     /\ Arrives(g, l, Len(r))

EchoOK ==
  call.op = "many" =>
    /\ call.pc = "convert" => ConvertEcho(call.given, lists["call"], call.conv, call.todo)
    /\ call.pc = "args" => ArgsEcho(call.given, lists["args"], call.todo)
    /\ call.pc = "results" => ResultsEcho(call.given, lists["out"], call.conv, call.todo)
    /\ call.pc = "take" => TakeEcho(call.given, lists["rets"], call.got)
    /\ call.pc \in {"convert", "args", "results", "error"} => call.got = <<>>
    /\ call.pc = "idle" => call.got = <<>> \/ TakeEcho(call.given, <<>>, call.got)

-----------------------------------------------------------------------------
(* Sequences *)

LEMMA FunIsSeq ==
  ASSUME NEW S, NEW n \in Nat, NEW s \in [1 .. n -> S]
  PROVE  s \in Seq(S) /\ Len(s) = n /\ DOMAIN s = 1 .. n
<1>1. s \in Seq(S)
  BY SeqDef
<1>. QED
  BY <1>1, LenProperties

LEMMA EmptyFacts ==
  ASSUME NEW S
  PROVE  <<>> \in Seq(S) /\ Len(<<>>) = 0 /\ DOMAIN <<>> = {}
  BY EmptySeq

LEMMA SeqFacts ==
  ASSUME NEW S, NEW s \in Seq(S)
  PROVE  /\ Len(s) \in Nat /\ DOMAIN s = 1 .. Len(s)
         /\ s # <<>> <=> Len(s) > 0
         /\ \A i \in DOMAIN s : s[i] \in S
  BY EmptySeq, LenProperties, ElementOfSeq

LEMMA TailFacts ==
  ASSUME NEW S, NEW s \in Seq(S), s # <<>>
  PROVE  /\ Head(s) \in S /\ Head(s) = s[1] /\ 1 \in DOMAIN s
         /\ Tail(s) \in Seq(S) /\ Len(Tail(s)) = Len(s) - 1
         /\ \A i \in DOMAIN Tail(s) : i + 1 \in DOMAIN s /\ Tail(s)[i] = s[i + 1]
<1>1. Len(s) \in Nat /\ DOMAIN s = 1 .. Len(s) /\ Len(s) > 0
  BY SeqFacts
<1>2. /\ Head(s) \in S /\ Tail(s) \in Seq(S) /\ Len(Tail(s)) = Len(s) - 1
      /\ \A i \in 1 .. Len(Tail(s)) : Tail(s)[i] = s[i + 1]
  BY HeadTailProperties
<1>3. Head(s) = s[1]
  OBVIOUS
<1>4. DOMAIN Tail(s) = 1 .. Len(s) - 1
  BY <1>2, LenProperties
<1>. QED
  BY <1>1, <1>2, <1>3, <1>4

LEMMA AppendFacts ==
  ASSUME NEW S, NEW s \in Seq(S), NEW x \in S
  PROVE  /\ Append(s, x) \in Seq(S) /\ Len(Append(s, x)) = Len(s) + 1
         /\ DOMAIN Append(s, x) = 1 .. Len(s) + 1 /\ Append(s, x)[Len(s) + 1] = x
         /\ \A i \in DOMAIN s : i \in DOMAIN Append(s, x) /\ Append(s, x)[i] = s[i]
         /\ \A i \in DOMAIN Append(s, x) : i \in DOMAIN s \/ i = Len(s) + 1
<1>1. Len(s) \in Nat /\ DOMAIN s = 1 .. Len(s)
  BY SeqFacts
<1>2. /\ Append(s, x) \in Seq(S) /\ Len(Append(s, x)) = Len(s) + 1
      /\ \A i \in 1 .. Len(s) : Append(s, x)[i] = s[i]
      /\ Append(s, x)[Len(s) + 1] = x
  BY AppendProperties
<1>3. DOMAIN Append(s, x) = 1 .. Len(s) + 1
  BY <1>2, LenProperties
<1>. QED
  BY <1>1, <1>2, <1>3

-----------------------------------------------------------------------------
(* Typing *)

Alloc == {Unused, ErrorString}
           \cup {Live(t, d) : t \in Boxed \cup {"ChunkString"}, d \in Datum}

HeapType == heap \in [Box -> Alloc]
WrapType == wrappers \subseteq Box /\ unbound \subseteq wrappers
ListsType == lists \in [List -> Seq(Datum) \cup {NoList}]

LEMMA TypeParts == TypeOK <=> HeapType /\ WrapType /\ call \in Call /\ ListsType
  BY DEF TypeOK, HeapType, WrapType, ListsType, Alloc

(* Facts about what is in the heap, stated once. *)
LEMMA AllocFacts ==
  /\ Unused \in Alloc /\ ErrorString \in Alloc
  /\ \A t \in Boxed \cup {"ChunkString"}, d \in Datum : Live(t, d) \in Alloc
  /\ \A t, d : Live(t, d).type = t /\ Live(t, d).datum = d
  /\ \A t \in Boxed \cup {"ChunkString"} : \A d : Live(t, d) # Unused
  /\ ErrorString # Unused /\ Unused.datum = NoDatum
  /\ \A a \in Alloc : a.datum \in Datum \cup {NoDatum}
  /\ \A a \in Alloc : a.datum \in Datum => a.type \in Boxed \cup {"ChunkString"}
  /\ \A a \in Alloc : a.datum \in Datum => a # Unused
<1>1. /\ Unused \in Alloc /\ ErrorString \in Alloc
      /\ \A t \in Boxed \cup {"ChunkString"}, d \in Datum : Live(t, d) \in Alloc
  BY DEF Alloc
<1>2. \A t, d : Live(t, d).type = t /\ Live(t, d).datum = d
  BY DEF Live
<1>3. /\ Unused.type = "none" /\ Unused.datum = NoDatum
      /\ ErrorString.type = "ErrorString" /\ ErrorString.datum = NoDatum
  BY DEF Unused, ErrorString, Live
<1>4. \A t \in Boxed \cup {"ChunkString"} : t # "none"
  BY DEF Boxed
<1>5. \A t \in Boxed \cup {"ChunkString"} : \A d : Live(t, d) # Unused
  BY <1>2, <1>3, <1>4
<1>6. \A a \in Alloc :
        \/ a = Unused \/ a = ErrorString
        \/ \E t \in Boxed \cup {"ChunkString"}, d \in Datum : a = Live(t, d)
  BY DEF Alloc
<1>7. \A a \in Alloc : a.datum \in Datum \cup {NoDatum}
  BY <1>2, <1>3, <1>6
<1>8. \A a \in Alloc : a.datum \in Datum => /\ a.type \in Boxed \cup {"ChunkString"}
                                           /\ a # Unused
  BY <1>2, <1>3, <1>6, ValuesAssumption
<1>. QED
  BY <1>1, <1>2, <1>3, <1>5, <1>7, <1>8

LEMMA CallFields ==
  ASSUME call \in Call
  PROVE  /\ call.op \in {"one", "two", "many", "chunk", "each"}
         /\ call.recv \in Box \cup {NoBox} /\ call.pc \in PC
         /\ call.given \in Seq(Datum \cup {NoDatum} \cup Hollow) /\ call.todo \in Seq(Value)
         /\ call.conv \in Seq(CValue) /\ call.got \in Seq(Datum \cup {NoDatum})
         /\ call.err \in Box \cup {NoBox}
  BY DEF Call

LEMMA KindTyped ==
  ASSUME NEW d \in Datum
  PROVE  /\ KindOf[d] \in Scalar \cup Boxed /\ Lossy[d] \in Datum
         /\ TagFor(KindOf[d]) \in Scalar \cup Boxed
         /\ KindOf[d] \in Boxed <=> KindOf[d] \notin Scalar
         /\ Decode(d) \in Datum \cup {NoDatum}
         /\ ~Faults(d) => Decode(d) \in Datum
  BY ValuesAssumption DEF TagFor, Scalar, Boxed, Decode, Faults

(* A wrapper's Box is a boxed Lua value. *)
LEMMA WrapperTyped ==
  ASSUME HeapType, WrapType, WrappersOK, NEW b \in wrappers
  PROVE  /\ b \in Box /\ b # NoBox /\ heap[b] # Unused /\ heap[b].datum \in Datum
         /\ heap[b].type = KindOf[heap[b].datum] /\ heap[b].type \in Boxed
<1>1. /\ b \in Box /\ heap[b] \in Alloc /\ heap[b].datum \in Datum
      /\ heap[b].type = KindOf[heap[b].datum]
  BY DEF HeapType, WrapType, WrappersOK
<1>2. heap[b].type \in Boxed \cup {"ChunkString"} /\ heap[b].type \in Scalar \cup Boxed
  BY <1>1, AllocFacts, KindTyped
<1>3. heap[b].type \in Boxed
  BY <1>2 DEF Scalar
<1>. QED
  BY <1>1, <1>3, AllocFacts, ValuesAssumption

LEMMA FreeFacts ==
  ASSUME HeapType, NEW B
  PROVE  /\ Free(heap, B) \in [Box -> Alloc]
         /\ \A b \in Box : Free(heap, B)[b] = IF b \in B THEN Unused ELSE heap[b]
  BY AllocFacts DEF Free, HeapType

LEMMA NewFacts ==
  ASSUME NEW H \in [Box -> Alloc], NEW b \in New(H)
  PROVE  /\ b \in Box /\ b # NoBox /\ H[b] = Unused
         /\ \A x \in Alloc : /\ [H EXCEPT ![b] = x] \in [Box -> Alloc]
                             /\ \A c \in Box : [H EXCEPT ![b] = x][c] = IF c = b THEN x ELSE H[c]
  BY ValuesAssumption DEF New

LEMMA TargetFacts ==
  ASSUME NEW H, NEW d \in Datum, NEW b \in Target(H, d)
  PROVE  \/ b = NoBox /\ KindOf[d] \in Scalar
         \/ b \in New(H) /\ b # NoBox /\ KindOf[d] \in Boxed
  BY KindTyped, ValuesAssumption DEF Target, New

(* A value comes into Go: its Box was unused, and has one owner. *)
LEMMA WrapFacts ==
  ASSUME NEW H \in [Box -> Alloc], NEW d \in Datum, NEW b \in Target(H, d), NEW lua,
         Wrap(H, d, b, lua), WrapType
  PROVE  /\ HeapType' /\ WrapType'
         /\ \/ b = NoBox /\ heap' = H /\ wrappers' = wrappers
            \/ /\ b \in Box /\ b # NoBox /\ H[b] = Unused
               /\ wrappers' = wrappers \cup {b}
               /\ heap'[b] # Unused /\ heap'[b].datum = d /\ heap'[b].type = KindOf[d]
               /\ \A c \in Box : c # b => heap'[c] = H[c]
<1>1. CASE b = NoBox /\ KindOf[d] \in Scalar
  <2>1. heap' = H /\ wrappers' = wrappers /\ unbound' = unbound
    BY <1>1 DEF Wrap, Scalar
  <2>. QED
    BY <1>1, <2>1 DEF HeapType, WrapType
<1>2. CASE b \in New(H) /\ b # NoBox /\ KindOf[d] \in Boxed
  <2>1. /\ heap' = [H EXCEPT ![b] = Live(KindOf[d], d)]
        /\ wrappers' = wrappers \cup {b} /\ unbound' \subseteq unbound \cup {b}
    BY <1>2 DEF Wrap
  <2>2. PICK x : x = Live(KindOf[d], d)
    OBVIOUS
  <2>3. x \in Alloc /\ x # Unused /\ x.datum = d /\ x.type = KindOf[d]
    BY <1>2, <2>2, AllocFacts
  <2>4. /\ b \in Box /\ H[b] = Unused /\ heap' \in [Box -> Alloc]
        /\ \A c \in Box : heap'[c] = IF c = b THEN x ELSE H[c]
    BY <1>2, <2>1, <2>2, <2>3, NewFacts
  <2>. QED
    BY <1>2, <2>1, <2>3, <2>4 DEF HeapType, WrapType
<1>. QED
  BY <1>1, <1>2, TargetFacts

(* Rust gives back an error: its string's Box was unused. *)
LEMMA FailFacts ==
  ASSUME NEW H \in [Box -> Alloc], call \in Call, Fail(H)
  PROVE  /\ HeapType' /\ call' \in Call
         /\ \E b \in Box : /\ b # NoBox /\ H[b] = Unused /\ heap'[b] # Unused
                           /\ \A c \in Box : c # b => heap'[c] = H[c]
                           /\ call' = [call EXCEPT !.pc = "error", !.todo = <<>>, !.conv = <<>>,
                                                   !.err = b]
<1>1. PICK b \in New(H) :
        /\ heap' = [H EXCEPT ![b] = ErrorString]
        /\ call' = [call EXCEPT !.pc = "error", !.todo = <<>>, !.conv = <<>>, !.err = b]
  BY DEF Fail
<1>2. /\ b \in Box /\ b # NoBox /\ H[b] = Unused /\ heap' \in [Box -> Alloc]
      /\ \A c \in Box : heap'[c] = IF c = b THEN ErrorString ELSE H[c]
  BY <1>1, NewFacts, AllocFacts
<1>3. call' \in Call
  BY <1>1, <1>2, EmptyFacts DEF Call, PC
<1>. QED
  BY <1>1, <1>2, <1>3, AllocFacts DEF HeapType

(* A value is boxed for Rust. *)
LEMMA ConvertFacts ==
  ASSUME HeapType, call \in Call, NEW b, NEW t \in Scalar \cup Boxed \cup {"ChunkString"},
         NEW d \in Datum, NEW c, c = [tag |-> t, box |-> b, datum |-> d],
         ConvertedTo(b, t, d), call.todo # <<>>,
         b = NoBox \/ (b \in New(heap) /\ t \notin Scalar)
  PROVE  /\ HeapType' /\ call' \in Call
         /\ \/ b = NoBox /\ heap' = heap
            \/ /\ b \in Box /\ b # NoBox /\ heap[b] = Unused /\ heap'[b] # Unused
               /\ \A a \in Box : a # b => heap'[a] = heap[a]
         /\ c \in CValue /\ c.box = b /\ c.datum = d
         /\ call' = [call EXCEPT !.todo = Tail(call.todo), !.conv = Append(call.conv, c)]
<1>2. b \in Box \cup {NoBox}
  BY DEF New
<1>3. c \in CValue /\ c.box = b /\ c.datum = d
  BY <1>2 DEF CValue
<1>4. call' = [call EXCEPT !.todo = Tail(call.todo), !.conv = Append(call.conv, c)]
  BY DEF ConvertedTo, Converted
<1>5. call' \in Call
  <2>1. Tail(call.todo) \in Seq(Value) /\ Append(call.conv, c) \in Seq(CValue)
    BY <1>3, CallFields, TailFacts, AppendFacts
  <2>. QED
    BY <1>4, <2>1 DEF Call
<1>6. CASE b = NoBox
  BY <1>3, <1>4, <1>5, <1>6 DEF ConvertedTo, HeapType
<1>7. CASE b \in New(heap) /\ t \notin Scalar
  <2>1. heap' = [heap EXCEPT ![b] = Live(t, d)]
    BY <1>7, NewFacts DEF ConvertedTo, HeapType
  <2>2. Live(t, d) \in Alloc /\ Live(t, d) # Unused
    BY <1>7, AllocFacts
  <2>3. /\ b \in Box /\ b # NoBox /\ heap[b] = Unused /\ heap' \in [Box -> Alloc]
        /\ \A a \in Box : heap'[a] = IF a = b THEN Live(t, d) ELSE heap[a]
    BY <1>7, <2>1, <2>2, NewFacts DEF HeapType
  <2>. QED
    BY <1>3, <1>4, <1>5, <2>2, <2>3 DEF HeapType
<1>. QED
  BY <1>6, <1>7

(* The conversions and what they work on. *)
LEMMA HeadTyped ==
  ASSUME call \in Call, call.todo # <<>>
  PROVE  Head(call.todo) \in Value /\ Tail(call.todo) \in Seq(Value)
  BY CallFields, TailFacts

LEMMA GoStringFacts ==
  ASSUME NEW v \in GoStrings
  PROVE  v.box = NoBox /\ v.datum \in Datum /\ KindOf[v.datum] = "String"
  BY DEF GoStrings

(* No value that can be converted is Unusable, or has nothing inside. *)
LEMMA HollowFacts ==
  /\ \A v \in HollowValues : /\ v \in Value /\ v.box = NoBox /\ v.datum \in Hollow
                             /\ v # Unusable /\ v.datum \notin Datum
  /\ \A v : v.datum \in Datum => v # Unusable /\ v \notin HollowValues
  BY ValuesAssumption DEF HollowValues, Unusable, Value

LEMMA ScalarFacts ==
  ASSUME NEW v \in Scalars
  PROVE  v.box = NoBox /\ v.datum \in Datum /\ KindOf[v.datum] \in Scalar
  BY DEF Scalars

Converts == ConvertWrapper \/ ConvertGoString \/ ConvertScalar \/ ConvertChunkString

(* A conversion boxes the value's datum, an error's with its text made       *)
(* UTF-8, unless it is a scalar.                                             *)
ConvertsAs(b, t, d) ==
  /\ ConvertedTo(b, t, d)
  /\ t \in Scalar \cup Boxed \cup {"ChunkString"}
  /\ b = NoBox \/ (b \in New(heap) /\ t \notin Scalar)
  /\ d \in Datum /\ Head(call.todo).datum \in Datum /\ d = Lossy[Head(call.todo).datum]
  /\ call.op = "chunk" /\ EmptyString = {} => b # NoBox

LEMMA ConvertsTo ==
  ASSUME TypeOK, WrappersOK, TodoOK, Converts,
         call.op = "chunk" => Head(call.todo) \in GoStrings
  PROVE  /\ Converting /\ Head(call.todo) # Unusable
         /\ \E b, t, d : ConvertsAs(b, t, d)
<1>. DEFINE v == Head(call.todo)
<1>1. Converting /\ v \in Value /\ HeapType /\ WrapType /\ call.todo # <<>>
  BY HeadTyped, TypeParts DEF Converts, ConvertWrapper, ConvertGoString, ConvertScalar,
     ConvertChunkString, Converting
<1>2. v = call.todo[1] /\ 1 \in DOMAIN call.todo
  BY <1>1, CallFields, TailFacts DEF TypeOK
<1>3. ASSUME NEW b, NEW t, NEW d, ConvertsAs(b, t, d)
      PROVE  /\ Converting /\ v # Unusable
             /\ \E bb, tt, dd : ConvertsAs(bb, tt, dd)
  <2>1. v.datum \in Datum
    BY <1>3 DEF ConvertsAs
  <2>2. v # Unusable
    BY <2>1, ValuesAssumption DEF Unusable
  <2>. QED
    BY <1>1, <1>3, <2>2
<1>4. CASE ConvertWrapper
  <2>1. PICK b \in New(heap) :
          /\ v.box \in wrappers
          /\ ConvertedTo(b, TagFor(KindOf[heap[v.box].datum]), Lossy[heap[v.box].datum])
    BY <1>4 DEF ConvertWrapper
  <2>2. /\ heap[v.box].datum \in Datum /\ v.box # NoBox
        /\ KindOf[heap[v.box].datum] \in Boxed
    BY <1>1, <2>1, WrapperTyped
  <2>3. heap[v.box].datum = v.datum
    BY <1>2, <2>2 DEF TodoOK
  <2>4. TagFor(KindOf[v.datum]) \in Boxed
    BY <2>2, <2>3 DEF TagFor, Boxed
  <2>5. b # NoBox
    BY ValuesAssumption DEF New
  <2>6. TagFor(KindOf[v.datum]) \notin Scalar /\ Lossy[v.datum] \in Datum
    BY <2>2, <2>3, <2>4, KindTyped DEF Scalar, Boxed
  <2>7. ConvertsAs(b, TagFor(KindOf[v.datum]), Lossy[v.datum])
    BY <2>1, <2>2, <2>3, <2>4, <2>5, <2>6 DEF ConvertsAs
  <2>. QED
    BY <1>3, <2>7
<1>5. CASE ConvertGoString
  <2>1. PICK b \in New(heap) : ConvertedTo(b, "String", v.datum)
    BY <1>5 DEF ConvertGoString
  <2>2. v.datum \in Datum /\ KindOf[v.datum] = "String" /\ call.op # "chunk"
    BY <1>5, GoStringFacts DEF ConvertGoString, IsGoString
  <2>3. v.datum = Lossy[v.datum]
    BY <2>2, ValuesAssumption
  <2>4. "String" \in Boxed /\ "String" \notin Scalar
    BY DEF Boxed, Scalar
  <2>5. ConvertsAs(b, "String", v.datum)
    BY <2>1, <2>2, <2>3, <2>4 DEF ConvertsAs
  <2>. QED
    BY <1>3, <2>5
<1>6. CASE ConvertScalar
  <2>1. ConvertedTo(NoBox, KindOf[v.datum], v.datum)
    BY <1>6 DEF ConvertScalar
  <2>2. v.datum \in Datum /\ KindOf[v.datum] \in Scalar
    BY <1>6, ScalarFacts DEF ConvertScalar, IsScalar
  <2>3. v.datum = Lossy[v.datum]
    BY <2>2, ValuesAssumption DEF Scalar
  <2>4. call.op # "chunk"
    BY <2>2, GoStringFacts DEF Scalar
  <2>5. ConvertsAs(NoBox, KindOf[v.datum], v.datum)
    BY <2>1, <2>2, <2>3, <2>4 DEF ConvertsAs
  <2>. QED
    BY <1>3, <2>5
<1>7. CASE ConvertChunkString
  <2>1. PICK b \in IF v.datum \in EmptyString THEN {NoBox} ELSE New(heap) :
          ConvertedTo(b, "ChunkString", v.datum)
    BY <1>7 DEF ConvertChunkString
  <2>2. v.datum \in Datum /\ KindOf[v.datum] = "String"
    BY <1>7, GoStringFacts DEF ConvertChunkString
  <2>3. v.datum = Lossy[v.datum]
    BY <2>2, ValuesAssumption
  <2>4. EmptyString = {} => b # NoBox
    BY <2>1, ValuesAssumption DEF New
  <2>5. "ChunkString" \notin Scalar
    BY DEF Scalar
  <2>6. ConvertsAs(b, "ChunkString", v.datum)
    BY <2>1, <2>2, <2>3, <2>4, <2>5 DEF ConvertsAs
  <2>. QED
    BY <1>3, <2>6
<1>. QED
  BY <1>1, <1>4, <1>5, <1>6, <1>7 DEF Converts

(* In that form: where the Box is, and what becomes of the call. *)
Convert(c) ==
  /\ c \in CValue
  /\ call' = [call EXCEPT !.todo = Tail(call.todo), !.conv = Append(call.conv, c)]
  /\ c.datum = Lossy[Head(call.todo).datum]
  /\ \/ c.box = NoBox /\ heap' = heap
     \/ /\ c.box \in Box /\ c.box # NoBox
        /\ heap[c.box] = Unused /\ heap'[c.box] # Unused
        /\ \A a \in Box : a # c.box => heap'[a] = heap[a]
  /\ call.op = "chunk" /\ EmptyString = {} => c.box # NoBox

LEMMA ConvertStep ==
  ASSUME TypeOK, WrappersOK, TodoOK, Converts,
         call.op = "chunk" => Head(call.todo) \in GoStrings
  PROVE  /\ Converting /\ Head(call.todo) # Unusable /\ Head(call.todo).datum \in Datum
         /\ HeapType' /\ call' \in Call /\ UNCHANGED <<wrappers, unbound, lists>>
         /\ \E c : Convert(c)
<1>1. PICK b, t, d : ConvertsAs(b, t, d)
  BY ConvertsTo
<1>2. Converting /\ Head(call.todo) # Unusable /\ call.todo # <<>>
  BY ConvertsTo DEF Converting
<1>3. HeapType /\ call \in Call
  BY TypeParts
<1>4. /\ ConvertedTo(b, t, d) /\ t \in Scalar \cup Boxed \cup {"ChunkString"} /\ d \in Datum
      /\ b = NoBox \/ (b \in New(heap) /\ t \notin Scalar)
  BY <1>1 DEF ConvertsAs
<1>5. PICK c : c = [tag |-> t, box |-> b, datum |-> d]
  OBVIOUS
<1>6. /\ HeapType' /\ call' \in Call
      /\ \/ b = NoBox /\ heap' = heap
         \/ /\ b \in Box /\ b # NoBox /\ heap[b] = Unused /\ heap'[b] # Unused
            /\ \A a \in Box : a # b => heap'[a] = heap[a]
      /\ c \in CValue /\ c.box = b /\ c.datum = d
      /\ call' = [call EXCEPT !.todo = Tail(call.todo), !.conv = Append(call.conv, c)]
  BY <1>2, <1>3, <1>4, <1>5, ConvertFacts
<1>7. Convert(c)
  BY <1>1, <1>6 DEF Convert, ConvertsAs
<1>8. UNCHANGED <<wrappers, unbound, lists>>
  BY <1>4 DEF ConvertedTo
<1>. QED
  BY <1>1, <1>2, <1>6, <1>7, <1>8 DEF ConvertsAs

-----------------------------------------------------------------------------
(* Ownership, one lemma for each way in which Boxes change hands *)

Owning == HeapType /\ WrapType /\ WrappersOK /\ OwnedOnce

(* The wrappers there are stay, and what they own. *)
Kept == \A b \in wrappers : b \in wrappers' /\ heap'[b] = heap[b]

(* What OwnedOnce says, without the definition of Owned. *)
LEMMA OwnedOnceFacts ==
  ASSUME call \in Call
  PROVE  OwnedOnce <=>
           /\ \A b \in wrappers \cup Flying : heap[b] # Unused
           /\ call.err # NoBox => heap[call.err] # Unused
           /\ \A b \in wrappers : b \notin Flying
           /\ call.err \notin wrappers /\ call.err \notin Flying
           /\ \A i, j \in DOMAIN call.conv :
                i # j => call.conv[i].box = NoBox \/ call.conv[i].box # call.conv[j].box
  BY DEF OwnedOnce, Owned

LEMMA FlyingType ==
  ASSUME call \in Call
  PROVE  Flying \subseteq Box /\ NoBox \notin Flying
<1>1. \A i \in DOMAIN call.conv : call.conv[i] \in CValue
  BY CallFields, SeqFacts
<1>2. \A c \in CValue : c.box \in Box \cup {NoBox}
  BY DEF CValue
<1>. QED
  BY <1>1, <1>2, ValuesAssumption DEF Flying

LEMMA FlyingSame ==
  ASSUME call'.conv = call.conv
  PROVE  Flying' = Flying
  BY DEF Flying

LEMMA FlyingNone ==
  ASSUME call'.conv = <<>>
  PROVE  Flying' = {}
  BY EmptyFacts DEF Flying

LEMMA NothingFlies ==
  ASSUME call.conv = <<>>
  PROVE  Flying = {}
  BY EmptyFacts DEF Flying

LEMMA FlyingMore ==
  ASSUME call \in Call, NEW c \in CValue, call'.conv = Append(call.conv, c)
  PROVE  Flying' = Flying \cup ({c.box} \ {NoBox})
<1>1. PICK n : n = Len(call.conv) + 1
  OBVIOUS
<1>2. /\ call'.conv[n] = c /\ n \in DOMAIN call'.conv
      /\ \A i \in DOMAIN call.conv : i \in DOMAIN call'.conv /\ call'.conv[i] = call.conv[i]
      /\ \A i \in DOMAIN call'.conv : i \in DOMAIN call.conv \/ i = n
  BY <1>1, CallFields, AppendFacts, SeqFacts
<1>. QED
  BY <1>2 DEF Flying

(* The heap before, or once what Rust was given has been dropped. *)
LEMMA DropFacts ==
  ASSUME Owning, call \in Call, NEW H, H = heap \/ H = Free(heap, Flying)
  PROVE  /\ H \in [Box -> Alloc]
         /\ \A b \in wrappers : H[b] = heap[b] /\ H[b] # Unused
         /\ call.err # NoBox => H[call.err] = heap[call.err] /\ H[call.err] # Unused
         /\ \A b \in Box : H[b] # Unused => heap[b] # Unused
         /\ H = Free(heap, Flying) => \A b \in Flying : H[b] = Unused
<1>1. /\ HeapType /\ WrapType /\ OwnedOnce
      /\ \A b \in wrappers : heap[b] # Unused /\ b \notin Flying /\ b \in Box
      /\ call.err # NoBox => heap[call.err] # Unused
      /\ call.err \notin Flying /\ call.err \in Box \cup {NoBox}
  BY OwnedOnceFacts, CallFields DEF Owning, WrapType
<1>2. CASE H = heap
  <2>1. H \in [Box -> Alloc]
    BY <1>1, <1>2 DEF HeapType
  <2>2. H = Free(heap, Flying) => \A b \in Flying : H[b] = Unused
    BY <1>1, FreeFacts, FlyingType
  <2>. QED
    BY <1>1, <1>2, <2>1, <2>2
<1>3. CASE H = Free(heap, Flying)
  <2>1. /\ H \in [Box -> Alloc]
        /\ \A b \in Box : H[b] = IF b \in Flying THEN Unused ELSE heap[b]
    BY <1>1, <1>3, FreeFacts
  <2>. QED
    BY <1>1, <2>1, FlyingType
<1>. QED
  BY <1>2, <1>3

(* A value comes into Go. *)
Gains(H, d, b) ==
  \/ b = NoBox /\ heap' = H /\ wrappers' = wrappers
  \/ /\ b \in Box /\ b # NoBox /\ H[b] = Unused
     /\ wrappers' = wrappers \cup {b}
     /\ heap'[b] # Unused /\ heap'[b].datum = d /\ heap'[b].type = KindOf[d]
     /\ \A c \in Box : c # b => heap'[c] = H[c]

LEMMA GainOwns ==
  ASSUME Owning, call \in Call, call' \in Call, call'.err = call.err,
         NEW H, NEW d \in Datum, NEW b, Gains(H, d, b), HeapType', WrapType',
         \/ H = heap /\ call'.conv = call.conv
         \/ H = Free(heap, Flying) /\ call'.conv = <<>>
  PROVE  /\ Owning' /\ Kept
         /\ NothingLost /\ (H = heap => Flying' = Flying) => NothingLost'
<1>1. /\ H \in [Box -> Alloc]
      /\ \A w \in wrappers : H[w] = heap[w] /\ H[w] # Unused
      /\ call.err # NoBox => H[call.err] = heap[call.err] /\ H[call.err] # Unused
      /\ \A w \in Box : H[w] # Unused => heap[w] # Unused
      /\ H = Free(heap, Flying) => \A w \in Flying : H[w] = Unused
  BY DropFacts
<1>2. /\ \A w \in wrappers \cup Flying : heap[w] # Unused
      /\ \A w \in wrappers : w \notin Flying
      /\ call.err \notin wrappers /\ call.err \notin Flying
      /\ \A i, j \in DOMAIN call.conv :
           i # j => call.conv[i].box = NoBox \/ call.conv[i].box # call.conv[j].box
      /\ wrappers \subseteq Box /\ Flying \subseteq Box /\ NoBox \notin Flying
      /\ call.err \in Box \cup {NoBox} /\ NoBox \notin Box
  BY OwnedOnceFacts, FlyingType, CallFields, ValuesAssumption DEF Owning, WrapType
<1>3. \/ Flying' = Flying /\ call'.conv = call.conv /\ H = heap
      \/ Flying' = {} /\ call'.conv = <<>> /\ (H = heap \/ H = Free(heap, Flying))
  BY FlyingSame, FlyingNone
<1>4. /\ \A w \in wrappers : w \in wrappers' /\ heap'[w] = heap[w]
      /\ \A w \in wrappers' : w \in wrappers \/ (w = b /\ b \in Box /\ H[b] = Unused)
      /\ b \in wrappers' /\ b \notin wrappers =>
           heap'[b] # Unused /\ heap'[b].datum = d /\ heap'[b].type = KindOf[d]
      /\ call.err # NoBox => heap'[call.err] = heap[call.err] /\ call.err # b
      /\ H = heap => \A w \in Flying : w # b /\ heap'[w] = heap[w]
  BY <1>1, <1>2 DEF Gains
<1>5. WrappersOK'
  BY <1>2, <1>4 DEF Owning, WrappersOK
<1>6. OwnedOnce'
  <2>1. \A w \in wrappers' \cup Flying' : heap'[w] # Unused
    BY <1>2, <1>3, <1>4
  <2>2. call.err # NoBox => heap'[call.err] # Unused
    BY <1>1, <1>4
  <2>3. \A w \in wrappers' : w \notin Flying'
    BY <1>2, <1>3, <1>4
  <2>4. call.err \notin wrappers' /\ call.err \notin Flying'
    BY <1>2, <1>3, <1>4
  <2>5. \A i, j \in DOMAIN call'.conv :
          i # j => call'.conv[i].box = NoBox \/ call'.conv[i].box # call'.conv[j].box
    BY <1>2, <1>3, EmptyFacts
  <2>. QED
    BY <2>1, <2>2, <2>3, <2>4, <2>5 DEF OwnedOnce, Owned
<1>7. ASSUME NothingLost, H = heap => Flying' = Flying
      PROVE  NothingLost'
  <2>1. ASSUME NEW a \in Box, heap'[a] # Unused
        PROVE  a \in wrappers' \cup Flying' \cup ({call.err} \ {NoBox})
    <3>1. a = b \/ heap'[a] = H[a]
      BY DEF Gains
    <3>2. CASE a = b /\ a \in wrappers'
      BY <3>2
    <3>3. CASE heap'[a] = H[a]
      <4>1. a \in wrappers \cup Flying \cup ({call.err} \ {NoBox})
        BY <1>1, <1>7, <2>1, <3>3 DEF NothingLost, Owned
      <4>2. a \in Flying => H = heap
        BY <1>1, <1>3, <2>1, <3>3
      <4>. QED
        BY <1>4, <1>7, <4>1, <4>2
    <3>. QED
      BY <3>1, <3>2, <3>3 DEF Gains
  <2>. QED
    BY <2>1 DEF NothingLost, Owned
<1>8. Kept
  BY <1>4 DEF Kept
<1>. QED
  BY <1>5, <1>6, <1>7, <1>8 DEF Owning

(* Rust gives back an error string. *)
LEMMA FailOwns ==
  ASSUME Owning, call \in Call, call.err = NoBox,
         NEW H, H = heap \/ H = Free(heap, Flying), Fail(H), UNCHANGED <<wrappers, unbound>>
  PROVE  /\ Owning' /\ Kept /\ call' \in Call
         /\ NothingLost /\ (H = heap => Flying = {}) => NothingLost'
<1>1. /\ H \in [Box -> Alloc]
      /\ \A w \in wrappers : H[w] = heap[w] /\ H[w] # Unused
      /\ \A w \in Box : H[w] # Unused => heap[w] # Unused
      /\ H = Free(heap, Flying) => \A w \in Flying : H[w] = Unused
  BY DropFacts
<1>2. PICK b \in Box : /\ b # NoBox /\ H[b] = Unused /\ heap'[b] # Unused
                       /\ \A c \in Box : c # b => heap'[c] = H[c]
                       /\ call' = [call EXCEPT !.pc = "error", !.todo = <<>>, !.conv = <<>>,
                                               !.err = b]
  BY <1>1, FailFacts
<1>3. HeapType' /\ call' \in Call
  BY <1>1, FailFacts
<1>4. call'.conv = <<>> /\ call'.err = b
  BY <1>2 DEF Call
<1>5. Flying' = {}
  BY <1>4, FlyingNone
<1>6. wrappers \subseteq Box /\ WrapType'
  BY DEF Owning, WrapType
<1>7. \A w \in wrappers : w # b /\ heap'[w] = heap[w] /\ heap'[w] # Unused
  BY <1>1, <1>2, <1>6
<1>8. WrappersOK' /\ Kept
  BY <1>7 DEF Owning, WrappersOK, Kept
<1>9. OwnedOnce'
  <2>1. \A i, j \in DOMAIN call'.conv : i = j
    BY <1>4, EmptyFacts
  <2>2. wrappers' = wrappers /\ Owned' = wrappers \cup {b}
    BY <1>2, <1>4, <1>5 DEF Owned
  <2>. QED
    BY <1>2, <1>4, <1>5, <1>7, <2>1, <2>2 DEF OwnedOnce
<1>10. ASSUME NothingLost, H = heap => Flying = {}
       PROVE  NothingLost'
  <2>1. ASSUME NEW a \in Box, heap'[a] # Unused, a # b
        PROVE  a \in wrappers
    <3>1. H[a] # Unused /\ heap[a] # Unused
      BY <1>1, <1>2, <2>1
    <3>. QED
      BY <1>1, <1>10, <3>1 DEF NothingLost, Owned
  <2>. QED
    BY <1>2, <1>4, <2>1 DEF NothingLost, Owned
<1>. QED
  BY <1>3, <1>6, <1>8, <1>9, <1>10 DEF Owning

(* A value is boxed for Rust. *)
LEMMA ConvertOwns ==
  ASSUME Owning, call \in Call, HeapType', NEW c, Convert(c), UNCHANGED <<wrappers, unbound>>
  PROVE  /\ Owning' /\ Kept
         /\ NothingLost => NothingLost'
<1>1. /\ \A w \in wrappers \cup Flying : heap[w] # Unused
      /\ call.err # NoBox => heap[call.err] # Unused
      /\ \A w \in wrappers : w \notin Flying
      /\ call.err \notin wrappers /\ call.err \notin Flying
      /\ \A i, j \in DOMAIN call.conv :
           i # j => call.conv[i].box = NoBox \/ call.conv[i].box # call.conv[j].box
      /\ wrappers \subseteq Box /\ Flying \subseteq Box /\ NoBox \notin Flying
      /\ call.err \in Box \cup {NoBox} /\ NoBox \notin Box
  BY OwnedOnceFacts, FlyingType, CallFields, ValuesAssumption DEF Owning, WrapType
<1>2. /\ c \in CValue /\ call'.conv = Append(call.conv, c) /\ call'.err = call.err
  BY DEF Convert, Call
<1>3. Flying' = Flying \cup ({c.box} \ {NoBox})
  BY <1>2, FlyingMore
<1>4. \/ c.box = NoBox /\ heap' = heap
      \/ /\ c.box \in Box /\ c.box # NoBox
         /\ heap[c.box] = Unused /\ heap'[c.box] # Unused
         /\ \A a \in Box : a # c.box => heap'[a] = heap[a]
  BY DEF Convert
<1>5. \A w \in wrappers \cup Flying : w # c.box /\ heap'[w] = heap[w]
  BY <1>1, <1>4
<1>6. WrappersOK' /\ Kept /\ WrapType'
  BY <1>5 DEF Owning, WrappersOK, Kept, WrapType
<1>7. OwnedOnce'
  <2>1. \A i, j \in DOMAIN call'.conv :
          i # j => call'.conv[i].box = NoBox \/ call'.conv[i].box # call'.conv[j].box
    <3>1. PICK n : n = Len(call.conv) + 1
      OBVIOUS
    <3>2. /\ call'.conv[n] = c
          /\ \A i \in DOMAIN call.conv : call'.conv[i] = call.conv[i]
          /\ \A i \in DOMAIN call'.conv : i \in DOMAIN call.conv \/ i = n
      BY <1>2, <3>1, CallFields, AppendFacts
    <3>3. \A i \in DOMAIN call.conv : call.conv[i].box = NoBox \/ call.conv[i].box # c.box
      BY <1>5 DEF Flying
    <3>. QED
      BY <1>1, <3>2, <3>3
  <2>2. call.err # NoBox => call.err # c.box /\ heap'[call.err] = heap[call.err]
    BY <1>1, <1>4
  <2>. QED
    BY <1>1, <1>2, <1>3, <1>4, <1>5, <2>1, <2>2 DEF OwnedOnce, Owned
<1>8. NothingLost => NothingLost'
  BY <1>2, <1>3, <1>4 DEF NothingLost, Owned
<1>. QED
  BY <1>6, <1>7, <1>8 DEF Owning

(* Nothing changes hands, or Rust drops all it was given. *)
LEMMA QuietOwns ==
  ASSUME Owning, call \in Call, call'.err = call.err, UNCHANGED <<wrappers, unbound>>,
         \/ heap' = heap /\ call'.conv \in {call.conv, <<>>}
         \/ heap' = Free(heap, Flying) /\ call'.conv = <<>>
  PROVE  /\ Owning' /\ Kept
         /\ NothingLost /\ (heap' = heap => Flying' = Flying) => NothingLost'
<1>1. PICK H : H = heap'
  OBVIOUS
<1>2. H = heap \/ H = Free(heap, Flying)
  BY <1>1
<1>3. /\ H \in [Box -> Alloc]
      /\ \A w \in wrappers : H[w] = heap[w] /\ H[w] # Unused
      /\ call.err # NoBox => H[call.err] = heap[call.err] /\ H[call.err] # Unused
      /\ \A w \in Box : H[w] # Unused => heap[w] # Unused
      /\ H = Free(heap, Flying) => \A w \in Flying : H[w] = Unused
  BY <1>2, DropFacts
<1>4. /\ \A w \in wrappers \cup Flying : heap[w] # Unused
      /\ \A w \in wrappers : w \notin Flying
      /\ call.err \notin wrappers /\ call.err \notin Flying
      /\ \A i, j \in DOMAIN call.conv :
           i # j => call.conv[i].box = NoBox \/ call.conv[i].box # call.conv[j].box
      /\ wrappers \subseteq Box
  BY OwnedOnceFacts DEF Owning, WrapType
<1>5. \/ Flying' = Flying /\ call'.conv = call.conv /\ H = heap
      \/ Flying' = {} /\ call'.conv = <<>>
  BY <1>1, FlyingSame, FlyingNone
<1>6. HeapType' /\ WrapType' /\ WrappersOK' /\ Kept
  BY <1>1, <1>3 DEF Owning, HeapType, WrapType, WrappersOK, Kept
<1>7. OwnedOnce'
  <2>1. \A i, j \in DOMAIN call'.conv :
          i # j => call'.conv[i].box = NoBox \/ call'.conv[i].box # call'.conv[j].box
    BY <1>4, <1>5, EmptyFacts
  <2>. QED
    BY <1>1, <1>3, <1>4, <1>5, <2>1 DEF OwnedOnce, Owned
<1>8. ASSUME NothingLost, heap' = heap => Flying' = Flying
      PROVE  NothingLost'
  <2>1. ASSUME NEW a \in Box, H[a] # Unused
        PROVE  a \in wrappers \cup Flying' \cup ({call.err} \ {NoBox})
    <3>1. a \in wrappers \cup Flying \cup ({call.err} \ {NoBox})
      BY <1>3, <1>8, <2>1 DEF NothingLost, Owned
    <3>. QED
      BY <1>1, <1>2, <1>3, <1>8, <2>1, <3>1
  <2>. QED
    BY <1>1, <2>1 DEF NothingLost, Owned
<1>. QED
  BY <1>6, <1>7, <1>8 DEF Owning

(* CloseValue: a wrapper and what it owns go together. *)
LEMMA CloseOwns ==
  ASSUME Owning, call \in Call, NEW b \in wrappers, CloseValue(b)
  PROVE  /\ Owning' /\ call' \in Call
         /\ \A w \in wrappers : w # b => w \in wrappers' /\ heap'[w] = heap[w]
         /\ call'.err = call.err /\ call'.pc = call.pc /\ call'.op = call.op
         /\ call'.conv = call.conv /\ call'.given = call.given /\ call'.got = call.got
         /\ Len(call'.todo) = Len(call.todo) /\ DOMAIN call'.todo = DOMAIN call.todo
         /\ \A i \in DOMAIN call.todo :
              call'.todo[i] = IF call.todo[i].box = b THEN Unusable ELSE call.todo[i]
         /\ NothingLost => NothingLost'
<1>1. /\ \A w \in wrappers \cup Flying : heap[w] # Unused
      /\ call.err # NoBox => heap[call.err] # Unused
      /\ \A w \in wrappers : w \notin Flying
      /\ call.err \notin wrappers /\ call.err \notin Flying
      /\ \A i, j \in DOMAIN call.conv :
           i # j => call.conv[i].box = NoBox \/ call.conv[i].box # call.conv[j].box
      /\ wrappers \subseteq Box /\ Flying \subseteq Box
      /\ call.err \in Box \cup {NoBox} /\ NoBox \notin Box
  BY OwnedOnceFacts, FlyingType, CallFields, ValuesAssumption DEF Owning, WrapType
<1>2. /\ wrappers' = wrappers \ {b} /\ unbound' = unbound \ {b} /\ heap' = Free(heap, {b})
  BY DEF CloseValue
<1>3. /\ heap' \in [Box -> Alloc]
      /\ \A w \in Box : heap'[w] = IF w = b THEN Unused ELSE heap[w]
  BY <1>2, FreeFacts DEF Owning
<1>4. PICK s : s = [i \in DOMAIN call.todo |->
                      IF call.todo[i].box = b THEN Unusable ELSE call.todo[i]]
  OBVIOUS
<1>5. s \in Seq(Value) /\ Len(s) = Len(call.todo) /\ DOMAIN s = DOMAIN call.todo
  <2>1. /\ Len(call.todo) \in Nat /\ DOMAIN call.todo = 1 .. Len(call.todo)
        /\ \A i \in DOMAIN call.todo : call.todo[i] \in Value
    BY CallFields, SeqFacts
  <2>2. Unusable \in Value
    BY DEF Unusable, Value
  <2>3. s \in [1 .. Len(call.todo) -> Value]
    BY <1>4, <2>1, <2>2
  <2>. QED
    BY <2>1, <2>3, FunIsSeq
<1>6. call' = [call EXCEPT !.todo = s]
  BY <1>4 DEF CloseValue
<1>7. /\ call' \in Call /\ call'.todo = s
      /\ call'.err = call.err /\ call'.pc = call.pc /\ call'.op = call.op
      /\ call'.conv = call.conv /\ call'.given = call.given /\ call'.got = call.got
  BY <1>5, <1>6 DEF Call
<1>8. Flying' = Flying
  BY <1>7, FlyingSame
<1>9. HeapType' /\ WrapType' /\ WrappersOK'
  BY <1>1, <1>2, <1>3 DEF Owning, HeapType, WrapType, WrappersOK
<1>10. OwnedOnce'
  BY <1>1, <1>2, <1>3, <1>7, <1>8 DEF OwnedOnce, Owned
<1>11. NothingLost => NothingLost'
  BY <1>2, <1>3, <1>7, <1>8 DEF NothingLost, Owned
<1>12. \A w \in wrappers : w # b => w \in wrappers' /\ heap'[w] = heap[w]
  BY <1>1, <1>2, <1>3
<1>13. \A i \in DOMAIN call.todo :
         call'.todo[i] = IF call.todo[i].box = b THEN Unusable ELSE call.todo[i]
  BY <1>4, <1>7
<1>14. Len(call'.todo) = Len(call.todo) /\ DOMAIN call'.todo = DOMAIN call.todo
  BY <1>5, <1>7
<1>. QED
  BY <1>7, <1>9, <1>10, <1>11, <1>12, <1>13, <1>14 DEF Owning

(* moveErrorToGoError frees the string. *)
LEMMA TakeErrorOwns ==
  ASSUME Owning, call \in Call, call.err # NoBox, TakeError
  PROVE  /\ Owning' /\ Kept /\ call' \in Call
         /\ call' = [call EXCEPT !.pc = "idle", !.err = NoBox]
         /\ NothingLost => NothingLost'
<1>1. /\ \A w \in wrappers \cup Flying : heap[w] # Unused
      /\ \A w \in wrappers : w \notin Flying
      /\ call.err \notin wrappers /\ call.err \notin Flying
      /\ \A i, j \in DOMAIN call.conv :
           i # j => call.conv[i].box = NoBox \/ call.conv[i].box # call.conv[j].box
      /\ wrappers \subseteq Box /\ Flying \subseteq Box /\ NoBox \notin Flying
      /\ NoBox \notin Box
  BY OwnedOnceFacts, FlyingType, ValuesAssumption DEF Owning, WrapType
<1>2. /\ heap' = Free(heap, {call.err}) /\ UNCHANGED <<wrappers, unbound>>
      /\ call' = [call EXCEPT !.pc = "idle", !.err = NoBox]
  BY DEF TakeError
<1>3. /\ heap' \in [Box -> Alloc]
      /\ \A w \in Box : heap'[w] = IF w = call.err THEN Unused ELSE heap[w]
  BY <1>2, FreeFacts DEF Owning
<1>4. call' \in Call /\ call'.conv = call.conv /\ call'.err = NoBox
  BY <1>2 DEF Call, PC
<1>5. Flying' = Flying
  BY <1>4, FlyingSame
<1>6. HeapType' /\ WrapType' /\ WrappersOK' /\ Kept
  BY <1>1, <1>2, <1>3 DEF Owning, HeapType, WrapType, WrappersOK, Kept
<1>7. OwnedOnce'
  BY <1>1, <1>2, <1>3, <1>4, <1>5 DEF OwnedOnce, Owned
<1>8. NothingLost => NothingLost'
  BY <1>2, <1>3, <1>4, <1>5 DEF NothingLost, Owned
<1>. QED
  BY <1>2, <1>4, <1>6, <1>7, <1>8 DEF Owning

-----------------------------------------------------------------------------
(* The invariant, action by action *)

Base == Owning /\ call \in Call /\ ListsType /\ TodoOK /\ StagesOK /\ ListsOK

LEMMA BaseParts == Base <=> TypeOK /\ ShapeOK /\ OwnedOnce
  BY TypeParts DEF Base, ShapeOK, Owning

LEMMA ListFacts ==
  /\ \A s \in Seq(Datum) : s # NoList
  /\ ListsType => \A l \in List : lists[l] # NoList => lists[l] \in Seq(Datum)
  BY ValuesAssumption DEF ListsType

LEMMA TodoKept ==
  ASSUME Base, Kept,
         \/ call'.todo = call.todo
         \/ call'.todo = <<>>
         \/ call.todo # <<>> /\ call'.todo = Tail(call.todo)
  PROVE  TodoOK'
<1>1. \A i \in DOMAIN call'.todo : \E j \in DOMAIN call.todo : call'.todo[i] = call.todo[j]
  <2>1. CASE call'.todo = call.todo
    BY <2>1
  <2>2. CASE call'.todo = <<>>
    BY <2>2, EmptyFacts
  <2>3. CASE call.todo # <<>> /\ call'.todo = Tail(call.todo)
    <3>1. \A i \in DOMAIN Tail(call.todo) :
            i + 1 \in DOMAIN call.todo /\ Tail(call.todo)[i] = call.todo[i + 1]
      BY <2>3, CallFields, TailFacts DEF Base
    <3>. QED
      BY <2>3, <3>1
  <2>. QED
    BY <2>1, <2>2, <2>3
<1>2. ASSUME NEW i \in DOMAIN call'.todo, call'.todo[i].box # NoBox
      PROVE  /\ call'.todo[i].box \in wrappers'
             /\ heap'[call'.todo[i].box].datum = call'.todo[i].datum
  <2>1. PICK j \in DOMAIN call.todo : call'.todo[i] = call.todo[j]
    BY <1>1
  <2>2. call.todo[j].box \in wrappers /\ heap[call.todo[j].box].datum = call.todo[j].datum
    BY <1>2, <2>1 DEF Base, TodoOK
  <2>. QED
    BY <2>1, <2>2 DEF Kept
<1>. QED
  BY <1>2 DEF TodoOK

(* What is idle has nothing in flight. *)
LEMMA IdleFacts ==
  ASSUME Base, call.pc = "idle"
  PROVE  call.conv = <<>> /\ call.err = NoBox
  BY DEF Base, StagesOK

LEMMA WrapGains ==
  ASSUME HeapType, WrapType, NEW d \in Datum, NEW b \in Target(heap, d), NEW lua,
         Wrap(heap, d, b, lua)
  PROVE  HeapType' /\ WrapType' /\ Gains(heap, d, b)
<1>1. heap \in [Box -> Alloc]
  BY DEF HeapType
<1>. QED
  BY <1>1, WrapFacts DEF Gains

LEMMA ReceiveInv ==
  ASSUME Base, NEW d \in Datum, Receive(d)
  PROVE  Base' /\ (NothingLost => NothingLost')
<1>1. PICK b \in Target(heap, d) : Wrap(heap, d, b, TRUE)
  BY DEF Receive
<1>2. UNCHANGED <<call, lists>> /\ HeapType /\ WrapType
  BY DEF Receive, Base, Owning
<1>3. HeapType' /\ WrapType' /\ Gains(heap, d, b)
  BY <1>1, <1>2, WrapGains
<1>4. Owning' /\ Kept /\ (NothingLost => NothingLost')
  BY <1>2, <1>3, GainOwns, FlyingSame DEF Base
<1>5. TodoOK'
  BY <1>2, <1>4, TodoKept
<1>. QED
  BY <1>2, <1>4, <1>5 DEF Base, ListsType, StagesOK, ListsOK, MultiReleased, During, PanickedOn

LEMMA ReceivePanicsInv ==
  ASSUME Base, NEW d \in Datum, ReceivePanics(d)
  PROVE  Base' /\ (NothingLost => NothingLost')
<1>1. /\ call.pc = "idle" /\ call' = [NoCall EXCEPT !.op = "each", !.pc = "panicked"]
      /\ lists' = [l \in List |-> NoList] /\ UNCHANGED <<heap, wrappers, unbound>>
  BY DEF ReceivePanics
<1>2. call.conv = <<>> /\ call.err = NoBox
  BY <1>1, IdleFacts
<1>3. /\ call' \in Call /\ call'.op = "each" /\ call'.pc = "panicked"
      /\ call'.conv = <<>> /\ call'.todo = <<>> /\ call'.err = NoBox
  BY <1>1, EmptyFacts DEF NoCall, Call, PC
<1>4. Owning' /\ Kept /\ (NothingLost => NothingLost')
  BY <1>1, <1>2, <1>3, QuietOwns, FlyingSame DEF Base
<1>5. TodoOK'
  BY <1>3, <1>4, TodoKept
<1>6. StagesOK'
  BY <1>3 DEF StagesOK
<1>7. ListsOK' /\ ListsType'
  BY <1>1, <1>3 DEF ListsOK, MultiReleased, During, List, ListsType
<1>. QED
  BY <1>3, <1>4, <1>5, <1>6, <1>7 DEF Base

LEMMA CloseInv ==
  ASSUME Base, NEW b \in Box, CloseValue(b)
  PROVE  Base' /\ (NothingLost => NothingLost')
<1>1. b \in wrappers /\ UNCHANGED lists /\ b # NoBox
  BY ValuesAssumption DEF CloseValue
<1>2. /\ Owning' /\ call' \in Call
      /\ \A w \in wrappers : w # b => w \in wrappers' /\ heap'[w] = heap[w]
      /\ call'.err = call.err /\ call'.pc = call.pc /\ call'.op = call.op
      /\ call'.conv = call.conv /\ DOMAIN call'.todo = DOMAIN call.todo
      /\ \A i \in DOMAIN call.todo :
           call'.todo[i] = IF call.todo[i].box = b THEN Unusable ELSE call.todo[i]
      /\ NothingLost => NothingLost'
  BY <1>1, CloseOwns DEF Base
<1>3. TodoOK'
  <2>1. ASSUME NEW i \in DOMAIN call'.todo, call'.todo[i].box # NoBox
        PROVE  /\ call'.todo[i].box \in wrappers'
               /\ heap'[call'.todo[i].box].datum = call'.todo[i].datum
    <3>1. call.todo[i].box # b /\ call'.todo[i] = call.todo[i] /\ i \in DOMAIN call.todo
      BY <1>2, <2>1 DEF Unusable
    <3>. QED
      BY <1>2, <2>1, <3>1 DEF Base, TodoOK
  <2>. QED
    BY <2>1 DEF TodoOK
<1>4. StagesOK'
  <2>1. \A i \in DOMAIN call.todo : call.todo[i] \in GoStrings => call'.todo[i] = call.todo[i]
    BY <1>1, <1>2, GoStringFacts
  <2>. QED
    BY <1>2, <2>1 DEF Base, StagesOK
<1>5. ListsOK' /\ ListsType'
  <2>1. \A i \in DOMAIN call.todo :
          call.todo[i] \in HollowValues => call'.todo[i] = call.todo[i]
    BY <1>1, <1>2, HollowFacts
  <2>2. PanickedOn \subseteq PanickedOn'
    BY <1>2, <2>1 DEF PanickedOn, HollowValues
  <2>. QED
    BY <1>1, <1>2, <2>2 DEF Base, ListsOK, MultiReleased, During, ListsType
<1>. QED
  BY <1>2, <1>3, <1>4, <1>5 DEF Base

LEMMA PassableFacts ==
  ASSUME HeapType, WrapType, NEW v \in Passable \cup GoStrings
  PROVE  /\ v \in Value
         /\ v.box # NoBox => v.box \in wrappers /\ heap[v.box].datum = v.datum
<1>1. CASE v \in {[box |-> b, datum |-> heap[b].datum] : b \in wrappers}
  <2>1. PICK b \in wrappers : v = [box |-> b, datum |-> heap[b].datum]
    BY <1>1
  <2>2. b \in Box /\ heap[b] \in Alloc
    BY DEF HeapType, WrapType
  <2>3. heap[b].datum \in Datum \cup {NoDatum}
    BY <2>2, AllocFacts
  <2>. QED
    BY <2>1, <2>2, <2>3 DEF Value
<1>2. CASE v \in Scalars \cup GoStrings \cup {Unusable}
  BY <1>2 DEF Scalars, GoStrings, Unusable, Value
<1>3. CASE v \in HollowValues
  BY <1>3, HollowFacts
<1>. QED
  BY <1>1, <1>2, <1>3 DEF Passable

LEMMA ArgsFacts ==
  ASSUME HeapType, WrapType, NEW op \in {"one", "two", "many", "chunk"}, NEW s \in Args(op)
  PROVE  /\ s \in Seq(Value)
         /\ op = "one" => Len(s) = 1
         /\ op = "chunk" => Len(s) = 2 /\ \A i \in DOMAIN s : s[i] \in GoStrings
         /\ \A i \in DOMAIN s : s[i].box # NoBox =>
              s[i].box \in wrappers /\ heap[s[i].box].datum = s[i].datum
<1>1. PICK n \in Nat : /\ s \in [1 .. n -> Passable \cup GoStrings]
                       /\ op = "one" => n = 1
                       /\ op = "chunk" => n = 2 /\ s \in [1 .. n -> GoStrings]
  <2>1. CASE op = "one"
    <3>1. s \in [1 .. 1 -> Passable \cup GoStrings]
      BY <2>1 DEF Args
    <3>. QED
      BY <2>1, <3>1
  <2>2. CASE op = "two"
    <3>1. s \in [1 .. 2 -> Passable \cup GoStrings]
      BY <2>2 DEF Args
    <3>. QED
      BY <2>2, <3>1
  <2>3. CASE op = "many"
    <3>1. PICK n \in 0 .. MaxArgs : s \in [1 .. n -> Passable]
      BY <2>3 DEF Args
    <3>2. n \in Nat /\ s \in [1 .. n -> Passable \cup GoStrings]
      BY <3>1, ValuesAssumption
    <3>. QED
      BY <2>3, <3>2
  <2>4. CASE op = "chunk"
    <3>1. s \in [1 .. 2 -> GoStrings] /\ s \in [1 .. 2 -> Passable \cup GoStrings]
      BY <2>4 DEF Args
    <3>. QED
      BY <2>4, <3>1
  <2>. QED
    BY <2>1, <2>2, <2>3, <2>4
<1>2. DOMAIN s = 1 .. n /\ \A i \in 1 .. n : s[i] \in Passable \cup GoStrings
  BY <1>1
<1>3. \A i \in 1 .. n : /\ s[i] \in Value
                        /\ s[i].box # NoBox =>
                             s[i].box \in wrappers /\ heap[s[i].box].datum = s[i].datum
  BY <1>2, PassableFacts
<1>4. s \in [1 .. n -> Value]
  BY <1>1, <1>3
<1>5. s \in Seq(Value) /\ Len(s) = n
  BY <1>4, FunIsSeq
<1>. QED
  BY <1>1, <1>2, <1>3, <1>5

LEMMA BeginInv ==
  ASSUME Base, NEW op \in Op, Begin(op)
  PROVE  Base' /\ (NothingLost => NothingLost')
<1>1. /\ call.pc = "idle" /\ op \in {"one", "two", "many", "chunk"}
      /\ lists' = [l \in List |-> IF l = "call" /\ op = "many" THEN <<>> ELSE NoList]
      /\ UNCHANGED <<heap, wrappers, unbound>>
  BY ValuesAssumption DEF Begin
<1>2. PICK r \in Receiver(op), s \in Args(op) :
        call' = [NoCall EXCEPT !.op = op, !.recv = r, !.pc = "convert", !.todo = s,
                               !.given = [i \in DOMAIN s |-> s[i].datum]]
  BY DEF Begin
<1>. DEFINE g == [i \in DOMAIN s |-> s[i].datum]
<1>3. /\ call.conv = <<>> /\ call.err = NoBox
      /\ HeapType /\ WrapType /\ ListsType
  BY <1>1, IdleFacts DEF Base, Owning
<1>4. /\ s \in Seq(Value)
      /\ op = "chunk" => \A i \in DOMAIN s : s[i] \in GoStrings
      /\ \A i \in DOMAIN s : s[i].box # NoBox =>
           s[i].box \in wrappers /\ heap[s[i].box].datum = s[i].datum
  BY <1>1, <1>3, ArgsFacts
<1>5. r \in Box \cup {NoBox}
  BY <1>3 DEF Receiver, WrapType
<1>6. g \in Seq(Datum \cup {NoDatum} \cup Hollow)
  <2>1. PICK n \in Nat : s \in [1 .. n -> Value]
    BY <1>4, SeqFacts, SeqDef
  <2>2. \A v \in Value : v.datum \in Datum \cup {NoDatum} \cup Hollow
    BY DEF Value
  <2>3. g \in [1 .. n -> Datum \cup {NoDatum} \cup Hollow]
    BY <1>2, <2>1, <2>2
  <2>. QED
    BY <2>3, FunIsSeq
<1>7. /\ call' \in Call /\ call'.op = op /\ call'.pc = "convert"
      /\ call'.conv = <<>> /\ call'.todo = s /\ call'.err = NoBox
  BY <1>1, <1>2, <1>4, <1>5, <1>6, EmptyFacts DEF NoCall, Call, PC
<1>8. Owning' /\ Kept /\ (NothingLost => NothingLost')
  BY <1>1, <1>3, <1>7, QuietOwns, FlyingSame DEF Base
<1>9. TodoOK'
  BY <1>1, <1>4, <1>7 DEF TodoOK
<1>10. StagesOK'
  BY <1>1, <1>4, <1>7, EmptyFacts DEF StagesOK
<1>11. ListsOK' /\ ListsType'
  <2>1. <<>> \in Seq(Datum)
    BY EmptyFacts
  <2>2. <<>> # NoList
    BY <2>1, ListFacts
  <2>. QED
    BY <1>1, <1>3, <1>7, <2>1, <2>2 DEF ListsOK, MultiReleased, During, ListsType, List
<1>. QED
  BY <1>7, <1>8, <1>9, <1>10, <1>11 DEF Base

LEMMA ConvertInv ==
  ASSUME Base, Converts
  PROVE  Base' /\ (NothingLost => NothingLost')
<1>1. /\ TypeOK /\ WrappersOK /\ TodoOK /\ call \in Call /\ StagesOK /\ Owning
  BY BaseParts DEF Base, Owning
<1>2. Converting /\ call.todo # <<>> /\ call.pc \in {"convert", "results"}
  BY DEF Converts, ConvertWrapper, ConvertGoString, ConvertScalar, ConvertChunkString, Converting
<1>3. Head(call.todo) = call.todo[1] /\ 1 \in DOMAIN call.todo
  BY <1>1, <1>2, CallFields, TailFacts
<1>4. call.op = "chunk" => Head(call.todo) \in GoStrings
  BY <1>1, <1>2, <1>3 DEF StagesOK
<1>5. HeapType' /\ call' \in Call /\ UNCHANGED <<wrappers, unbound, lists>>
  BY <1>1, <1>4, ConvertStep
<1>6. PICK c : Convert(c)
  BY <1>1, <1>4, ConvertStep
<1>7. Owning' /\ Kept /\ (NothingLost => NothingLost')
  BY <1>1, <1>5, <1>6, ConvertOwns
<1>8. /\ c \in CValue /\ call'.todo = Tail(call.todo) /\ call'.conv = Append(call.conv, c)
      /\ call'.op = call.op /\ call'.pc = call.pc /\ call'.err = call.err
  BY <1>1, <1>6 DEF Convert, Call
<1>9. TodoOK'
  BY <1>2, <1>7, <1>8, TodoKept
<1>10. StagesOK'
  <2>1. call.op = "many" => Len(call'.conv) = 1
    <3>1. call.op = "many" => call.conv = <<>>
      BY <1>2 DEF Converting
    <3>. QED
      BY <1>8, <3>1, EmptyFacts, AppendFacts
  <2>2. \A i \in DOMAIN Tail(call.todo) : \E j \in DOMAIN call.todo :
          Tail(call.todo)[i] = call.todo[j]
    BY <1>1, <1>2, CallFields, TailFacts
  <2>. QED
    BY <1>1, <1>2, <1>8, <2>1, <2>2 DEF StagesOK
<1>11. ListsOK' /\ ListsType'
  BY <1>2, <1>5, <1>8 DEF Base, ListsOK, MultiReleased, During, ListsType
<1>. QED
  BY <1>5, <1>7, <1>9, <1>10, <1>11 DEF Base

(* The three ways in which a call ends early: with an error from Rust, ...   *)
LEMMA FailInv ==
  ASSUME Base, call.err = NoBox, NEW H, H = heap \/ H = Free(heap, Flying), Fail(H),
         UNCHANGED <<wrappers, unbound>>, ListsType', \A l \in List : lists'[l] = NoList
  PROVE  Base' /\ (NothingLost /\ (H = heap => Flying = {}) => NothingLost')
<1>1. /\ Owning' /\ Kept /\ call' \in Call
      /\ NothingLost /\ (H = heap => Flying = {}) => NothingLost'
  BY FailOwns DEF Base
<1>2. PICK b \in New(H) :
        call' = [call EXCEPT !.pc = "error", !.todo = <<>>, !.conv = <<>>, !.err = b]
  BY DEF Fail
<1>3. /\ call'.pc = "error" /\ call'.todo = <<>> /\ call'.conv = <<>> /\ call'.err # NoBox
      /\ call'.op = call.op
  BY <1>2, ValuesAssumption DEF Base, Call, New
<1>4. TodoOK'
  BY <1>1, <1>3, TodoKept
<1>5. StagesOK'
  BY <1>3, EmptyFacts DEF StagesOK
<1>6. ListsOK'
  BY <1>3 DEF ListsOK, MultiReleased, During, List
<1>. QED
  BY <1>1, <1>4, <1>5, <1>6 DEF Base

(* ... given up in Go, ...                                                   *)
LEMMA GiveUpInv ==
  ASSUME Base, call.pc = "convert", GiveUp
  PROVE  Base' /\ (NothingLost /\ call.conv = <<>> => NothingLost')
<1>1. /\ call' = [call EXCEPT !.pc = "idle", !.todo = <<>>, !.conv = <<>>]
      /\ lists' = [lists EXCEPT !["call"] = NoList]
      /\ UNCHANGED <<heap, wrappers, unbound>> /\ call.err = NoBox
  BY DEF GiveUp, Base, StagesOK
<1>2. /\ call' \in Call /\ call'.pc = "idle" /\ call'.todo = <<>> /\ call'.conv = <<>>
      /\ call'.op = call.op /\ call'.err = call.err
  BY <1>1, EmptyFacts DEF Base, Call, PC
<1>3. Owning' /\ Kept /\ (NothingLost /\ call.conv = <<>> => NothingLost')
  BY <1>1, <1>2, QuietOwns, FlyingSame DEF Base
<1>4. TodoOK'
  BY <1>2, <1>3, TodoKept
<1>5. StagesOK'
  BY <1>1, <1>2, EmptyFacts DEF StagesOK
<1>6. ListsOK' /\ ListsType'
  BY <1>1, <1>2 DEF Base, ListsOK, MultiReleased, During, ListsType, List
<1>. QED
  BY <1>2, <1>3, <1>4, <1>5, <1>6 DEF Base

(* ... or with a panic, out of a method ...                                  *)
LEMMA PanicsOutInv ==
  ASSUME Base, call.pc = "convert", PanicsOut
  PROVE  Base' /\ (NothingLost /\ call.conv = <<>> => NothingLost')
<1>1. /\ call' = [call EXCEPT !.pc = "panicked", !.todo = <<>>, !.conv = <<>>]
      /\ UNCHANGED <<heap, wrappers, unbound, lists>> /\ call.err = NoBox
  BY DEF PanicsOut, Base, StagesOK
<1>2. /\ call' \in Call /\ call'.pc = "panicked" /\ call'.todo = <<>> /\ call'.conv = <<>>
      /\ call'.op = call.op /\ call'.err = call.err
  BY <1>1, EmptyFacts DEF Base, Call, PC
<1>3. Owning' /\ Kept /\ (NothingLost /\ call.conv = <<>> => NothingLost')
  BY <1>1, <1>2, QuietOwns, FlyingSame DEF Base
<1>4. TodoOK'
  BY <1>2, <1>3, TodoKept
<1>5. StagesOK'
  BY <1>1, <1>2, EmptyFacts DEF StagesOK
<1>6. ListsOK' /\ ListsType'
  BY <1>1, <1>2 DEF Base, ListsOK, MultiReleased, During, ListsType
<1>. QED
  BY <1>2, <1>3, <1>4, <1>5, <1>6 DEF Base

(* ... or recovered in CreateFunction's closure, which forgets its results.  *)
LEMMA PanicRecoveredInv ==
  ASSUME Base, ConvertPanics, call.pc = "results"
  PROVE  Base' /\ (NothingLost => NothingLost')
<1>. DEFINE h == Head(call.todo)
<1>1. /\ call.op = "many" /\ call.todo # <<>> /\ call.conv = <<>> /\ call.err = NoBox
      /\ call \in Call /\ ListsType /\ h \in HollowValues
  BY DEF ConvertPanics, Converting, Panics, HasLua, Base, StagesOK
<1>2. PICK b \in New(heap) :
        /\ heap' = [heap EXCEPT ![b] = ErrorString]
        /\ call' = [call EXCEPT !.pc = "error", !.todo = <<h>>, !.err = b]
  BY DEF ConvertPanics, PanicRecovered
<1>3. lists' = [lists EXCEPT !["args"] = NoList] /\ UNCHANGED <<wrappers, unbound>>
  BY DEF ConvertPanics, PanicRecovered
<1>4. PICK x : x = [call EXCEPT !.pc = "error", !.todo = <<>>, !.conv = <<>>, !.err = b]
  OBVIOUS
<1>5. h \in Value /\ h.box = NoBox
  BY <1>1, HollowFacts
<1>6. PICK t \in Seq(Value) : t = <<h>> /\ DOMAIN t = 1 .. 1 /\ t[1] = h
  <2>1. <<h>> \in Seq(Value) /\ Len(<<h>>) = 1 /\ <<h>>[1] = h
    BY <1>5
  <2>. QED
    BY <2>1, SeqFacts
<1>7. b \in Box /\ b # NoBox /\ heap[b] = Unused /\ heap' \in [Box -> Alloc]
      /\ \A c \in Box : heap'[c] = IF c = b THEN ErrorString ELSE heap[c]
  BY <1>2, NewFacts, AllocFacts DEF Base, Owning, HeapType
<1>8. /\ call' \in Call /\ call'.pc = "error" /\ call'.todo = t /\ call'.conv = <<>>
      /\ call'.op = "many" /\ call'.err = b
  BY <1>1, <1>2, <1>6, <1>7 DEF Call, PC
<1>9. Flying = {} /\ Flying' = {}
  BY <1>1, <1>8, NothingFlies, FlyingNone
<1>10. /\ \A w \in wrappers : w # b /\ w \in Box /\ heap[w] # Unused /\ heap'[w] = heap[w]
       /\ wrappers' = wrappers /\ unbound' = unbound
  BY <1>1, <1>3, <1>7, OwnedOnceFacts DEF Base, Owning, WrapType
<1>11. HeapType' /\ WrapType' /\ WrappersOK'
  BY <1>7, <1>10 DEF Base, Owning, HeapType, WrapType, WrappersOK
<1>12. OwnedOnce'
  <2>1. \A i, j \in DOMAIN call'.conv : i = j
    BY <1>8, EmptyFacts
  <2>2. Owned' = wrappers \cup {b}
    BY <1>7, <1>8, <1>9, <1>10 DEF Owned
  <2>. QED
    BY <1>7, <1>8, <1>9, <1>10, <2>1, <2>2, AllocFacts DEF OwnedOnce
<1>13. NothingLost => NothingLost'
  BY <1>1, <1>7, <1>8, <1>9, <1>10 DEF NothingLost, Owned
<1>14. TodoOK'
  BY <1>5, <1>6, <1>8 DEF TodoOK
<1>15. StagesOK'
  BY <1>7, <1>8, EmptyFacts DEF StagesOK
<1>16. PanickedOn' # {}
  <2>1. 1 \in DOMAIN call'.todo /\ call'.todo[1] \in HollowValues
    BY <1>1, <1>6, <1>8
  <2>. QED
    BY <2>1 DEF PanickedOn, HollowValues
<1>17. ListsOK' /\ ListsType'
  BY <1>1, <1>3, <1>8, <1>16 DEF Base, ListsOK, MultiReleased, During, ListsType, List
<1>. QED
  BY <1>8, <1>11, <1>12, <1>13, <1>14, <1>15, <1>17 DEF Base, Owning

LEMMA ConvertPanicsInv ==
  ASSUME Base, ConvertPanics
  PROVE  Base' /\ (NothingLost /\ (call.pc = "convert" => call.conv = <<>>) => NothingLost')
<1>1. CASE call.pc = "results"
  BY <1>1, PanicRecoveredInv
<1>2. CASE call.pc = "convert"
  BY <1>2, PanicsOutInv DEF ConvertPanics
<1>. QED
  BY <1>1, <1>2 DEF ConvertPanics, Converting

LEMMA CallbackFailsInv ==
  ASSUME Base, call.pc \in {"args", "results"}, call.conv = <<>>, CallbackFails
  PROVE  Base' /\ (NothingLost => NothingLost')
<1>1. /\ Fail(heap) /\ UNCHANGED <<wrappers, unbound>> /\ call.err = NoBox
      /\ lists' = [lists EXCEPT !["args"] = NoList, !["out"] = NoList]
  BY DEF CallbackFails, Base, StagesOK
<1>2. Flying = {}
  BY NothingFlies
<1>3. lists["call"] = NoList /\ lists["rets"] = NoList
  BY DEF Base, ListsOK, MultiReleased, During
<1>4. ListsType' /\ \A l \in List : lists'[l] = NoList
  BY <1>1, <1>3 DEF Base, ListsType, List
<1>. QED
  BY <1>1, <1>2, <1>4, FailInv

(* A call of a function goes on to its next stage. *)
LEMMA MoveInv ==
  ASSUME Base, call.op = "many", call.conv = <<>>, call.err = NoBox,
         UNCHANGED <<heap, wrappers, unbound>>,
         NEW p \in {"idle", "take", "args", "results", "panicked"},
         call' \in {[call EXCEPT !.pc = p], [call EXCEPT !.pc = p, !.conv = <<>>]},
         ListsType', call'.op = "many" /\ call'.pc = p => ListsOK'
  PROVE  Base' /\ (NothingLost => NothingLost')
<1>1. /\ call' \in Call /\ call'.pc = p /\ call'.todo = call.todo /\ call'.conv = <<>>
      /\ call'.op = "many" /\ call'.err = NoBox
  BY EmptyFacts DEF Base, Call, PC
<1>2. Owning' /\ Kept /\ (NothingLost => NothingLost')
  BY <1>1, QuietOwns, FlyingSame DEF Base
<1>3. TodoOK'
  BY <1>1, <1>2, TodoKept
<1>4. StagesOK'
  BY <1>1, EmptyFacts DEF StagesOK
<1>. QED
  BY <1>1, <1>2, <1>3, <1>4 DEF Base

LEMMA DroppedAll ==
  ASSUME Owning, call \in Call, Free(heap, Flying) = heap
  PROVE  Flying = {}
<1>1. \A b \in Flying : Free(heap, Flying)[b] = Unused /\ heap[b] # Unused
  BY DropFacts, OwnedOnceFacts DEF Owning
<1>. QED
  BY <1>1

LEMMA ConvertFailsInv ==
  ASSUME Base, ConvertFails
  PROVE  Base' /\ (NothingLost /\ (call.pc = "convert" => call.conv = <<>>) => NothingLost')
<1>1. Converting /\ (IF call.pc = "results" THEN CallbackFails ELSE GiveUp)
  BY DEF ConvertFails
<1>2. CASE call.pc = "results"
  <2>1. call.conv = <<>>
    BY <1>1, <1>2 DEF Base, StagesOK, Converting
  <2>. QED
    BY <1>1, <1>2, <2>1, CallbackFailsInv
<1>3. CASE call.pc = "convert"
  BY <1>1, <1>3, GiveUpInv
<1>. QED
  BY <1>1, <1>2, <1>3 DEF Converting

LEMMA PushInv ==
  ASSUME Base, Push
  PROVE  Base' /\ (NothingLost => NothingLost')
<1>1. /\ call.op = "many" /\ call.pc \in {"convert", "results"} /\ call.conv # <<>>
      /\ heap' = Free(heap, Flying) /\ call' = [call EXCEPT !.conv = <<>>]
      /\ UNCHANGED <<wrappers, unbound>> /\ call \in Call
  BY DEF Push, Pushing, Base
<1>2. PICK l \in {"call", "out"} :
        /\ l = IF call.pc = "convert" THEN "call" ELSE "out"
        /\ lists' = [lists EXCEPT ![l] = Append(lists[l], Head(call.conv).datum)]
  BY DEF Push, Pushed
<1>3. /\ call' \in Call /\ call'.pc = call.pc /\ call'.todo = call.todo /\ call'.conv = <<>>
      /\ call'.op = "many" /\ call'.err = call.err
  BY <1>1, EmptyFacts DEF Call
<1>4. Head(call.conv).datum \in Datum
  <2>1. Head(call.conv) \in CValue
    BY <1>1, CallFields, TailFacts
  <2>. QED
    BY <2>1 DEF CValue
<1>5. lists[l] \in Seq(Datum)
  BY <1>1, <1>2, ListFacts DEF Base, ListsOK, List
<1>6. Append(lists[l], Head(call.conv).datum) \in Seq(Datum)
  BY <1>4, <1>5, AppendFacts
<1>7. Append(lists[l], Head(call.conv).datum) # NoList
  BY <1>6, ListFacts
<1>8. Owning' /\ Kept /\ (NothingLost => NothingLost')
  BY <1>1, <1>3, QuietOwns, FlyingNone, DroppedAll DEF Base
<1>9. TodoOK'
  BY <1>3, <1>8, TodoKept
<1>10. StagesOK'
  BY <1>3, EmptyFacts DEF Base, StagesOK
<1>11. ListsType'
  BY <1>2, <1>6 DEF Base, ListsType, List
<1>12. ListsOK'
  BY <1>1, <1>2, <1>3, <1>7 DEF Base, ListsType, List, ListsOK, MultiReleased, During
<1>. QED
  BY <1>3, <1>8, <1>9, <1>10, <1>11, <1>12 DEF Base

LEMMA InvokeMethodInv ==
  ASSUME Base, InvokeMethod
  PROVE  Base' /\ (NothingLost => NothingLost')
<1>. DEFINE H == Free(heap, Flying)
<1>1. /\ call.op \in {"one", "two"} /\ call.pc = "convert" /\ lists' = lists /\ call \in Call
      /\ call.err = NoBox
  BY DEF InvokeMethod, Ready, Base, StagesOK
<1>2. ListsType' /\ \A l \in List : lists'[l] = NoList
  BY <1>1 DEF Base, ListsType, ListsOK, MultiReleased, During, List
<1>3. heap = H => Flying = {}
  BY <1>1, DroppedAll DEF Base
<1>4. ASSUME NEW p \in {"idle", "panicked"}, Done(p), Owning', Kept
      PROVE  Base'
  <2>1. /\ call' \in Call /\ call'.pc = p /\ call'.todo = call.todo /\ call'.conv = <<>>
        /\ call'.op = call.op /\ call'.err = NoBox
    BY <1>1, <1>4, EmptyFacts DEF Done, Call, PC
  <2>2. TodoOK'
    BY <1>4, <2>1, TodoKept
  <2>3. StagesOK'
    BY <1>1, <2>1, EmptyFacts DEF StagesOK
  <2>4. ListsOK'
    BY <1>1, <1>2, <2>1 DEF ListsOK, MultiReleased, During, List
  <2>. QED
    BY <1>2, <1>4, <2>1, <2>2, <2>3, <2>4 DEF Base
<1>5. ASSUME NEW p \in {"idle", "panicked"}, Done(p)
      PROVE  call' \in Call /\ call'.conv = <<>> /\ call'.err = call.err
  BY <1>1, <1>5, EmptyFacts DEF Done, Call, PC
<1>6. CASE heap' = H /\ Done("idle") /\ UNCHANGED <<wrappers, unbound>>
  <2>1. Owning' /\ Kept /\ (NothingLost => NothingLost')
    BY <1>1, <1>3, <1>5, <1>6, QuietOwns, FlyingNone DEF Base
  <2>. QED
    BY <1>4, <1>6, <2>1
<1>7. CASE Fail(H) /\ UNCHANGED <<wrappers, unbound>>
  BY <1>1, <1>2, <1>3, <1>7, FailInv
<1>8. CASE \E d \in FromLua :
             /\ \E b \in Target(H, d) : Wrap(H, d, b, call.recv = NoBox)
             /\ Done(IF Faults(d) THEN "panicked" ELSE "idle")
  <2>1. PICK d \in Datum :
             /\ \E b \in Target(H, d) : Wrap(H, d, b, call.recv = NoBox)
             /\ Done(IF Faults(d) THEN "panicked" ELSE "idle")
    BY <1>8 DEF FromLua
  <2>2. PICK b \in Target(H, d) : Wrap(H, d, b, call.recv = NoBox)
    BY <2>1
  <2>3. PICK p \in {"idle", "panicked"} : Done(p)
    BY <2>1
  <2>4. H \in [Box -> Alloc] /\ WrapType
    BY <1>1, DropFacts DEF Base, Owning
  <2>5. HeapType' /\ WrapType' /\ Gains(H, d, b)
    BY <2>2, <2>4, WrapFacts DEF Gains
  <2>6. call' \in Call /\ call'.conv = <<>> /\ call'.err = call.err /\ Flying' = {}
    BY <1>5, <2>3, FlyingNone
  <2>7. Owning' /\ Kept /\ (NothingLost => NothingLost')
    BY <1>1, <1>3, <2>5, <2>6, GainOwns DEF Base
  <2>. QED
    BY <1>4, <2>3, <2>7
<1>. QED
  BY <1>6, <1>7, <1>8 DEF InvokeMethod

LEMMA InvokeChunkInv ==
  ASSUME Base, InvokeChunk
  PROVE  Base' /\ (NothingLost /\ call.conv[2].box # NoBox => NothingLost')
<1>1. /\ call.op = "chunk" /\ call.pc = "convert" /\ lists' = lists /\ call \in Call
      /\ call.err = NoBox
  BY DEF InvokeChunk, Ready, Base, StagesOK
<1>2. ListsType' /\ \A l \in List : lists'[l] = NoList
  BY <1>1 DEF Base, ListsType, ListsOK, MultiReleased, During, List
<1>3. heap = Free(heap, Flying) => Flying = {}
  BY <1>1, DroppedAll DEF Base
<1>4. PICK H : H = IF call.conv[2].box = NoBox THEN heap ELSE Free(heap, Flying)
  OBVIOUS
<1>5. CASE Fail(H) /\ UNCHANGED <<wrappers, unbound>>
  BY <1>1, <1>2, <1>3, <1>4, <1>5, FailInv
<1>6. CASE /\ call.conv[2].box # NoBox
           /\ \E d \in Datum, b \in New(H) :
                /\ KindOf[d] = "Function"
                /\ heap' = [H EXCEPT ![b] = Live("Function", d)]
                /\ wrappers' = wrappers \cup {b}
           /\ Done("idle")
           /\ UNCHANGED unbound
  <2>1. PICK d \in Datum, b \in New(H) :
          /\ KindOf[d] = "Function"
          /\ heap' = [H EXCEPT ![b] = Live("Function", d)]
          /\ wrappers' = wrappers \cup {b}
    BY <1>6
  <2>2. H = Free(heap, Flying) /\ H \in [Box -> Alloc] /\ WrapType
    BY <1>1, <1>4, <1>6, DropFacts DEF Base, Owning
  <2>3. PICK x : x = Live("Function", d)
    OBVIOUS
  <2>4. x \in Alloc /\ x # Unused /\ x.datum = d /\ x.type = KindOf[d]
    BY <2>1, <2>3, AllocFacts DEF Boxed
  <2>5. /\ b \in Box /\ b # NoBox /\ H[b] = Unused /\ heap' \in [Box -> Alloc]
        /\ \A c \in Box : heap'[c] = IF c = b THEN x ELSE H[c]
    BY <2>1, <2>2, <2>3, <2>4, NewFacts
  <2>6. HeapType' /\ WrapType'
    BY <1>6, <2>1, <2>2, <2>5 DEF HeapType, WrapType
  <2>7. Gains(H, d, b)
    BY <2>1, <2>4, <2>5 DEF Gains
  <2>8. /\ call' \in Call /\ call'.pc = "idle" /\ call'.todo = call.todo /\ call'.conv = <<>>
        /\ call'.op = call.op /\ call'.err = call.err
    BY <1>1, <1>6, EmptyFacts DEF Done, Call, PC
  <2>9. Flying' = {}
    BY <2>8, FlyingNone
  <2>10. Owning' /\ Kept /\ (NothingLost => NothingLost')
    BY <1>1, <1>3, <2>2, <2>6, <2>7, <2>8, <2>9, GainOwns DEF Base
  <2>11. TodoOK'
    BY <2>8, <2>10, TodoKept
  <2>12. StagesOK'
    BY <1>1, <2>8, EmptyFacts DEF StagesOK
  <2>13. ListsOK'
    BY <1>1, <1>2, <2>8 DEF ListsOK, MultiReleased, During, List
  <2>. QED
    BY <1>2, <2>8, <2>10, <2>11, <2>12, <2>13 DEF Base
<1>. QED
  BY <1>4, <1>5, <1>6 DEF InvokeChunk

(* What Lua makes of a list. *)
LEMMA ThroughFacts ==
  ASSUME NEW l \in Seq(Datum)
  PROVE  /\ Through(l) \in Seq(Datum) /\ Len(Through(l)) = Len(l)
         /\ DOMAIN Through(l) = DOMAIN l
         /\ \A i \in DOMAIN l : l[i] \in Datum /\ Through(l)[i] = AsLua[l[i]]
<1>1. /\ Len(l) \in Nat /\ DOMAIN l = 1 .. Len(l)
      /\ \A i \in DOMAIN l : l[i] \in Datum /\ AsLua[l[i]] \in Datum
  BY SeqFacts, LuaAssumption
<1>2. PICK t : t = [i \in DOMAIN l |-> AsLua[l[i]]]
  OBVIOUS
<1>3. t \in [1 .. Len(l) -> Datum]
  BY <1>1, <1>2
<1>4. t \in Seq(Datum) /\ Len(t) = Len(l) /\ DOMAIN t = DOMAIN l
  BY <1>1, <1>3, FunIsSeq
<1>. QED
  BY <1>1, <1>2, <1>4 DEF Through

LEMMA InvokeFunctionInv ==
  ASSUME Base, InvokeFunction
  PROVE  Base' /\ (NothingLost => NothingLost')
<1>1. /\ call.op = "many" /\ call.pc = "convert" /\ call.conv = <<>> /\ call \in Call
      /\ call.err = NoBox /\ UNCHANGED <<wrappers, unbound>> /\ ListsType
  BY DEF InvokeFunction, Ready, Base, StagesOK
<1>2. /\ lists["args"] = NoList /\ lists["out"] = NoList /\ lists["rets"] = NoList
      /\ lists["call"] # NoList
  BY <1>1 DEF Base, ListsOK, MultiReleased, During
<1>3. lists["call"] \in Seq(Datum)
  BY <1>1, <1>2, ListFacts DEF List
<1>4. Through(lists["call"]) \in Seq(Datum) /\ Through(lists["call"]) # NoList
  BY <1>3, ThroughFacts, ListFacts
<1>6. CASE Fail(heap) /\ lists' = [lists EXCEPT !["call"] = NoList]
  <2>1. Flying = {}
    BY <1>1, NothingFlies
  <2>2. ListsType' /\ \A l \in List : lists'[l] = NoList
    BY <1>1, <1>2, <1>6 DEF ListsType, List
  <2>. QED
    BY <1>1, <1>6, <2>1, <2>2, FailInv
<1>5. ASSUME NEW p \in {"take", "args"}, NEW l, l = IF p = "take" THEN "rets" ELSE "args",
             Done(p), lists' = [lists EXCEPT !["call"] = NoList, ![l] = Through(lists["call"])],
             UNCHANGED heap
      PROVE  Base' /\ (NothingLost => NothingLost')
  <2>1. ListsType'
    BY <1>1, <1>4, <1>5 DEF ListsType, List
  <2>2. call'.op = "many" /\ call'.pc = p => ListsOK'
    BY <1>1, <1>2, <1>4, <1>5 DEF ListsType, List, ListsOK, MultiReleased, During
  <2>. QED
    BY <1>1, <1>5, <2>1, <2>2, MoveInv DEF Done
<1>. QED
  BY <1>5, <1>6 DEF InvokeFunction

LEMMA TakeArgInv ==
  ASSUME Base, TakeArg
  PROVE  Base' /\ (NothingLost => NothingLost')
<1>1. /\ call.pc = "args" /\ lists["args"] # <<>> /\ call.op = "many" /\ call.conv = <<>>
      /\ lists' = [lists EXCEPT !["args"] = Tail(lists["args"])]
      /\ call \in Call /\ HeapType /\ WrapType /\ ListsType
  BY DEF TakeArg, Base, StagesOK, Owning
<1>2. lists["args"] \in Seq(Datum) /\ lists["args"] # NoList
  BY <1>1, ListFacts DEF Base, ListsOK, List
<1>3. PICK d \in Datum : d = Head(lists["args"])
  BY <1>1, <1>2, TailFacts
<1>4. PICK b \in Target(heap, d) :
        /\ Wrap(heap, d, b, TRUE)
        /\ call' = [call EXCEPT !.todo = Append(call.todo, [box |-> b, datum |-> Decode(d)])]
  BY <1>3 DEF TakeArg
<1>5. /\ b \in Box \cup {NoBox} /\ Decode(d) \in Datum
      /\ b # NoBox => KindOf[d] \in Boxed
  BY <1>3, TargetFacts, KindTyped DEF TakeArg, New
<1>6. PICK v : v = [box |-> b, datum |-> Decode(d)]
  OBVIOUS
<1>7. v \in Value /\ v.box = b /\ v.datum = Decode(d)
  BY <1>5, <1>6 DEF Value
<1>8. call' = [call EXCEPT !.todo = Append(call.todo, v)]
  BY <1>4, <1>6
<1>9. /\ call' \in Call /\ call'.todo = Append(call.todo, v) /\ call'.pc = "args"
      /\ call'.op = "many" /\ call'.conv = <<>> /\ call'.err = call.err
  <2>1. Append(call.todo, v) \in Seq(Value)
    BY <1>1, <1>7, CallFields, AppendFacts
  <2>. QED
    BY <1>1, <1>8, <2>1 DEF Call
<1>10. HeapType' /\ WrapType' /\ Gains(heap, d, b)
  BY <1>1, <1>4, WrapGains
<1>11. Owning' /\ Kept /\ (NothingLost => NothingLost')
  BY <1>1, <1>9, <1>10, GainOwns, FlyingSame DEF Base
<1>12. TodoOK'
  <2>1. b # NoBox => b \in wrappers' /\ heap'[b].datum = v.datum
    BY <1>5, <1>7, <1>10 DEF Gains, Decode, Boxed
  <2>2. ASSUME NEW i \in DOMAIN call'.todo, call'.todo[i].box # NoBox
        PROVE  /\ call'.todo[i].box \in wrappers'
               /\ heap'[call'.todo[i].box].datum = call'.todo[i].datum
    <3>1. PICK n : n = Len(call.todo) + 1
      OBVIOUS
    <3>2. /\ call'.todo[n] = v /\ (i \in DOMAIN call.todo \/ i = n)
          /\ \A j \in DOMAIN call.todo : call'.todo[j] = call.todo[j]
      BY <1>1, <1>9, <1>7, <3>1, CallFields, AppendFacts
    <3>3. CASE i = n
      BY <1>7, <2>1, <2>2, <3>2, <3>3
    <3>4. CASE i \in DOMAIN call.todo
      BY <1>11, <2>2, <3>2, <3>4 DEF Base, TodoOK, Kept
    <3>. QED
      BY <3>2, <3>3, <3>4
  <2>. QED
    BY <2>2 DEF TodoOK
<1>13. StagesOK'
  BY <1>1, <1>9, EmptyFacts DEF Base, StagesOK
<1>14. Tail(lists["args"]) \in Seq(Datum) /\ Tail(lists["args"]) # NoList
  BY <1>1, <1>2, TailFacts, ListFacts
<1>15. ListsType'
  BY <1>1, <1>14 DEF ListsType, List
<1>16. ListsOK'
  BY <1>1, <1>9, <1>14 DEF Base, ListsType, List, ListsOK, MultiReleased, During
<1>. QED
  BY <1>9, <1>11, <1>12, <1>13, <1>15, <1>16 DEF Base

(* A Go function gives back what it got, or something with nothing inside.   *)
LEMMA BodyGives ==
  ASSUME call \in Call, BodyReturns
  PROVE  \E s \in Seq(Value) :
           /\ call' = [call EXCEPT !.pc = "results", !.todo = s]
           /\ DOMAIN s = DOMAIN call.todo /\ Len(s) = Len(call.todo)
           /\ \A i \in DOMAIN s : s[i] = call.todo[i] \/ s[i] \in HollowValues
<1>1. PICK s \in {call.todo} \cup Replaced(call.todo) :
        call' = [call EXCEPT !.pc = "results", !.todo = s]
  BY DEF BodyReturns
<1>2. PICK n \in Nat : n = Len(call.todo) /\ DOMAIN call.todo = 1 .. n
  BY CallFields, SeqFacts
<1>3. \A i \in DOMAIN call.todo : call.todo[i] \in Value
  BY CallFields, SeqFacts
<1>4. s = call.todo => s \in Seq(Value)
  BY CallFields
<1>5. ASSUME NEW j \in DOMAIN call.todo, NEW v \in HollowValues, s = [call.todo EXCEPT ![j] = v]
      PROVE  /\ s \in Seq(Value) /\ DOMAIN s = DOMAIN call.todo /\ Len(s) = Len(call.todo)
             /\ \A i \in DOMAIN s : s[i] = call.todo[i] \/ s[i] \in HollowValues
  <2>1. /\ DOMAIN s = DOMAIN call.todo
        /\ \A i \in DOMAIN call.todo : s[i] = IF i = j THEN v ELSE call.todo[i]
    BY <1>5
  <2>2. s = [i \in 1 .. n |-> s[i]]
    BY <1>2, <1>5
  <2>3. v \in Value
    BY HollowFacts
  <2>4. \A i \in 1 .. n : s[i] \in Value
    BY <1>2, <1>3, <2>1, <2>3
  <2>5. s \in [1 .. n -> Value]
    BY <2>2, <2>4
  <2>6. s \in Seq(Value) /\ Len(s) = n
    BY <2>5, FunIsSeq
  <2>. QED
    BY <1>2, <2>1, <2>6
<1>6. s = call.todo \/ \E j \in DOMAIN call.todo, v \in HollowValues : s = [call.todo EXCEPT ![j] = v]
  BY <1>1 DEF Replaced
<1>. QED
  BY <1>1, <1>4, <1>5, <1>6

LEMMA BodyInv ==
  ASSUME Base, BodyFails \/ BodyReturns
  PROVE  Base' /\ (NothingLost => NothingLost')
<1>1. /\ call.pc = "args" /\ call.op = "many" /\ call.conv = <<>> /\ call.err = NoBox
      /\ call \in Call /\ ListsType
  BY DEF BodyFails, BodyReturns, Base, StagesOK
<1>2. CASE BodyFails
  BY <1>1, <1>2, CallbackFailsInv DEF BodyFails
<1>3. CASE BodyReturns
  <2>1. /\ UNCHANGED <<heap, wrappers, unbound>> /\ lists' = [lists EXCEPT !["out"] = <<>>]
    BY <1>3 DEF BodyReturns
  <2>2. <<>> \in Seq(Datum)
    BY EmptyFacts
  <2>3. <<>> # NoList
    BY <2>2, ListFacts
  <2>4. ListsType'
    BY <1>1, <2>1, <2>2 DEF ListsType, List
  <2>5. call'.op = "many" /\ call'.pc = "results" => ListsOK'
    BY <1>1, <2>1, <2>3 DEF Base, ListsType, List, ListsOK, MultiReleased, During
  <2>6. PICK s \in Seq(Value) :
          /\ call' = [call EXCEPT !.pc = "results", !.todo = s]
          /\ DOMAIN s = DOMAIN call.todo
          /\ \A i \in DOMAIN s : s[i] = call.todo[i] \/ s[i] \in HollowValues
    BY <1>1, <1>3, BodyGives
  <2>7. /\ call' \in Call /\ call'.pc = "results" /\ call'.todo = s /\ call'.conv = <<>>
        /\ call'.op = "many" /\ call'.err = call.err
    BY <1>1, <2>6 DEF Call, PC
  <2>8. Owning' /\ Kept /\ (NothingLost => NothingLost')
    BY <1>1, <2>1, <2>7, QuietOwns, FlyingSame DEF Base
  <2>9. TodoOK'
    BY <2>1, <2>6, <2>7, HollowFacts DEF Base, TodoOK
  <2>10. StagesOK'
    BY <1>1, <2>7, EmptyFacts DEF StagesOK
  <2>. QED
    BY <2>4, <2>5, <2>7, <2>8, <2>9, <2>10 DEF Base
<1>. QED
  BY <1>2, <1>3

LEMMA CallbackReturnsInv ==
  ASSUME Base, CallbackReturns
  PROVE  Base' /\ (NothingLost => NothingLost')
<1>1. /\ call.pc = "results" /\ call.op = "many" /\ call.conv = <<>> /\ call.err = NoBox
      /\ call \in Call /\ ListsType /\ UNCHANGED <<heap, wrappers, unbound>>
      /\ call' = [call EXCEPT !.pc = "take", !.conv = <<>>]
      /\ lists' = [lists EXCEPT !["args"] = NoList, !["out"] = NoList,
                                !["rets"] = Through(lists["out"])]
  BY DEF CallbackReturns, Done, Base, StagesOK
<1>2. Through(lists["out"]) \in Seq(Datum) /\ Through(lists["out"]) # NoList
  <2>1. lists["out"] \in Seq(Datum)
    BY <1>1, ListFacts DEF Base, ListsOK, List
  <2>. QED
    BY <2>1, ThroughFacts, ListFacts
<1>3. ListsType'
  BY <1>1, <1>2 DEF ListsType, List
<1>4. call'.op = "many" /\ call'.pc = "take" => ListsOK'
  BY <1>1, <1>2 DEF Base, ListsType, List, ListsOK, MultiReleased, During
<1>. QED
  BY <1>1, <1>3, <1>4, MoveInv

LEMMA TakeErrorInv ==
  ASSUME Base, TakeError
  PROVE  Base' /\ (NothingLost => NothingLost')
<1>1. /\ call.pc = "error" /\ call.err # NoBox /\ call.conv = <<>> /\ call \in Call
      /\ UNCHANGED lists
  BY DEF TakeError, Base, StagesOK
<1>2. /\ Owning' /\ Kept /\ call' \in Call
      /\ call' = [call EXCEPT !.pc = "idle", !.err = NoBox]
      /\ NothingLost => NothingLost'
  BY <1>1, TakeErrorOwns DEF Base
<1>3. /\ call'.pc = "idle" /\ call'.err = NoBox /\ call'.todo = call.todo /\ call'.conv = <<>>
      /\ call'.op = call.op
  BY <1>1, <1>2 DEF Call
<1>4. TodoOK'
  BY <1>2, <1>3, TodoKept
<1>5. StagesOK'
  BY <1>3, EmptyFacts DEF StagesOK
<1>6. ListsOK' /\ ListsType'
  BY <1>1, <1>3 DEF Base, ListsOK, MultiReleased, During, PanickedOn, HollowValues, ListsType
<1>. QED
  BY <1>2, <1>4, <1>5, <1>6 DEF Base

LEMMA TakeInv ==
  ASSUME Base, Take
  PROVE  Base' /\ (NothingLost => NothingLost')
<1>1. /\ call.pc = "take" /\ lists["rets"] # <<>> /\ call.op = "many" /\ call.conv = <<>>
      /\ lists' = [lists EXCEPT !["rets"] = Tail(lists["rets"])]
      /\ call \in Call /\ HeapType /\ WrapType /\ ListsType
  BY DEF Take, Base, StagesOK, Owning
<1>2. lists["rets"] \in Seq(Datum) /\ lists["rets"] # NoList
  BY <1>1, ListFacts DEF Base, ListsOK, List
<1>3. PICK d \in Datum : d = Head(lists["rets"])
  BY <1>1, <1>2, TailFacts
<1>4. PICK b \in Target(heap, d) : Wrap(heap, d, b, FALSE)
  BY <1>3 DEF Take
<1>5. call' = [call EXCEPT !.got = Append(call.got, Decode(d))] /\ Decode(d) \in Datum
  BY <1>3, KindTyped DEF Take
<1>6. /\ call' \in Call /\ call'.todo = call.todo /\ call'.pc = "take"
      /\ call'.op = "many" /\ call'.conv = <<>> /\ call'.err = call.err
  <2>1. Append(call.got, Decode(d)) \in Seq(Datum \cup {NoDatum})
    BY <1>1, <1>5, CallFields, AppendFacts
  <2>. QED
    BY <1>1, <1>5, <2>1 DEF Call
<1>7. HeapType' /\ WrapType' /\ Gains(heap, d, b)
  BY <1>1, <1>4, WrapGains
<1>8. Owning' /\ Kept /\ (NothingLost => NothingLost')
  BY <1>1, <1>6, <1>7, GainOwns, FlyingSame DEF Base
<1>9. TodoOK'
  BY <1>6, <1>8, TodoKept
<1>10. StagesOK'
  BY <1>1, <1>6, EmptyFacts DEF Base, StagesOK
<1>11. Tail(lists["rets"]) \in Seq(Datum) /\ Tail(lists["rets"]) # NoList
  BY <1>1, <1>2, TailFacts, ListFacts
<1>12. ListsType'
  BY <1>1, <1>11 DEF ListsType, List
<1>13. ListsOK'
  BY <1>1, <1>6, <1>11 DEF Base, ListsType, List, ListsOK, MultiReleased, During
<1>. QED
  BY <1>6, <1>8, <1>9, <1>10, <1>12, <1>13 DEF Base

LEMMA EndInv ==
  ASSUME Base, TakePanics \/ Return
  PROVE  Base' /\ (NothingLost => NothingLost')
<1>1. /\ call.pc = "take" /\ call.op = "many" /\ call.conv = <<>> /\ call.err = NoBox
      /\ call \in Call /\ ListsType /\ UNCHANGED <<heap, wrappers, unbound>>
  BY DEF TakePanics, Return, Base, StagesOK
<1>2. CASE TakePanics
  <2>1. /\ lists["rets"] # <<>> /\ lists' = [lists EXCEPT !["rets"] = Tail(lists["rets"])]
        /\ call' = [call EXCEPT !.pc = "panicked", !.conv = <<>>]
    BY <1>2 DEF TakePanics, Done
  <2>2. lists["rets"] \in Seq(Datum)
    BY <1>1, ListFacts DEF Base, ListsOK, List
  <2>3. Tail(lists["rets"]) \in Seq(Datum)
    BY <2>1, <2>2, TailFacts
  <2>4. ListsType'
    BY <1>1, <2>1, <2>3 DEF ListsType, List
  <2>5. call'.op = "many" /\ call'.pc = "panicked" => ListsOK'
    BY <1>1, <2>1 DEF Base, ListsType, List, ListsOK, MultiReleased, During
  <2>. QED
    BY <1>1, <2>1, <2>4, <2>5, MoveInv
<1>3. CASE Return
  <2>1. /\ lists' = [lists EXCEPT !["rets"] = NoList]
        /\ call' = [call EXCEPT !.pc = "idle", !.conv = <<>>]
    BY <1>3 DEF Return, Done
  <2>2. ListsType'
    BY <1>1, <2>1 DEF ListsType, List
  <2>3. call'.op = "many" /\ call'.pc = "idle" => ListsOK'
    BY <1>1, <2>1 DEF Base, ListsType, List, ListsOK, MultiReleased, During
  <2>. QED
    BY <1>1, <2>1, <2>2, <2>3, MoveInv
<1>. QED
  BY <1>2, <1>3

LEMMA BaseInit == Init => Base /\ NothingLost
<1>1. ASSUME Init
      PROVE  Base /\ NothingLost
  <2>1. /\ heap = [b \in Box |-> Unused] /\ wrappers = {} /\ unbound = {}
        /\ call = NoCall /\ lists = [l \in List |-> NoList]
    BY <1>1 DEF Init
  <2>2. HeapType /\ WrapType /\ ListsType
    BY <2>1, AllocFacts DEF HeapType, WrapType, ListsType
  <2>3. /\ call \in Call /\ call.op = "one" /\ call.pc = "idle" /\ call.todo = <<>>
        /\ call.conv = <<>> /\ call.err = NoBox
    BY <2>1, EmptyFacts DEF NoCall, Call, PC
  <2>4. Flying = {}
    BY <2>3, NothingFlies
  <2>5. OwnedOnce /\ NothingLost
    BY <2>1, <2>3, <2>4, EmptyFacts, OwnedOnceFacts, ValuesAssumption DEF NothingLost
  <2>6. WrappersOK
    BY <2>1 DEF WrappersOK
  <2>7. TodoOK
    BY <2>3, EmptyFacts DEF TodoOK
  <2>8. StagesOK
    BY <2>3 DEF StagesOK
  <2>9. ListsOK
    BY <2>1, <2>3 DEF ListsOK, MultiReleased, During, List
  <2>. QED
    BY <2>2, <2>3, <2>5, <2>6, <2>7, <2>8, <2>9 DEF Base, Owning
<1>. QED
  BY <1>1

(* The steps that may lose a Box: a conversion fails with something already  *)
(* converted, or a chunk has no code.                                        *)
Loses == \/ (ConvertFails \/ ConvertPanics) /\ call.pc = "convert" /\ call.conv # <<>>
         \/ InvokeChunk /\ call.conv[2].box = NoBox

LEMMA BaseNext ==
  ASSUME Base, [Next]_vars
  PROVE  Base' /\ (NothingLost /\ ~Loses => NothingLost')
<1>1. ASSUME NEW d \in Datum, Receive(d) \/ ReceivePanics(d)
      PROVE  Base' /\ (NothingLost => NothingLost')
  BY <1>1, ReceiveInv, ReceivePanicsInv
<1>2. ASSUME NEW b \in Box, CloseValue(b)
      PROVE  Base' /\ (NothingLost => NothingLost')
  BY <1>2, CloseInv
<1>3. ASSUME NEW op \in Op, Begin(op)
      PROVE  Base' /\ (NothingLost => NothingLost')
  BY <1>3, BeginInv
<1>4. CASE ConvertWrapper \/ ConvertGoString \/ ConvertScalar \/ ConvertChunkString
  BY <1>4, ConvertInv DEF Converts
<1>5. CASE ConvertFails
  BY <1>5, ConvertFailsInv DEF Loses
<1>6. CASE ConvertPanics
  BY <1>6, ConvertPanicsInv DEF Loses
<1>7. CASE Push \/ InvokeMethod
  BY <1>7, PushInv, InvokeMethodInv
<1>8. CASE InvokeChunk
  BY <1>8, InvokeChunkInv DEF Loses
<1>9. CASE InvokeFunction \/ TakeArg
  BY <1>9, InvokeFunctionInv, TakeArgInv
<1>10. CASE BodyFails \/ BodyReturns \/ CallbackReturns
  BY <1>10, BodyInv, CallbackReturnsInv
<1>11. CASE TakeError \/ Take \/ TakePanics \/ Return
  BY <1>11, TakeErrorInv, TakeInv, EndInv
<1>12. CASE UNCHANGED vars
  <2>1. UNCHANGED <<heap, wrappers, unbound, call, lists>>
    BY <1>12 DEF vars
  <2>2. HeapType' /\ WrapType' /\ WrappersOK' /\ TodoOK' /\ StagesOK' /\ (call \in Call)'
    BY <2>1 DEF Base, Owning, HeapType, WrapType, WrappersOK, TodoOK, StagesOK, GoStrings
  <2>3. OwnedOnce' /\ (NothingLost => NothingLost')
    BY <2>1 DEF Base, Owning, OwnedOnce, NothingLost, Owned, Flying
  <2>4. ListsType' /\ ListsOK'
    BY <2>1 DEF Base, ListsType, ListsOK, MultiReleased, During, PanickedOn
  <2>. QED
    BY <2>2, <2>3, <2>4 DEF Base, Owning
<1>. QED
  BY <1>1, <1>2, <1>3, <1>4, <1>5, <1>6, <1>7, <1>8, <1>9, <1>10, <1>11, <1>12 DEF Next

(* Every state has the shape the invariant describes: types, owners, lists   *)
(* and what each stage of a call entails.                                    *)
LEMMA BaseAlways == Spec => []Base
<1>1. Init => Base
  BY BaseInit
<1>2. Base /\ [Next]_vars => Base'
  BY BaseNext
<1>. QED
  BY <1>1, <1>2, PTL DEF Spec

(* Every variable stays within its type: a Box holds nothing, an error's     *)
(* string, a Lua value or a ChunkString, and nothing else.                   *)
THEOREM TypeCorrect == Spec => []TypeOK
<1>1. Base => TypeOK
  BY BaseParts
<1>. QED
  BY <1>1, BaseAlways, PTL

(* No Box has two owners and no owner has a freed one, whatever is converted, *)
(* fails, panics or is closed meanwhile: Rust and Go never free one twice.   *)
THEOREM OneOwner == Spec => []OwnedOnce
<1>1. Base => OwnedOnce
  BY BaseParts
<1>. QED
  BY <1>1, BaseAlways, PTL

(* Every multivalue is freed, or handed on, when its part of the call ends,  *)
(* on every path but two: a panic out of Call leaves Call's own behind, and  *)
(* one over a Go function's result with nothing inside, recovered or not,    *)
(* the list of results.                                                      *)
THEOREM ListsReleased == Spec => []MultiReleased
<1>1. Base => MultiReleased
  BY DEF Base, ListsOK
<1>. QED
  BY <1>1, BaseAlways, PTL

-----------------------------------------------------------------------------
(* Nothing is lost *)

(* The steps on which ConvertedOK has nothing to say. *)
LEMMA LeavesConvert ==
  ASSUME call \in Call,
         \/ ConvertFails \/ ConvertPanics \/ InvokeMethod \/ InvokeChunk \/ InvokeFunction
         \/ TakeArg \/ BodyFails \/ BodyReturns \/ CallbackReturns
         \/ TakeError \/ Take \/ TakePanics \/ Return
  PROVE  call'.pc # "convert"
<1>1. ASSUME NEW p \in {"idle", "take", "args", "results", "panicked"}, Done(p)
      PROVE  call'.pc # "convert"
  BY <1>1 DEF Done, Call
<1>2. ASSUME NEW H, Fail(H)
      PROVE  call'.pc # "convert"
  BY <1>2 DEF Fail, Call
<1>3. CASE ConvertFails \/ ConvertPanics \/ BodyFails
  BY <1>2, <1>3 DEF ConvertFails, ConvertPanics, PanicsOut, PanicRecovered, BodyFails,
     CallbackFails, GiveUp, Call
<1>4. CASE InvokeMethod
  <2>1. \A d : Done(IF Faults(d) THEN "panicked" ELSE "idle") => Done("panicked") \/ Done("idle")
    OBVIOUS
  <2>. QED
    BY <1>1, <1>2, <1>4, <2>1 DEF InvokeMethod
<1>5. CASE InvokeChunk
  BY <1>1, <1>2, <1>5 DEF InvokeChunk
<1>6. CASE InvokeFunction
  BY <1>1, <1>2, <1>6 DEF InvokeFunction
<1>7. CASE CallbackReturns \/ TakePanics \/ Return
  BY <1>1, <1>7 DEF CallbackReturns, TakePanics, Return
<1>8. CASE TakeArg \/ Take
  BY <1>8 DEF TakeArg, Take, Call
<1>9. CASE BodyReturns \/ TakeError
  BY <1>9 DEF BodyReturns, TakeError, Call
<1>. QED
  BY <1>3, <1>4, <1>5, <1>6, <1>7, <1>8, <1>9

LEMMA ConvertedNext ==
  ASSUME "two" \notin Op, "chunk" \in Op => EmptyString = {},
         Base, ConvertedOK, [Next]_vars
  PROVE  ConvertedOK'
<1>1. call \in Call /\ StagesOK /\ HeapType /\ WrapType
  BY DEF Base, Owning
<1>2. CASE \/ ConvertFails \/ ConvertPanics \/ InvokeMethod \/ InvokeChunk \/ InvokeFunction
           \/ TakeArg \/ BodyFails \/ BodyReturns \/ CallbackReturns
           \/ TakeError \/ Take \/ TakePanics \/ Return
  BY <1>1, <1>2, LeavesConvert DEF ConvertedOK
<1>3. CASE UNCHANGED call
  BY <1>3 DEF ConvertedOK
<1>4. ASSUME NEW d \in Datum, Receive(d) \/ ReceivePanics(d)
      PROVE  ConvertedOK'
  <2>1. CASE Receive(d)
    BY <1>3, <2>1 DEF Receive
  <2>2. CASE ReceivePanics(d)
    <3>1. call'.pc = "panicked"
      BY <2>2 DEF ReceivePanics, NoCall
    <3>. QED
      BY <3>1 DEF ConvertedOK
  <2>. QED
    BY <1>4, <2>1, <2>2
<1>5. ASSUME NEW b \in Box, CloseValue(b)
      PROVE  ConvertedOK'
  <2>1. b \in wrappers
    BY <1>5 DEF CloseValue
  <2>2. /\ call'.pc = call.pc /\ call'.op = call.op /\ call'.conv = call.conv
        /\ Len(call'.todo) = Len(call.todo)
    BY <1>5, <2>1, CloseOwns DEF Base
  <2>. QED
    BY <2>2 DEF ConvertedOK
<1>6. ASSUME NEW op \in Op, Begin(op)
      PROVE  ConvertedOK'
  <2>1. op \in {"one", "many", "chunk"}
    BY <1>6, ValuesAssumption DEF Begin
  <2>2. PICK r \in Receiver(op), s \in Args(op) :
          call' = [NoCall EXCEPT !.op = op, !.recv = r, !.pc = "convert", !.todo = s,
                                 !.given = [i \in DOMAIN s |-> s[i].datum]]
    BY <1>6 DEF Begin
  <2>3. call'.op = op /\ call'.conv = <<>> /\ call'.todo = s
    BY <2>2 DEF NoCall
  <2>4. (op = "one" => Len(s) = 1) /\ (op = "chunk" => Len(s) = 2)
    BY <1>1, <2>1, ArgsFacts
  <2>. QED
    BY <2>1, <2>3, <2>4, EmptyFacts DEF ConvertedOK
<1>7. CASE Converts
  <2>1. TypeOK /\ WrappersOK /\ TodoOK
    BY BaseParts DEF Base, Owning
  <2>2. Converting /\ call.todo # <<>> /\ call.pc \in {"convert", "results"}
    BY <1>7 DEF Converts, ConvertWrapper, ConvertGoString, ConvertScalar, ConvertChunkString,
       Converting
  <2>3. Head(call.todo) = call.todo[1] /\ 1 \in DOMAIN call.todo
    BY <1>1, <2>2, CallFields, TailFacts
  <2>4. call.op = "chunk" => Head(call.todo) \in GoStrings
    BY <1>1, <2>2, <2>3 DEF StagesOK
  <2>5. PICK c : Convert(c)
    BY <1>7, <2>1, <2>4, ConvertStep
  <2>6. /\ c \in CValue /\ call'.todo = Tail(call.todo) /\ call'.conv = Append(call.conv, c)
        /\ call'.op = call.op /\ call'.pc = call.pc
        /\ call.op = "chunk" /\ EmptyString = {} => c.box # NoBox
    BY <1>1, <2>5 DEF Convert, Call
  <2>7. /\ Len(call'.conv) = Len(call.conv) + 1 /\ Len(call'.todo) = Len(call.todo) - 1
        /\ Len(call.conv) \in Nat /\ Len(call.todo) \in Nat
        /\ \A i \in DOMAIN call'.conv : \/ i \in DOMAIN call.conv /\ call'.conv[i] = call.conv[i]
                                        \/ call'.conv[i] = c
    BY <1>1, <2>2, <2>6, CallFields, AppendFacts, TailFacts, SeqFacts
  <2>8. call.op = "chunk" /\ call.pc = "convert" => c.box # NoBox
    BY <2>6 DEF ConvertedOK
  <2>9. call'.pc = "convert" => call.pc = "convert" /\ call'.op = call.op
    BY <2>6
  <2>10. /\ Len(call'.conv) = Len(call.conv) + 1 /\ Len(call'.todo) = Len(call.todo) - 1
         /\ Len(call.conv) \in Nat /\ Len(call.todo) \in Nat
    BY <2>7
  <2>11. Len(call'.conv) + Len(call'.todo) = Len(call.conv) + Len(call.todo)
    <3>1. PICK m, n \in Nat : m = Len(call.conv) /\ n = Len(call.todo)
      BY <2>10
    <3>2. Len(call'.conv) = m + 1 /\ Len(call'.todo) = n - 1
      BY <2>10, <3>1
    <3>3. m + 1 + (n - 1) = m + n
      OBVIOUS
    <3>. QED
      BY <3>1, <3>2, <3>3
  <2>12. /\ call'.op = "one" /\ call'.pc = "convert" => Len(call'.conv) + Len(call'.todo) = 1
         /\ call'.op = "chunk" /\ call'.pc = "convert" => Len(call'.conv) + Len(call'.todo) = 2
    BY <2>9, <2>11 DEF ConvertedOK
  <2>13. call'.op = "chunk" /\ call'.pc = "convert" =>
           \A i \in DOMAIN call'.conv : call'.conv[i].box # NoBox
    BY <2>7, <2>8, <2>9 DEF ConvertedOK
  <2>. QED
    BY <2>9, <2>12, <2>13 DEF ConvertedOK
<1>8. CASE Push
  <2>1. call'.op = "many" /\ call'.op = call.op /\ call'.pc = call.pc
    BY <1>1, <1>8 DEF Push, Pushing, Call
  <2>. QED
    BY <2>1 DEF ConvertedOK
<1>. QED
  BY <1>2, <1>3, <1>4, <1>5, <1>6, <1>7, <1>8 DEF Next, vars, Converts

LEMMA ConvertedLosesNothing ==
  ASSUME Base, ConvertedOK
  PROVE  ~Loses
<1>1. call \in Call
  BY DEF Base
<1>2. ASSUME ConvertFails \/ ConvertPanics, call.pc = "convert"
      PROVE  call.conv = <<>>
  <2>1. /\ call.todo # <<>> /\ call.op # "chunk"
        /\ call.op = "many" => call.conv = <<>>
    BY <1>2 DEF ConvertFails, ConvertPanics, Converting
  <2>2. Len(call.conv) \in Nat /\ Len(call.todo) \in Nat /\ Len(call.todo) > 0
    BY <1>1, <2>1, CallFields, SeqFacts
  <2>3. call.op = "one" => Len(call.conv) + Len(call.todo) = 1
    BY <1>2 DEF ConvertedOK
  <2>4. call.op = "one" => ~(Len(call.conv) > 0)
    <3>1. \A m, n \in Nat : m + n = 1 /\ n > 0 => ~(m > 0)
      OBVIOUS
    <3>. QED
      BY <2>2, <2>3, <3>1
  <2>5. call.op = "one" => call.conv = <<>>
    BY <1>1, <2>4, CallFields, SeqFacts
  <2>. QED
    BY <1>2, <2>1, <2>5 DEF ConvertedOK
<1>3. ASSUME InvokeChunk
      PROVE  call.conv[2].box # NoBox
  <2>1. call.op = "chunk" /\ call.pc = "convert" /\ call.todo = <<>>
    BY <1>3 DEF InvokeChunk, Ready
  <2>2. Len(call.conv) \in Nat /\ DOMAIN call.conv = 1 .. Len(call.conv) /\ Len(call.todo) = 0
    BY <1>1, <2>1, CallFields, SeqFacts, EmptyFacts
  <2>3. Len(call.conv) + Len(call.todo) = 2
    BY <2>1 DEF ConvertedOK
  <2>4. 2 \in DOMAIN call.conv
    BY <2>2, <2>3
  <2>. QED
    BY <2>1, <2>4 DEF ConvertedOK
<1>. QED
  BY <1>2, <1>3 DEF Loses

(* The losses there are, known by the step that makes them: a method gives   *)
(* up, or panics, with a value already converted, and LoadChunk is given a   *)
(* name but no code.  No other step of the bridge loses a Box.               *)
THEOREM OnlyKnownLosses ==
  Spec => [][NothingLost /\ ~Loses => NothingLost']_vars
<1>1. Base /\ [Next]_vars => [NothingLost /\ ~Loses => NothingLost']_vars
  BY BaseNext
<1>. QED
  BY <1>1, BaseAlways, PTL DEF Spec

(* A program that sets no field by key and value, and loads no empty chunk,  *)
(* loses nothing: every Box is freed, on every path, whatever fails, panics  *)
(* or is closed meanwhile.                                                   *)
THEOREM NoLoss ==
  ASSUME "two" \notin Op, "chunk" \in Op => EmptyString = {}
  PROVE  Spec => []NothingLost
<1>. DEFINE Inv == Base /\ NothingLost /\ ConvertedOK
<1>1. Init => Inv
  <2>1. Init => ConvertedOK
    BY DEF Init, NoCall, ConvertedOK
  <2>. QED
    BY <2>1, BaseInit
<1>2. Inv /\ [Next]_vars => Inv'
  BY BaseNext, ConvertedNext, ConvertedLosesNothing
<1>3. Inv => NothingLost
  OBVIOUS
<1>. QED
  BY <1>1, <1>2, <1>3, PTL DEF Spec

-----------------------------------------------------------------------------
(* What is passed to the identity comes back *)

(* No light userdata is read as another one. *)
PointersRead == \A d \in Datum : Pointee[d] \in {NoDatum, d}

LEMMA DecodeFacts ==
  ASSUME PointersRead, NEW d \in Datum, ~Faults(d)
  PROVE  Decode(d) = d
  BY DEF PointersRead, Faults, Decode

LEMMA EchoTwice ==
  ASSUME NEW x, NEW d
  PROVE  /\ IsSent(x, d) => IsEcho(x, AsLua[d])
         /\ IsEcho(x, d) => IsEcho(x, Lossy[d]) /\ IsEcho(x, AsLua[d]) /\ d \in Datum
<1>1. x \in Datum => Lossy[x] \in Datum /\ AsLua[Lossy[x]] \in Datum
  BY ValuesAssumption, LuaAssumption
<1>2. x \in Datum => /\ Lossy[AsLua[Lossy[x]]] = AsLua[Lossy[x]]
                     /\ AsLua[AsLua[Lossy[x]]] = AsLua[Lossy[x]]
  BY <1>1, LuaAssumption
<1>. QED
  BY <1>1, <1>2 DEF IsSent, IsEcho

(* A conversion moves the first value still to convert into flight. *)
LEMMA EchoConvert ==
  ASSUME NEW g, NEW l \in Seq(Datum), NEW t \in Seq(Value), t # <<>>, NEW c \in CValue,
         Head(t).datum \in Datum, c.datum = Lossy[Head(t).datum],
         NEW f, f = Append(<<>>, c)
  PROVE  /\ ConvertEcho(g, l, <<>>, t) => ConvertEcho(g, l, f, Tail(t))
         /\ ResultsEcho(g, l, <<>>, t) => ResultsEcho(g, l, f, Tail(t))
<1>1. /\ Head(t) = t[1] /\ 1 \in DOMAIN t /\ Len(Tail(t)) = Len(t) - 1
      /\ \A i \in DOMAIN Tail(t) : i + 1 \in DOMAIN t /\ Tail(t)[i] = t[i + 1]
  BY TailFacts
<1>2. Len(f) = 1 /\ DOMAIN f = {1} /\ f[1] = c /\ Len(<<>>) = 0
  BY EmptyFacts, AppendFacts
<1>3. PICK n \in Nat, k \in Nat : n = Len(t) /\ k = Len(l) /\ DOMAIN Tail(t) \subseteq Nat
  BY TailFacts, SeqFacts
<1>4. k + 0 + n = k + 1 + (n - 1) /\ \A i \in Nat : k + 0 + (i + 1) = k + 1 + i
  OBVIOUS
<1>5. Len(l) + Len(<<>>) + Len(t) = Len(l) + Len(f) + Len(Tail(t))
  BY <1>1, <1>2, <1>3, <1>4
<1>6. ASSUME NEW i \in DOMAIN Tail(t)
      PROVE  Len(l) + Len(<<>>) + (i + 1) = Len(l) + Len(f) + i
  BY <1>2, <1>3, <1>4
<1>7. Len(l) + Len(<<>>) + 1 = Len(l) + 1 /\ ~IsLost(Head(t))
  BY <1>2, <1>3, HollowFacts DEF IsLost
<1>8. ASSUME ConvertEcho(g, l, <<>>, t)
      PROVE  ConvertEcho(g, l, f, Tail(t))
  <2>1. Len(l) + Len(f) + Len(Tail(t)) = Len(g) /\ Sent(g, l, 0)
    BY <1>5, <1>8 DEF ConvertEcho
  <2>2. \A i \in DOMAIN t : t[i] = Unusable \/ t[i].datum = g[Len(l) + Len(<<>>) + i]
    BY <1>8 DEF ConvertEcho, WillBeSent
  <2>3. IsSent(g[Len(l) + 1], c.datum)
    BY <1>1, <1>7, <2>2 DEF IsSent, IsLost
  <2>4. SentAs(g, f, Len(l))
    BY <1>2, <2>3 DEF SentAs
  <2>5. WillBeSent(g, Tail(t), Len(l) + Len(f))
    <3>1. ASSUME NEW i \in DOMAIN Tail(t)
          PROVE  Tail(t)[i] = Unusable \/ Tail(t)[i].datum = g[Len(l) + Len(f) + i]
      BY <1>1, <1>6, <2>2
    <3>. QED
      BY <3>1 DEF WillBeSent
  <2>. QED
    BY <2>1, <2>4, <2>5 DEF ConvertEcho
<1>9. ASSUME ResultsEcho(g, l, <<>>, t)
      PROVE  ResultsEcho(g, l, f, Tail(t))
  <2>1. Len(l) + Len(f) + Len(Tail(t)) = Len(g) /\ Arrives(g, l, 0)
    BY <1>5, <1>9 DEF ResultsEcho
  <2>2. \A i \in DOMAIN t : IsLost(t[i]) \/ IsEcho(g[Len(l) + Len(<<>>) + i], t[i].datum)
    BY <1>9 DEF ResultsEcho, WillArrive
  <2>3. IsEcho(g[Len(l) + 1], c.datum)
    BY <1>1, <1>7, <2>2, EchoTwice
  <2>4. ArrivesAs(g, f, Len(l))
    BY <1>2, <2>3 DEF ArrivesAs
  <2>5. WillArrive(g, Tail(t), Len(l) + Len(f))
    <3>1. ASSUME NEW i \in DOMAIN Tail(t)
          PROVE  IsLost(Tail(t)[i]) \/ IsEcho(g[Len(l) + Len(f) + i], Tail(t)[i].datum)
      BY <1>1, <1>6, <2>2
    <3>. QED
      BY <3>1 DEF WillArrive
  <2>. QED
    BY <2>1, <2>4, <2>5 DEF ResultsEcho
<1>. QED
  BY <1>8, <1>9

(* A push moves it into the list. *)
LEMMA EchoPush ==
  ASSUME NEW g, NEW l \in Seq(Datum), NEW t, NEW c \in Seq(CValue), c # <<>>, Len(c) <= 1,
         NEW m, m = Append(l, Head(c).datum), Len(t) \in Nat
  PROVE  /\ ConvertEcho(g, l, c, t) => ConvertEcho(g, m, <<>>, t)
         /\ ResultsEcho(g, l, c, t) => ResultsEcho(g, m, <<>>, t)
<1>1. Head(c) = c[1] /\ 1 \in DOMAIN c /\ Head(c) \in CValue /\ Len(c) = 1
  <2>1. Head(c) = c[1] /\ 1 \in DOMAIN c /\ Head(c) \in CValue
    BY TailFacts
  <2>2. Len(c) \in Nat /\ Len(c) > 0
    BY SeqFacts
  <2>3. \A n \in Nat : n > 0 /\ n <= 1 => n = 1
    OBVIOUS
  <2>4. Len(c) = 1
    BY <2>2, <2>3
  <2>. QED
    BY <2>1, <2>4
<1>2. Head(c).datum \in Datum
  BY <1>1 DEF CValue
<1>3. /\ Len(l) \in Nat /\ Len(m) = Len(l) + 1 /\ m[Len(l) + 1] = Head(c).datum
      /\ \A i \in DOMAIN l : m[i] = l[i]
      /\ \A i \in DOMAIN m : i \in DOMAIN l \/ i = Len(l) + 1
  BY <1>2, AppendFacts, SeqFacts
<1>4. Len(<<>>) = 0 /\ DOMAIN <<>> = {}
  BY EmptyFacts
<1>5. PICK k \in Nat, n \in Nat : k = Len(l) /\ n = Len(t)
  BY <1>3
<1>6. k + 1 = k + 1 + 0 /\ k + 1 + n = k + 1 + 0 + n /\ 0 + (k + 1) = k + 1
  OBVIOUS
<1>7. /\ Len(l) + Len(c) = Len(m) + Len(<<>>)
      /\ Len(l) + Len(c) + Len(t) = Len(m) + Len(<<>>) + Len(t)
      /\ 0 + (Len(l) + 1) = Len(l) + 1
  BY <1>1, <1>3, <1>4, <1>5, <1>6
<1>8. ASSUME Sent(g, l, 0), SentAs(g, c, Len(l))
      PROVE  Sent(g, m, 0)
  <2>1. IsSent(g[Len(l) + 1], c[1].datum)
    BY <1>1, <1>8 DEF SentAs
  <2>2. ASSUME NEW i \in DOMAIN m
        PROVE  IsSent(g[0 + i], m[i])
    <3>1. CASE i = Len(l) + 1
      BY <1>1, <1>3, <1>7, <2>1, <3>1
    <3>2. CASE i \in DOMAIN l
      BY <1>3, <1>8, <3>2 DEF Sent
    <3>. QED
      BY <1>3, <3>1, <3>2
  <2>. QED
    BY <2>2 DEF Sent
<1>9. ASSUME Arrives(g, l, 0), ArrivesAs(g, c, Len(l))
       PROVE  Arrives(g, m, 0)
  <2>1. IsEcho(g[Len(l) + 1], c[1].datum)
    BY <1>1, <1>9 DEF ArrivesAs
  <2>2. ASSUME NEW i \in DOMAIN m
        PROVE  IsEcho(g[0 + i], m[i])
    <3>1. CASE i = Len(l) + 1
      BY <1>1, <1>3, <1>7, <2>1, <3>1
    <3>2. CASE i \in DOMAIN l
      BY <1>3, <1>9, <3>2 DEF Arrives
    <3>. QED
      BY <1>3, <3>1, <3>2
  <2>. QED
    BY <2>2 DEF Arrives
<1>10. SentAs(g, <<>>, Len(m)) /\ ArrivesAs(g, <<>>, Len(m))
  BY <1>4 DEF SentAs, ArrivesAs
<1>11. ConvertEcho(g, l, c, t) => ConvertEcho(g, m, <<>>, t)
  BY <1>7, <1>8, <1>10 DEF ConvertEcho
<1>12. ResultsEcho(g, l, c, t) => ResultsEcho(g, m, <<>>, t)
  BY <1>7, <1>10, <1>9 DEF ResultsEcho
<1>. QED
  BY <1>11, <1>12

(* The Go function takes its next argument, the caller its next result. *)
LEMMA EchoTake ==
  ASSUME NEW g, NEW l \in Seq(Datum), l # <<>>
  PROVE  /\ \A r \in Seq(Datum \cup {NoDatum}) :
              TakeEcho(g, l, r) => TakeEcho(g, Tail(l), Append(r, Head(l)))
         /\ \A t \in Seq(Value), v \in Value :
              ArgsEcho(g, l, t) /\ v.datum = Head(l) => ArgsEcho(g, Tail(l), Append(t, v))
<1>1. /\ Head(l) = l[1] /\ 1 \in DOMAIN l /\ Head(l) \in Datum /\ Len(Tail(l)) = Len(l) - 1
      /\ \A i \in DOMAIN Tail(l) : i + 1 \in DOMAIN l /\ Tail(l)[i] = l[i + 1]
      /\ Len(l) \in Nat /\ DOMAIN Tail(l) \subseteq Nat
  BY TailFacts, SeqFacts
<1>2. ASSUME NEW k \in Nat, Arrives(g, l, k)
      PROVE  /\ IsEcho(g[k + 1], Head(l)) /\ Arrives(g, Tail(l), k + 1)
             /\ k + 1 + Len(Tail(l)) = k + Len(l) /\ 0 + (k + 1) = k + 1
  <2>1. IsEcho(g[k + 1], Head(l))
    BY <1>1, <1>2 DEF Arrives
  <2>2. ASSUME NEW i \in DOMAIN Tail(l)
        PROVE  IsEcho(g[k + 1 + i], Tail(l)[i])
    <3>1. k + 1 + i = k + (i + 1)
      BY <1>1
    <3>2. IsEcho(g[k + (i + 1)], l[i + 1])
      BY <1>1, <1>2 DEF Arrives
    <3>. QED
      BY <1>1, <3>1, <3>2
  <2>3. PICK n \in Nat : n = Len(l)
    BY <1>1
  <2>4. k + 1 + (n - 1) = k + n
    OBVIOUS
  <2>. QED
    BY <1>1, <2>1, <2>2, <2>3, <2>4 DEF Arrives
<1>3. ASSUME NEW r \in Seq(Datum \cup {NoDatum}), TakeEcho(g, l, r)
      PROVE  TakeEcho(g, Tail(l), Append(r, Head(l)))
  <2>1. PICK a : a = Append(r, Head(l))
    OBVIOUS
  <2>2. /\ Len(r) \in Nat /\ Len(a) = Len(r) + 1 /\ a[Len(r) + 1] = Head(l)
        /\ \A i \in DOMAIN r : a[i] = r[i]
        /\ \A i \in DOMAIN a : i \in DOMAIN r \/ i = Len(r) + 1
    BY <1>1, <2>1, AppendFacts, SeqFacts
  <2>3. Len(r) + Len(l) = Len(g) /\ Arrives(g, r, 0) /\ Arrives(g, l, Len(r))
    BY <1>3 DEF TakeEcho
  <2>4. /\ IsEcho(g[Len(r) + 1], Head(l)) /\ Arrives(g, Tail(l), Len(r) + 1)
        /\ Len(r) + 1 + Len(Tail(l)) = Len(r) + Len(l) /\ 0 + (Len(r) + 1) = Len(r) + 1
    BY <1>2, <2>2, <2>3
  <2>5. ASSUME NEW i \in DOMAIN a
        PROVE  IsEcho(g[0 + i], a[i])
    <3>1. CASE i = Len(r) + 1
      BY <2>2, <2>4, <3>1
    <3>2. CASE i \in DOMAIN r
      BY <2>2, <2>3, <3>2 DEF Arrives
    <3>. QED
      BY <2>2, <3>1, <3>2
  <2>6. Arrives(g, a, 0)
    BY <2>5 DEF Arrives
  <2>. QED
    BY <2>1, <2>2, <2>3, <2>4, <2>6 DEF TakeEcho
<1>4. ASSUME NEW t \in Seq(Value), NEW v \in Value, ArgsEcho(g, l, t), v.datum = Head(l)
      PROVE  ArgsEcho(g, Tail(l), Append(t, v))
  <2>1. PICK a : a = Append(t, v)
    OBVIOUS
  <2>2. /\ Len(t) \in Nat /\ Len(a) = Len(t) + 1 /\ a[Len(t) + 1] = v
        /\ \A i \in DOMAIN t : a[i] = t[i]
        /\ \A i \in DOMAIN a : i \in DOMAIN t \/ i = Len(t) + 1
    BY <2>1, AppendFacts, SeqFacts
  <2>3. Len(t) + Len(l) = Len(g) /\ WillArrive(g, t, 0) /\ Arrives(g, l, Len(t))
    BY <1>4 DEF ArgsEcho
  <2>4. /\ IsEcho(g[Len(t) + 1], Head(l)) /\ Arrives(g, Tail(l), Len(t) + 1)
        /\ Len(t) + 1 + Len(Tail(l)) = Len(t) + Len(l) /\ 0 + (Len(t) + 1) = Len(t) + 1
    BY <1>2, <2>2, <2>3
  <2>5. ASSUME NEW i \in DOMAIN a
        PROVE  IsLost(a[i]) \/ IsEcho(g[0 + i], a[i].datum)
    <3>1. CASE i = Len(t) + 1
      BY <1>4, <2>2, <2>4, <3>1
    <3>2. CASE i \in DOMAIN t
      BY <2>2, <2>3, <3>2 DEF WillArrive
    <3>. QED
      BY <2>2, <3>1, <3>2
  <2>6. WillArrive(g, a, 0)
    BY <2>5 DEF WillArrive
  <2>. QED
    BY <2>1, <2>2, <2>3, <2>4, <2>6 DEF ArgsEcho
<1>. QED
  BY <1>3, <1>4

LEMMA EchoClose ==
  ASSUME NEW g, NEW l, NEW c, NEW t, NEW u, Len(u) = Len(t), DOMAIN u = DOMAIN t,
         \A i \in DOMAIN t : u[i] \in {t[i], Unusable}
  PROVE  /\ ConvertEcho(g, l, c, t) => ConvertEcho(g, l, c, u)
         /\ ResultsEcho(g, l, c, t) => ResultsEcho(g, l, c, u)
         /\ ArgsEcho(g, l, t) => ArgsEcho(g, l, u)
<1>1. \A k : WillBeSent(g, t, k) => WillBeSent(g, u, k)
  BY DEF WillBeSent
<1>2. \A k : WillArrive(g, t, k) => WillArrive(g, u, k)
  BY DEF WillArrive, IsLost
<1>. QED
  BY <1>1, <1>2 DEF ConvertEcho, ResultsEcho, ArgsEcho

(* One stage hands its values to the next one, through Lua or the Go body.   *)
LEMMA EchoMove ==
  ASSUME NEW g, NEW l \in Seq(Datum), NEW t \in Seq(Value), NEW u, DOMAIN u = DOMAIN t,
         Len(u) = Len(t), \A i \in DOMAIN t : u[i] = t[i] \/ u[i] \in HollowValues
  PROVE  /\ ConvertEcho(g, l, <<>>, <<>>) => /\ TakeEcho(g, Through(l), <<>>)
                                             /\ ArgsEcho(g, Through(l), <<>>)
         /\ ResultsEcho(g, l, <<>>, <<>>) => TakeEcho(g, Through(l), <<>>)
         /\ ArgsEcho(g, <<>>, t) => ResultsEcho(g, <<>>, <<>>, u)
<1>1. Len(<<>>) = 0 /\ DOMAIN <<>> = {}
  BY EmptyFacts
<1>2. PICK k \in Nat, n \in Nat : k = Len(l) /\ n = Len(t)
  BY SeqFacts
<1>3. k + 0 + 0 = 0 + k /\ 0 + 0 + n = n + 0 /\ 0 + 0 = 0
  OBVIOUS
<1>4. /\ Len(l) + Len(<<>>) + Len(<<>>) = Len(<<>>) + Len(Through(l))
      /\ Len(<<>>) + Len(<<>>) + Len(u) = Len(t) + Len(<<>>)
      /\ Len(<<>>) + Len(<<>>) = 0
  BY <1>1, <1>2, <1>3, ThroughFacts
<1>5. \A k2 : /\ Arrives(g, <<>>, k2) /\ ArrivesAs(g, <<>>, k2)
              /\ WillArrive(g, <<>>, k2) /\ WillBeSent(g, <<>>, k2)
  BY <1>1 DEF Arrives, ArrivesAs, WillArrive, WillBeSent
<1>6. Sent(g, l, 0) \/ Arrives(g, l, 0) => Arrives(g, Through(l), 0)
  <2>1. ASSUME NEW i \in DOMAIN l, IsSent(g[0 + i], l[i]) \/ IsEcho(g[0 + i], l[i])
        PROVE  IsEcho(g[0 + i], Through(l)[i])
    BY <2>1, ThroughFacts, EchoTwice
  <2>. QED
    BY <2>1, ThroughFacts DEF Sent, Arrives
<1>7. ConvertEcho(g, l, <<>>, <<>>) \/ ResultsEcho(g, l, <<>>, <<>>) =>
        TakeEcho(g, Through(l), <<>>) /\ ArgsEcho(g, Through(l), <<>>)
  BY <1>1, <1>4, <1>5, <1>6 DEF ConvertEcho, ResultsEcho, TakeEcho, ArgsEcho
<1>8. WillArrive(g, t, 0) => WillArrive(g, u, 0)
  BY DEF WillArrive, IsLost
<1>9. ArgsEcho(g, <<>>, t) => ResultsEcho(g, <<>>, <<>>, u)
  BY <1>4, <1>5, <1>8 DEF ResultsEcho, ArgsEcho
<1>. QED
  BY <1>7, <1>9

(* What is passed at first, and what has come back at last. *)
LEMMA EchoEnds ==
  /\ \A s \in Seq(Value) : ConvertEcho([i \in DOMAIN s |-> s[i].datum], <<>>, <<>>, s)
  /\ \A r \in Seq(Datum \cup {NoDatum}), g \in Seq(Datum \cup {NoDatum} \cup Hollow) :
       TakeEcho(g, <<>>, r) => r = [i \in DOMAIN g |-> AsLua[Lossy[g[i]]]]
<1>1. Len(<<>>) = 0 /\ DOMAIN <<>> = {}
  BY EmptyFacts
<1>2. ASSUME NEW s \in Seq(Value), NEW g, g = [i \in DOMAIN s |-> s[i].datum]
      PROVE  ConvertEcho(g, <<>>, <<>>, s)
  <2>1. PICK n \in Nat : n = Len(s) /\ DOMAIN s = 1 .. n
    BY SeqFacts
  <2>2. Len(g) = n
    BY <1>2, <2>1
  <2>3. 0 + 0 + n = n /\ 0 + 0 = 0 /\ \A i \in 1 .. n : 0 + i = i
    OBVIOUS
  <2>4. Len(<<>>) + Len(<<>>) + Len(s) = Len(g) /\ Len(<<>>) + Len(<<>>) = 0
    BY <1>1, <2>1, <2>2, <2>3
  <2>5. WillBeSent(g, s, 0)
    BY <1>2, <2>1, <2>3 DEF WillBeSent
  <2>6. Sent(g, <<>>, 0) /\ SentAs(g, <<>>, Len(<<>>))
    BY <1>1 DEF Sent, SentAs
  <2>. QED
    BY <2>4, <2>5, <2>6 DEF ConvertEcho
<1>3. ASSUME NEW r \in Seq(Datum \cup {NoDatum}),
             NEW g \in Seq(Datum \cup {NoDatum} \cup Hollow), TakeEcho(g, <<>>, r)
      PROVE  r = [i \in DOMAIN g |-> AsLua[Lossy[g[i]]]]
  <2>1. PICK n \in Nat : n = Len(r) /\ r \in [1 .. n -> Datum \cup {NoDatum}]
    BY SeqDef, LenProperties
  <2>2. n + 0 = n /\ \A i \in 1 .. n : 0 + i = i
    OBVIOUS
  <2>3. Len(r) + Len(<<>>) = Len(g) /\ Arrives(g, r, 0)
    BY <1>3 DEF TakeEcho
  <2>4. Len(g) = n
    BY <1>1, <2>1, <2>2, <2>3
  <2>5. DOMAIN g = 1 .. n
    BY <2>4, LenProperties
  <2>6. \A i \in 1 .. n : r[i] = AsLua[Lossy[g[i]]]
    BY <2>1, <2>2, <2>3 DEF Arrives, IsEcho
  <2>. QED
    BY <2>1, <2>5, <2>6
<1>. QED
  BY <1>2, <1>3

(* EchoOK, action by action. *)
LEMMA EchoBegins ==
  ASSUME Base, NEW op \in Op, Begin(op)
  PROVE  EchoOK'
<1>1. PICK r \in Receiver(op), s \in Args(op) :
        call' = [NoCall EXCEPT !.op = op, !.recv = r, !.pc = "convert", !.todo = s,
                               !.given = [i \in DOMAIN s |-> s[i].datum]]
  BY DEF Begin
<1>2. /\ call'.op = op /\ call'.pc = "convert" /\ call'.todo = s /\ call'.conv = <<>>
      /\ call'.given = [i \in DOMAIN s |-> s[i].datum] /\ call'.got = <<>>
  BY <1>1 DEF NoCall
<1>3. op \in {"one", "two", "many", "chunk"} /\ HeapType /\ WrapType /\ ListsType
  BY ValuesAssumption DEF Begin, Base, Owning
<1>4. s \in Seq(Value)
  BY <1>3, ArgsFacts
<1>5. op = "many" => lists'["call"] = <<>>
  BY <1>3 DEF Begin, List
<1>6. op = "many" => ConvertEcho(call'.given, lists'["call"], call'.conv, call'.todo)
  BY <1>2, <1>4, <1>5, EchoEnds
<1>. QED
  BY <1>2, <1>6 DEF EchoOK

LEMMA EchoConverts ==
  ASSUME Base, EchoOK, Converts
  PROVE  EchoOK'
<1>1. /\ TypeOK /\ WrappersOK /\ TodoOK /\ call \in Call /\ StagesOK /\ Owning
  BY BaseParts DEF Base, Owning
<1>2. Converting /\ call.todo # <<>> /\ call.pc \in {"convert", "results"}
  BY DEF Converts, ConvertWrapper, ConvertGoString, ConvertScalar, ConvertChunkString, Converting
<1>3. Head(call.todo) = call.todo[1] /\ 1 \in DOMAIN call.todo
  BY <1>1, <1>2, CallFields, TailFacts
<1>4. call.op = "chunk" => Head(call.todo) \in GoStrings
  BY <1>1, <1>2, <1>3 DEF StagesOK
<1>5. Head(call.todo).datum \in Datum /\ lists' = lists
  BY <1>1, <1>4, ConvertStep
<1>6. PICK c : Convert(c)
  BY <1>1, <1>4, ConvertStep
<1>7. c \in CValue /\ c.datum = Lossy[Head(call.todo).datum]
  BY <1>6 DEF Convert
<1>8. /\ call'.todo = Tail(call.todo) /\ call'.conv = Append(call.conv, c)
      /\ call'.op = call.op /\ call'.pc = call.pc /\ call'.given = call.given
      /\ call'.got = call.got
  BY <1>1, <1>6 DEF Convert, Call
<1>9. call.op = "many" => call.conv = <<>>
  BY <1>2 DEF Converting
<1>10. /\ call.op = "many" /\ call.pc = "convert" => lists["call"] \in Seq(Datum)
       /\ call.op = "many" /\ call.pc = "results" => lists["out"] \in Seq(Datum)
  BY ListFacts DEF Base, ListsOK, List
<1>11. ASSUME NEW l \in Seq(Datum), call.op = "many"
       PROVE  /\ ConvertEcho(call.given, l, call.conv, call.todo) =>
                   ConvertEcho(call'.given, l, call'.conv, call'.todo)
              /\ ResultsEcho(call.given, l, call.conv, call.todo) =>
                   ResultsEcho(call'.given, l, call'.conv, call'.todo)
  <2>1. PICK f : f = Append(<<>>, c)
    OBVIOUS
  <2>2. call.todo \in Seq(Value)
    BY <1>1, CallFields
  <2>3. /\ ConvertEcho(call.given, l, <<>>, call.todo) =>
             ConvertEcho(call.given, l, f, Tail(call.todo))
        /\ ResultsEcho(call.given, l, <<>>, call.todo) =>
             ResultsEcho(call.given, l, f, Tail(call.todo))
    BY <1>2, <1>5, <1>7, <2>1, <2>2, EchoConvert
  <2>. QED
    BY <1>8, <1>9, <1>11, <2>1, <2>3
<1>12. call.op = "many" /\ call.pc = "convert" =>
         ConvertEcho(call'.given, lists'["call"], call'.conv, call'.todo)
  BY <1>5, <1>10, <1>11 DEF EchoOK
<1>13. call.op = "many" /\ call.pc = "results" =>
         ResultsEcho(call'.given, lists'["out"], call'.conv, call'.todo)
  BY <1>5, <1>10, <1>11 DEF EchoOK
<1>14. call.op = "many" => call'.got = <<>>
  BY <1>2, <1>8 DEF EchoOK
<1>. QED
  BY <1>2, <1>8, <1>12, <1>13, <1>14 DEF EchoOK

LEMMA EchoPushes ==
  ASSUME Base, EchoOK, Push
  PROVE  EchoOK'
<1>1. /\ call.op = "many" /\ call.pc \in {"convert", "results"} /\ call.conv # <<>>
      /\ call' = [call EXCEPT !.conv = <<>>]
      /\ call \in Call /\ Len(call.conv) <= 1
  BY DEF Push, Pushing, Base, StagesOK
<1>2. PICK l \in {"call", "out"} :
        /\ l = IF call.pc = "convert" THEN "call" ELSE "out"
        /\ lists' = [lists EXCEPT ![l] = Append(lists[l], Head(call.conv).datum)]
  BY DEF Push, Pushed
<1>3. /\ call'.pc = call.pc /\ call'.todo = call.todo /\ call'.conv = <<>>
      /\ call'.op = "many" /\ call'.given = call.given /\ call'.got = call.got
  BY <1>1 DEF Call
<1>4. lists[l] \in Seq(Datum)
  BY <1>1, <1>2, ListFacts DEF Base, ListsOK, List
<1>5. lists'[l] = Append(lists[l], Head(call.conv).datum)
  BY <1>2 DEF Base, ListsType, List
<1>6. call.conv \in Seq(CValue) /\ Len(call.todo) \in Nat
  BY <1>1, CallFields, SeqFacts
<1>7. /\ ConvertEcho(call.given, lists[l], call.conv, call.todo) =>
           ConvertEcho(call.given, lists'[l], <<>>, call.todo)
      /\ ResultsEcho(call.given, lists[l], call.conv, call.todo) =>
           ResultsEcho(call.given, lists'[l], <<>>, call.todo)
  BY <1>1, <1>4, <1>5, <1>6, EchoPush
<1>8. call.pc = "convert" => ConvertEcho(call'.given, lists'["call"], call'.conv, call'.todo)
  BY <1>1, <1>2, <1>3, <1>7 DEF EchoOK
<1>9. call.pc = "results" => ResultsEcho(call'.given, lists'["out"], call'.conv, call'.todo)
  BY <1>1, <1>2, <1>3, <1>7 DEF EchoOK
<1>. QED
  BY <1>1, <1>3, <1>8, <1>9 DEF EchoOK

LEMMA EchoCloses ==
  ASSUME Base, EchoOK, NEW b \in Box, CloseValue(b)
  PROVE  EchoOK'
<1>1. b \in wrappers /\ lists' = lists
  BY DEF CloseValue
<1>2. /\ call'.pc = call.pc /\ call'.op = call.op
      /\ call'.conv = call.conv /\ call'.given = call.given /\ call'.got = call.got
      /\ Len(call'.todo) = Len(call.todo) /\ DOMAIN call'.todo = DOMAIN call.todo
      /\ \A i \in DOMAIN call.todo : call'.todo[i] \in {call.todo[i], Unusable}
  BY <1>1, CloseOwns DEF Base
<1>3. ASSUME NEW l
      PROVE  /\ ConvertEcho(call.given, l, call.conv, call.todo) =>
                  ConvertEcho(call.given, l, call.conv, call'.todo)
             /\ ResultsEcho(call.given, l, call.conv, call.todo) =>
                  ResultsEcho(call.given, l, call.conv, call'.todo)
             /\ ArgsEcho(call.given, l, call.todo) => ArgsEcho(call.given, l, call'.todo)
  BY <1>2, EchoClose
<1>. QED
  BY <1>1, <1>2, <1>3 DEF EchoOK

(* A call that fails has brought nothing back. *)
LEMMA EchoFails ==
  ASSUME Base, EchoOK, call.pc \in {"convert", "args", "results"}, NEW H, Fail(H)
  PROVE  EchoOK'
<1>1. call'.pc = "error" /\ call'.op = call.op /\ call'.got = call.got
  BY DEF Fail, Base, Call
<1>. QED
  BY <1>1 DEF EchoOK

LEMMA EchoGivesUp ==
  ASSUME Base, EchoOK, ConvertFails \/ ConvertPanics \/ BodyFails
  PROVE  EchoOK'
<1>1. CASE CallbackFails /\ call.pc \in {"args", "results"}
  BY <1>1, EchoFails DEF CallbackFails
<1>2. CASE GiveUp /\ call.pc = "convert"
  <2>1. call'.pc = "idle" /\ call'.op = call.op /\ call'.got = call.got
    BY <1>2 DEF GiveUp, Base, Call
  <2>. QED
    BY <1>2, <2>1 DEF EchoOK
<1>3. CASE ConvertPanics
  <2>1. CASE call.pc = "results"
    <3>1. call'.pc = "error" /\ call'.op = call.op /\ call'.got = call.got
      BY <1>3, <2>1 DEF ConvertPanics, PanicRecovered, Base, Call
    <3>. QED
      BY <2>1, <3>1 DEF EchoOK
  <2>2. CASE call.pc # "results"
    <3>1. call'.pc = "panicked"
      BY <1>3, <2>2 DEF ConvertPanics, PanicsOut, Base, Call
    <3>. QED
      BY <3>1 DEF EchoOK
  <2>. QED
    BY <2>1, <2>2
<1>. QED
  BY <1>1, <1>2, <1>3 DEF ConvertFails, BodyFails, Converting

(* Rust methods that are not calls of a function. *)
LEMMA EchoOthers ==
  ASSUME Base, InvokeMethod \/ InvokeChunk
  PROVE  EchoOK'
<1>1. call \in Call /\ call.op # "many"
  BY DEF Base, InvokeMethod, InvokeChunk
<1>2. (\E p : Done(p)) \/ (\E H : Fail(H))
  BY DEF InvokeMethod, InvokeChunk
<1>3. call'.op = call.op
  BY <1>1, <1>2 DEF Done, Fail, Call
<1>. QED
  BY <1>1, <1>3 DEF EchoOK

LEMMA EchoInvokes ==
  ASSUME Base, EchoOK, InvokeFunction
  PROVE  EchoOK'
<1>1. /\ call.op = "many" /\ call.pc = "convert" /\ call.conv = <<>> /\ call.todo = <<>>
      /\ call \in Call /\ ListsType
  BY DEF InvokeFunction, Ready, Base
<1>2. lists["call"] \in Seq(Datum) /\ lists["call"] # NoList
  BY <1>1, ListFacts DEF Base, ListsOK, List
<1>3. CASE Fail(heap)
  BY <1>1, <1>3, EchoFails
<1>4. ASSUME NEW p \in {"take", "args"}, NEW l, l = IF p = "take" THEN "rets" ELSE "args",
             Done(p), lists' = [lists EXCEPT !["call"] = NoList, ![l] = Through(lists["call"])]
      PROVE  EchoOK'
  <2>1. /\ call'.pc = p /\ call'.op = "many" /\ call'.todo = <<>> /\ call'.given = call.given
        /\ call'.got = call.got
    BY <1>1, <1>4 DEF Done, Call
  <2>2. lists'[l] = Through(lists["call"])
    BY <1>1, <1>4 DEF ListsType, List
  <2>3. ConvertEcho(call.given, lists["call"], <<>>, <<>>) /\ call.got = <<>>
    BY <1>1 DEF EchoOK
  <2>4. <<>> \in Seq(Value)
    BY EmptyFacts
  <2>5. /\ TakeEcho(call.given, Through(lists["call"]), <<>>)
        /\ ArgsEcho(call.given, Through(lists["call"]), <<>>)
    BY <1>2, <2>3, <2>4, EchoMove
  <2>. QED
    BY <1>4, <2>1, <2>2, <2>3, <2>5 DEF EchoOK
<1>. QED
  BY <1>3, <1>4 DEF InvokeFunction

LEMMA EchoTakes ==
  ASSUME PointersRead, Base, EchoOK, TakeArg \/ Take
  PROVE  EchoOK'
<1>1. call \in Call /\ ListsType /\ call.op = "many"
  BY DEF TakeArg, Take, Base, StagesOK
<1>2. CASE TakeArg
  <2>1. /\ call.pc = "args" /\ lists["args"] # <<>>
        /\ lists' = [lists EXCEPT !["args"] = Tail(lists["args"])]
    BY <1>2 DEF TakeArg
  <2>2. lists["args"] \in Seq(Datum)
    BY <1>1, <2>1, ListFacts DEF Base, ListsOK, List
  <2>3. PICK d \in Datum : d = Head(lists["args"])
    BY <2>1, <2>2, TailFacts
  <2>4. ~Faults(d)
    BY <1>2, <2>3 DEF TakeArg
  <2>5. PICK b \in Target(heap, d) :
          call' = [call EXCEPT !.todo = Append(call.todo, [box |-> b, datum |-> Decode(d)])]
    BY <1>2, <2>3 DEF TakeArg
  <2>6. b \in Box \cup {NoBox} /\ Decode(d) = d
    BY <2>4, TargetFacts, DecodeFacts DEF New
  <2>7. PICK v : v = [box |-> b, datum |-> d]
    OBVIOUS
  <2>8. v \in Value /\ v.datum = d
    BY <2>6, <2>7 DEF Value
  <2>9. /\ call'.pc = "args" /\ call'.op = "many" /\ call'.given = call.given
        /\ call'.got = call.got /\ call'.todo = Append(call.todo, v)
    BY <1>1, <2>1, <2>5, <2>6, <2>7 DEF Call
  <2>10. lists'["args"] = Tail(lists["args"])
    BY <1>1, <2>1 DEF ListsType, List
  <2>11. call.todo \in Seq(Value)
    BY <1>1, CallFields
  <2>12. ArgsEcho(call.given, lists["args"], call.todo) /\ call.got = <<>>
    BY <1>1, <2>1 DEF EchoOK
  <2>13. ArgsEcho(call.given, Tail(lists["args"]), Append(call.todo, v))
    BY <2>1, <2>2, <2>3, <2>8, <2>11, <2>12, EchoTake
  <2>. QED
    BY <2>9, <2>10, <2>12, <2>13 DEF EchoOK
<1>3. CASE Take
  <2>1. /\ call.pc = "take" /\ lists["rets"] # <<>>
        /\ lists' = [lists EXCEPT !["rets"] = Tail(lists["rets"])]
    BY <1>3 DEF Take
  <2>2. lists["rets"] \in Seq(Datum)
    BY <1>1, <2>1, ListFacts DEF Base, ListsOK, List
  <2>3. PICK d \in Datum : d = Head(lists["rets"])
    BY <2>1, <2>2, TailFacts
  <2>4. ~Faults(d) /\ call' = [call EXCEPT !.got = Append(call.got, Decode(d))]
    BY <1>3, <2>3 DEF Take
  <2>5. Decode(d) = d
    BY <2>4, DecodeFacts
  <2>6. /\ call'.pc = "take" /\ call'.op = "many" /\ call'.given = call.given
        /\ call'.got = Append(call.got, d)
    BY <1>1, <2>1, <2>4, <2>5 DEF Call
  <2>7. lists'["rets"] = Tail(lists["rets"])
    BY <1>1, <2>1 DEF ListsType, List
  <2>8. call.got \in Seq(Datum \cup {NoDatum})
    BY <1>1, CallFields
  <2>9. TakeEcho(call.given, lists["rets"], call.got)
    BY <1>1, <2>1 DEF EchoOK
  <2>10. TakeEcho(call.given, Tail(lists["rets"]), Append(call.got, d))
    BY <2>1, <2>2, <2>3, <2>8, <2>9, EchoTake
  <2>. QED
    BY <2>6, <2>7, <2>10 DEF EchoOK
<1>. QED
  BY <1>2, <1>3

LEMMA EchoGoesBack ==
  ASSUME Base, EchoOK, BodyReturns \/ CallbackReturns \/ TakeError \/ TakePanics \/ Return
  PROVE  EchoOK'
<1>1. call \in Call /\ ListsType
  BY DEF Base
<1>2. CASE BodyReturns
  <2>1. /\ call.pc = "args" /\ call.op = "many" /\ call.conv = <<>> /\ lists["args"] = <<>>
        /\ lists' = [lists EXCEPT !["out"] = <<>>]
    BY <1>2 DEF BodyReturns, Base, StagesOK
  <2>2. PICK s \in Seq(Value) :
          /\ call' = [call EXCEPT !.pc = "results", !.todo = s]
          /\ DOMAIN s = DOMAIN call.todo /\ Len(s) = Len(call.todo)
          /\ \A i \in DOMAIN s : s[i] = call.todo[i] \/ s[i] \in HollowValues
    BY <1>1, <1>2, BodyGives
  <2>3. /\ call'.pc = "results" /\ call'.op = "many" /\ call'.given = call.given
        /\ call'.got = call.got /\ call'.conv = <<>> /\ call'.todo = s
        /\ lists'["out"] = <<>>
    BY <1>1, <2>1, <2>2 DEF Call, ListsType, List
  <2>4. ArgsEcho(call.given, <<>>, call.todo) /\ call.got = <<>>
    BY <2>1 DEF EchoOK
  <2>5. call.todo \in Seq(Value) /\ <<>> \in Seq(Datum)
    BY <1>1, CallFields, EmptyFacts
  <2>6. ResultsEcho(call.given, <<>>, <<>>, s)
    BY <2>4, <2>5, <2>2, EchoMove
  <2>. QED
    BY <2>3, <2>4, <2>6 DEF EchoOK
<1>3. CASE CallbackReturns
  <2>1. /\ call.pc = "results" /\ call.op = "many" /\ call.conv = <<>> /\ call.todo = <<>>
        /\ Done("take")
        /\ lists' = [lists EXCEPT !["args"] = NoList, !["out"] = NoList,
                                  !["rets"] = Through(lists["out"])]
    BY <1>3 DEF CallbackReturns, Base, StagesOK
  <2>2. /\ call'.pc = "take" /\ call'.op = "many" /\ call'.given = call.given
        /\ call'.got = call.got /\ lists'["rets"] = Through(lists["out"])
    BY <1>1, <2>1 DEF Done, Call, ListsType, List
  <2>3. ResultsEcho(call.given, lists["out"], <<>>, <<>>) /\ call.got = <<>>
    BY <2>1 DEF EchoOK
  <2>4. lists["out"] \in Seq(Datum) /\ <<>> \in Seq(Value)
    BY <1>1, <2>1, ListFacts, EmptyFacts DEF Base, ListsOK, List
  <2>5. TakeEcho(call.given, Through(lists["out"]), <<>>)
    BY <2>3, <2>4, EchoMove
  <2>. QED
    BY <2>2, <2>3, <2>5 DEF EchoOK
<1>4. CASE TakeError
  <2>1. /\ call.pc = "error" /\ call'.pc = "idle" /\ call'.op = call.op /\ call'.got = call.got
    BY <1>1, <1>4 DEF TakeError, Call
  <2>. QED
    BY <2>1 DEF EchoOK
<1>5. CASE TakePanics
  <2>1. call'.pc = "panicked"
    BY <1>1, <1>5 DEF TakePanics, Done, Call
  <2>. QED
    BY <2>1 DEF EchoOK
<1>6. CASE Return
  <2>1. call.pc = "take" /\ lists["rets"] = <<>> /\ Done("idle")
    BY <1>6 DEF Return
  <2>2. /\ call'.pc = "idle" /\ call'.op = call.op /\ call'.given = call.given
        /\ call'.got = call.got
    BY <1>1, <2>1 DEF Done, Call
  <2>. QED
    BY <2>1, <2>2 DEF EchoOK
<1>. QED
  BY <1>2, <1>3, <1>4, <1>5, <1>6

LEMMA EchoNext ==
  ASSUME PointersRead, Base, EchoOK, [Next]_vars
  PROVE  EchoOK'
<1>1. CASE UNCHANGED <<call, lists>>
  BY <1>1 DEF EchoOK
<1>2. ASSUME NEW d \in Datum, Receive(d) \/ ReceivePanics(d)
      PROVE  EchoOK'
  <2>1. CASE Receive(d)
    BY <1>1, <2>1 DEF Receive
  <2>2. CASE ReceivePanics(d)
    <3>1. call'.op = "each"
      BY <2>2 DEF ReceivePanics, NoCall
    <3>. QED
      BY <3>1 DEF EchoOK
  <2>. QED
    BY <1>2, <2>1, <2>2
<1>3. ASSUME NEW b \in Box, CloseValue(b)
      PROVE  EchoOK'
  BY <1>3, EchoCloses
<1>4. ASSUME NEW op \in Op, Begin(op)
      PROVE  EchoOK'
  BY <1>4, EchoBegins
<1>5. CASE ConvertWrapper \/ ConvertGoString \/ ConvertScalar \/ ConvertChunkString
  BY <1>5, EchoConverts DEF Converts
<1>6. CASE ConvertFails \/ ConvertPanics \/ BodyFails
  BY <1>6, EchoGivesUp
<1>7. CASE Push \/ InvokeMethod \/ InvokeChunk \/ InvokeFunction
  BY <1>7, EchoPushes, EchoOthers, EchoInvokes
<1>8. CASE TakeArg \/ Take
  BY <1>8, EchoTakes
<1>9. CASE BodyReturns \/ CallbackReturns \/ TakeError \/ TakePanics \/ Return
  BY <1>9, EchoGoesBack
<1>. QED
  BY <1>1, <1>2, <1>3, <1>4, <1>5, <1>6, <1>7, <1>8, <1>9 DEF Next, vars

(* The identity function returns what it was given, Lua's or Go's, as Lua    *)
(* holds it: for any number of arguments of any kinds, whatever Lua makes of *)
(* a value (an Integer of an integral Number), whatever fails, panics or is  *)
(* closed meanwhile, as long as no light userdata points at something that   *)
(* reads as another.  gluau adds no change of its own to Lua's.              *)
THEOREM EchoIsFaithful ==
  ASSUME PointersRead
  PROVE  Spec => []EchoFaithful
<1>. DEFINE Inv == Base /\ EchoOK
<1>1. Init => Inv
  <2>1. Init => EchoOK
    BY DEF Init, NoCall, EchoOK
  <2>. QED
    BY <2>1, BaseInit
<1>2. Inv /\ [Next]_vars => Inv'
  BY BaseNext, EchoNext
<1>3. Inv => EchoFaithful
  <2>1. ASSUME Inv, call.op = "many", call.pc = "idle", call.got # <<>>
        PROVE  call.got = [i \in DOMAIN call.given |-> AsLua[Lossy[call.given[i]]]]
    <3>1. TakeEcho(call.given, <<>>, call.got)
      BY <2>1 DEF EchoOK
    <3>2. call.given \in Seq(Datum \cup {NoDatum} \cup Hollow) /\ call.got \in Seq(Datum \cup {NoDatum})
      BY <2>1, CallFields DEF Base
    <3>. QED
      BY <3>1, <3>2, EchoEnds
  <2>. QED
    BY <2>1 DEF EchoFaithful
<1>. QED
  BY <1>1, <1>2, <1>3, PTL DEF Spec

-----------------------------------------------------------------------------
(* Labels.  A value in flight carries the tag of its own type, tables apart. *)

TagsOK == \A i \in DOMAIN call.conv :
            call.op # "chunk" => call.conv[i].tag = KindOf[call.conv[i].datum]

(* No step but a conversion puts a value in flight. *)
LEMMA NothingTakesOff ==
  ASSUME call \in Call, Next, ~Converts
  PROVE  call'.conv = <<>> \/ (call'.conv = call.conv /\ call'.op = call.op)
<1>1. ASSUME NEW p, Done(p)
      PROVE  call'.conv = <<>>
  BY <1>1 DEF Done, Call
<1>2. ASSUME NEW H, Fail(H)
      PROVE  call'.conv = <<>>
  BY <1>2 DEF Fail, Call
<1>3. ASSUME NEW d \in Datum, Receive(d) \/ ReceivePanics(d)
      PROVE  call'.conv = <<>> \/ (call'.conv = call.conv /\ call'.op = call.op)
  BY <1>3 DEF Receive, ReceivePanics, NoCall
<1>4. ASSUME NEW b \in Box, CloseValue(b)
      PROVE  call'.conv = call.conv /\ call'.op = call.op
  BY <1>4 DEF CloseValue, Call
<1>5. ASSUME NEW op \in Op, Begin(op)
      PROVE  call'.conv = <<>>
  BY <1>5 DEF Begin, NoCall
<1>6. CASE ConvertFails \/ ConvertPanics \/ BodyFails
  BY <1>2, <1>6 DEF ConvertFails, ConvertPanics, Converting, PanicsOut, PanicRecovered,
     BodyFails, CallbackFails, GiveUp, Call
<1>7. CASE InvokeMethod \/ InvokeChunk \/ InvokeFunction
  <2>1. (\E p : Done(p)) \/ (\E H : Fail(H))
    BY <1>7 DEF InvokeMethod, InvokeChunk, InvokeFunction
  <2>. QED
    BY <1>1, <1>2, <2>1
<1>8. CASE CallbackReturns \/ TakePanics \/ Return
  BY <1>1, <1>8 DEF CallbackReturns, TakePanics, Return
<1>9. CASE Push \/ TakeArg \/ BodyReturns \/ TakeError \/ Take
  BY <1>9 DEF Push, TakeArg, BodyReturns, TakeError, Take, Call
<1>. QED
  BY <1>3, <1>4, <1>5, <1>6, <1>7, <1>8, <1>9 DEF Next, Converts

(* A conversion labels what is no table as what it is. *)
LEMMA ConvertsLabel ==
  ASSUME \A d \in Datum : KindOf[d] # "Table", Base, Converts, call.op # "chunk"
  PROVE  \E c \in CValue : /\ call'.conv = Append(call.conv, c)
                           /\ c.tag = KindOf[c.datum]
<1>1. TypeOK /\ WrappersOK /\ HeapType /\ WrapType /\ call \in Call
  BY BaseParts DEF Base, Owning
<1>2. Converting /\ call.todo # <<>> /\ Head(call.todo) \in Value
  BY <1>1, HeadTyped DEF Converts, ConvertWrapper, ConvertGoString, ConvertScalar,
     ConvertChunkString, Converting
<1>3. \E b, d : /\ Converted([tag |-> KindOf[d], box |-> b, datum |-> d])
                /\ b \in Box \cup {NoBox} /\ d \in Datum
  <2>1. CASE ConvertWrapper
    <3>1. PICK w, b : /\ w \in wrappers /\ b \in New(heap)
                      /\ Converted([tag |-> TagFor(KindOf[heap[w].datum]), box |-> b,
                                    datum |-> Lossy[heap[w].datum]])
      BY <2>1 DEF ConvertWrapper, ConvertedTo
    <3>2. heap[w].datum \in Datum /\ b \in Box
      BY <1>1, <3>1, WrapperTyped DEF New
    <3>3. TagFor(KindOf[heap[w].datum]) = KindOf[Lossy[heap[w].datum]] /\ Lossy[heap[w].datum] \in Datum
      BY <3>2, ValuesAssumption DEF TagFor
    <3>. QED
      BY <3>1, <3>2, <3>3
  <2>2. CASE ConvertGoString
    <3>1. PICK b \in New(heap) :
            Converted([tag |-> "String", box |-> b, datum |-> Head(call.todo).datum])
      BY <2>2 DEF ConvertGoString, ConvertedTo
    <3>2. Head(call.todo).datum \in Datum /\ KindOf[Head(call.todo).datum] = "String"
      BY <2>2, GoStringFacts DEF ConvertGoString, IsGoString
    <3>. QED
      BY <3>1, <3>2 DEF New
  <2>3. CASE ConvertScalar
    <3>1. Converted([tag |-> KindOf[Head(call.todo).datum], box |-> NoBox,
                     datum |-> Head(call.todo).datum])
      BY <2>3 DEF ConvertScalar, ConvertedTo
    <3>2. Head(call.todo).datum \in Datum
      BY <2>3 DEF ConvertScalar, IsScalar, Scalars
    <3>. QED
      BY <3>1, <3>2
  <2>. QED
    BY <2>1, <2>2, <2>3 DEF Converts, ConvertChunkString
<1>4. PICK b, d : /\ Converted([tag |-> KindOf[d], box |-> b, datum |-> d])
                  /\ b \in Box \cup {NoBox} /\ d \in Datum
  BY <1>3
<1>5. [tag |-> KindOf[d], box |-> b, datum |-> d] \in CValue
  BY <1>4, KindTyped DEF CValue
<1>6. call'.conv = Append(call.conv, [tag |-> KindOf[d], box |-> b, datum |-> d])
  BY <1>1, <1>4 DEF Converted, Call
<1>. QED
  BY <1>5, <1>6

LEMMA TagsNext ==
  ASSUME \A d \in Datum : KindOf[d] # "Table", Base, TagsOK, [Next]_vars
  PROVE  TagsOK'
<1>1. call \in Call /\ call.conv \in Seq(CValue)
  BY CallFields DEF Base
<1>2. CASE UNCHANGED vars
  BY <1>2 DEF vars, TagsOK
<1>3. CASE Next /\ ~Converts
  BY <1>1, <1>3, NothingTakesOff, EmptyFacts DEF TagsOK
<1>4. CASE Converts
  <2>1. call'.op = call.op
    BY <1>1, <1>4 DEF Converts, ConvertWrapper, ConvertGoString, ConvertScalar,
       ConvertChunkString, ConvertedTo, Converted, Call
  <2>2. SUFFICES ASSUME call.op # "chunk" PROVE TagsOK'
    BY <2>1 DEF TagsOK
  <2>3. PICK c \in CValue : call'.conv = Append(call.conv, c) /\ c.tag = KindOf[c.datum]
    BY <1>4, <2>2, ConvertsLabel
  <2>4. \A i \in DOMAIN call'.conv : \/ i \in DOMAIN call.conv /\ call'.conv[i] = call.conv[i]
                                     \/ call'.conv[i] = c
    BY <1>1, <2>3, AppendFacts
  <2>. QED
    BY <2>2, <2>3, <2>4 DEF TagsOK
<1>. QED
  BY <1>2, <1>3, <1>4

(* Where no tables cross, and no light userdata points at something else,    *)
(* every value is labelled as what it is and arrives as what Lua makes of    *)
(* it: gluau itself has no third way of changing one.                        *)
THEOREM NothingChanges ==
  ASSUME PointersRead, \A d \in Datum : KindOf[d] # "Table"
  PROVE  Spec => []CrossesUnchanged
<1>1. Init => TagsOK
  BY EmptyFacts DEF Init, NoCall, TagsOK
<1>2. Base /\ TagsOK /\ [Next]_vars => TagsOK'
  BY TagsNext
<1>3. TagsOK /\ EchoFaithful => CrossesUnchanged
  BY DEF TagsOK, CrossesUnchanged
<1>4. Spec => []EchoFaithful
  BY EchoIsFaithful
<1>. QED
  BY <1>1, <1>2, <1>3, <1>4, BaseAlways, PTL DEF Spec

-----------------------------------------------------------------------------
(* Panics *)

(* What is made in a nil lua: functions, and tables that Call returns. *)
NothingUnbound == unbound = {} /\ call.recv = NoBox

(* What is next to be taken out of a list is a value. *)
LEMMA ListHeads ==
  ASSUME Base
  PROVE  /\ call.pc = "args" /\ lists["args"] # <<>> => Head(lists["args"]) \in Datum
         /\ call.pc = "take" /\ lists["rets"] # <<>> => Head(lists["rets"]) \in Datum
<1>1. call.pc \in {"args", "take"} => call.op = "many"
  BY DEF Base, StagesOK
<1>2. /\ call.pc = "args" => lists["args"] \in Seq(Datum)
      /\ call.pc = "take" => lists["rets"] \in Seq(Datum)
  BY <1>1, ListFacts DEF Base, ListsOK, List
<1>. QED
  BY <1>2, TailFacts

LEMMA UnboundNext ==
  ASSUME \A d \in Datum : KindOf[d] \notin {"Function", "Table"}, Base, NothingUnbound, [Next]_vars
  PROVE  NothingUnbound'
<1>1. call \in Call
  BY DEF Base
<1>2. ASSUME NEW H, NEW d \in Datum, NEW b, NEW lua, Wrap(H, d, b, lua)
      PROVE  unbound' = {}
  BY <1>2 DEF Wrap, NothingUnbound
<1>3. ASSUME (\E p : Done(p)) \/ (\E H : Fail(H))
      PROVE  call'.recv = NoBox
  BY <1>1, <1>3 DEF Done, Fail, Call, NothingUnbound
<1>4. CASE UNCHANGED vars
  BY <1>4 DEF vars, NothingUnbound
<1>5. ASSUME NEW d \in Datum, Receive(d) \/ ReceivePanics(d)
      PROVE  NothingUnbound'
  BY <1>2, <1>5 DEF Receive, ReceivePanics, NoCall, NothingUnbound
<1>6. ASSUME NEW b \in Box, CloseValue(b)
      PROVE  NothingUnbound'
  BY <1>1, <1>6 DEF CloseValue, Call, NothingUnbound
<1>7. ASSUME NEW op \in Op, Begin(op)
      PROVE  NothingUnbound'
  BY <1>7 DEF Begin, Receiver, NoCall, NothingUnbound
<1>8. CASE Converts
  BY <1>1, <1>8 DEF Converts, ConvertWrapper, ConvertGoString, ConvertScalar,
     ConvertChunkString, ConvertedTo, Converted, Call, NothingUnbound
<1>9. CASE ConvertFails \/ ConvertPanics \/ BodyFails
  BY <1>1, <1>3, <1>9 DEF ConvertFails, ConvertPanics, PanicsOut, PanicRecovered, BodyFails,
     CallbackFails, GiveUp, Call, NothingUnbound
<1>10. CASE Push \/ BodyReturns \/ TakeError
  BY <1>1, <1>10 DEF Push, BodyReturns, TakeError, Call, NothingUnbound
<1>11. CASE InvokeMethod
  <2>1. ((\E p : Done(p)) \/ (\E H : Fail(H))) /\ unbound' = {}
    BY <1>2, <1>11 DEF InvokeMethod, FromLua, NothingUnbound
  <2>. QED
    BY <1>3, <2>1 DEF NothingUnbound
<1>12. CASE InvokeChunk \/ InvokeFunction \/ CallbackReturns \/ TakePanics \/ Return
  <2>1. ((\E p : Done(p)) \/ (\E H : Fail(H))) /\ unbound' = {}
    BY <1>12 DEF InvokeChunk, InvokeFunction, CallbackReturns, TakePanics, Return, NothingUnbound
  <2>. QED
    BY <1>3, <2>1 DEF NothingUnbound
<1>13. CASE TakeArg \/ Take
  <2>1. PICK d : \E b, lua : Wrap(heap, d, b, lua) /\ d \in Datum
    BY <1>13, ListHeads DEF TakeArg, Take
  <2>2. call'.recv = call.recv
    BY <1>1, <1>13 DEF TakeArg, Take, Call
  <2>. QED
    BY <1>2, <2>1, <2>2 DEF NothingUnbound
<1>. QED
  BY <1>4, <1>5, <1>6, <1>7, <1>8, <1>9, <1>10, <1>11, <1>12, <1>13 DEF Next, Converts

LEMMA PanicsNext ==
  ASSUME \A d \in Datum : ~Faults(d), Hollow = {}, Base, NoPanicEscapes,
         (\A d \in Datum : KindOf[d] # "String") \/ NothingUnbound, [Next]_vars
  PROVE  NoPanicEscapes'
<1>1. call \in Call
  BY DEF Base
<1>2. ASSUME NEW p \in {"idle", "take", "args", "results"}, Done(p)
      PROVE  call'.pc # "panicked"
  BY <1>1, <1>2 DEF Done, Call
<1>3. ASSUME NEW H, Fail(H)
      PROVE  call'.pc # "panicked"
  BY <1>1, <1>3 DEF Fail, Call
<1>4. CASE UNCHANGED vars
  BY <1>4 DEF vars, NoPanicEscapes
<1>5. ASSUME NEW d \in Datum, Receive(d) \/ ReceivePanics(d)
      PROVE  NoPanicEscapes'
  BY <1>5 DEF Receive, ReceivePanics, NoPanicEscapes
<1>6. ASSUME NEW b \in Box, CloseValue(b)
      PROVE  NoPanicEscapes'
  BY <1>1, <1>6 DEF CloseValue, Call, NoPanicEscapes
<1>7. ASSUME NEW op \in Op, Begin(op)
      PROVE  NoPanicEscapes'
  BY <1>7 DEF Begin, NoCall, NoPanicEscapes
<1>8. CASE Converts
  BY <1>1, <1>8 DEF Converts, ConvertWrapper, ConvertGoString, ConvertScalar,
     ConvertChunkString, ConvertedTo, Converted, Call, NoPanicEscapes
<1>9. ~ConvertPanics
  BY GoStringFacts DEF ConvertPanics, Panics, HollowValues, IsGoString, HasLua, NothingUnbound
<1>10. CASE ConvertFails \/ BodyFails
  BY <1>1, <1>3, <1>10 DEF ConvertFails, BodyFails, CallbackFails, GiveUp, Call, NoPanicEscapes
<1>11. CASE Push \/ BodyReturns \/ TakeError \/ TakeArg \/ Take
  BY <1>1, <1>11 DEF Push, BodyReturns, TakeError, TakeArg, Take, Call, NoPanicEscapes
<1>12. CASE InvokeMethod
  <2>1. Done("idle") \/ \E H : Fail(H)
    BY <1>12 DEF InvokeMethod, FromLua
  <2>. QED
    BY <1>2, <1>3, <2>1 DEF NoPanicEscapes
<1>13. CASE InvokeChunk \/ InvokeFunction \/ CallbackReturns \/ Return
  <2>1. Done("idle") \/ Done("take") \/ Done("args") \/ \E H : Fail(H)
    BY <1>13 DEF InvokeChunk, InvokeFunction, CallbackReturns, Return
  <2>. QED
    BY <1>2, <1>3, <2>1 DEF NoPanicEscapes
<1>14. ~TakePanics
  BY ListHeads DEF TakePanics
<1>. QED
  BY <1>4, <1>5, <1>6, <1>7, <1>8, <1>9, <1>10, <1>11, <1>12, <1>13, <1>14 DEF Next, Converts

(* No panic leaves a method or an iteration if every light userdata points   *)
(* at something, no value passed has nothing inside, and either no strings   *)
(* or no functions and tables cross: a null light userdata, the value of a   *)
(* nil *LuaTable, and a Go string for an object without a lua field are the  *)
(* causes there are.                                                         *)
THEOREM NothingPanics ==
  ASSUME \A d \in Datum : ~Faults(d), Hollow = {},
         \/ \A d \in Datum : KindOf[d] # "String"
         \/ \A d \in Datum : KindOf[d] \notin {"Function", "Table"}
  PROVE  Spec => []NoPanicEscapes
<1>. DEFINE Guard == (\A d \in Datum : KindOf[d] # "String") \/ NothingUnbound
<1>1. Init => Guard /\ NoPanicEscapes
  BY DEF Init, NoCall, NothingUnbound, NoPanicEscapes
<1>2. Base /\ Guard /\ [Next]_vars => Guard'
  BY UnboundNext
<1>3. Base /\ Guard /\ NoPanicEscapes /\ [Next]_vars => NoPanicEscapes'
  BY PanicsNext
<1>. HIDE DEF Guard
<1>. QED
  BY <1>1, <1>2, <1>3, BaseAlways, PTL DEF Spec
=============================================================================
