---------------------------- MODULE HandlesLocks ----------------------------
(***************************************************************************)
(* More machine-checked facts about Handles, on top of HandlesProofs: who  *)
(* holds which lock, who will free which allocation, what the finalizer    *)
(* goroutine can meet, and two kinds of program that cannot deadlock: one  *)
(* that leaves closing to the collector, and one that passes objects in an *)
(* order.  For every set of goroutines and objects, every shape of program *)
(* and every bound.                                                        *)
(***************************************************************************)
EXTENDS HandlesProofs

-----------------------------------------------------------------------------
(* Every read lock, held or waited for, belongs to one step range of one     *)
(* call in progress.                                                         *)

ArgHeld == {"argcheck", "clone", "enter", "runlock"}

TokenOK(h, t) ==
  LET f == frame[t[1]][t[2]] IN
    /\ Active(t[1], t[2])
    /\ f.kind \notin {"close", "bare"}
    /\ t[3] = "recv" => f.recv = h /\ f.pc # "rlock" /\ f.kind # "function"
    /\ t[3] = "arg" => /\ f.args # <<>> /\ Head(f.args) = h /\ f.pc \in ArgHeld
                       /\ f.pc = "enter" => f.kind \in {"env", "meta"}
    /\ t \in parked[h] => f.pc = IF t[3] = "recv" THEN "check" ELSE "argcheck"

TokensOK ==
  \A h \in Handle : /\ readers[h] \cap parked[h] = {}
                    /\ \A t \in readers[h] \cup parked[h] : TokenOK(h, t)

(* A step by the call a is in: the tokens of other calls stay what they were, *)
(* or leave, or are admitted.                                                 *)
OtherTokens(a) ==
  \A h \in Handle :
    /\ readers'[h] \cap parked'[h] = {}
    /\ \A t \in readers'[h] \cup parked'[h] : ~(t[1] = a /\ t[2] = top[a]) =>
         t \in readers[h] \cup parked[h] /\ (t \in parked'[h] => t \in parked[h])

LEMMA TokensAdvance ==
  ASSUME TypeOK, TypeOK', TokensOK, NEW a \in Actor, top[a] \in Depth,
         NEW pc, NEW args, NEW use, Advance(a, pc, args, use), OtherTokens(a),
         \A h \in Handle : \A t \in readers'[h] \cup parked'[h] : t[1] = a /\ t[2] = top[a] =>
           /\ Cur(a).kind \notin {"close", "bare"}
           /\ t[3] = "recv" => Recv(a) = h /\ pc # "rlock" /\ Cur(a).kind # "function"
           /\ t[3] = "arg" => /\ args # <<>> /\ Head(args) = h /\ pc \in ArgHeld
                              /\ pc = "enter" => Cur(a).kind \in {"env", "meta"}
           /\ t \in parked'[h] => pc = IF t[3] = "recv" THEN "check" ELSE "argcheck"
  PROVE  TokensOK'
<1>1. /\ top' = top
      /\ frame'[a][top[a]] = [kind |-> Cur(a).kind, recv |-> Recv(a), args |-> args,
                              pc |-> pc, use |-> use]
      /\ \A b \in Actor, e \in Depth : <<b, e>> # <<a, top[a]>> => frame'[b][e] = frame[b][e]
  BY AdvanceFrame
<1>. SUFFICES ASSUME NEW h \in Handle, NEW t \in readers'[h] \cup parked'[h]
              PROVE  TokenOK(h, t)'
  BY DEF TokensOK, OtherTokens
<1>2. t[1] \in Actor /\ t[2] \in Depth
  BY DEF TypeOK, Token
<1>3. CASE t[1] = a /\ t[2] = top[a]
  <2>1. Active(a, top[a])'
    BY <1>1 DEF Active, Depth, TypeOK
  <2>. QED
    BY <1>1, <1>3, <2>1 DEF TokenOK
<1>4. CASE ~(t[1] = a /\ t[2] = top[a])
  <2>1. TokenOK(h, t) /\ (t \in parked'[h] => t \in parked[h])
    BY <1>4 DEF OtherTokens, TokensOK
  <2>2. frame'[t[1]][t[2]] = frame[t[1]][t[2]] /\ Active(t[1], t[2])'
    BY <1>1, <1>2, <1>4, <2>1 DEF TokenOK, Active
  <2>. QED
    BY <2>1, <2>2 DEF TokenOK
<1>. QED
  BY <1>3, <1>4

LEMMA TokensPush ==
  ASSUME TypeOK, TokensOK, NEW a \in Actor, Ready(a), NEW f, Push(a, f),
         UNCHANGED <<readers, parked>>
  PROVE  TokensOK'
<1>1. /\ top'[a] = top[a] + 1
      /\ \A b \in Actor : b # a => top'[b] = top[b]
      /\ \A b \in Actor, e \in Depth : <<b, e>> # <<a, top[a] + 1>> => frame'[b][e] = frame[b][e]
  BY PushFrame
<1>. SUFFICES ASSUME NEW h \in Handle, NEW t \in readers[h] \cup parked[h]
              PROVE  TokenOK(h, t)'
  BY DEF TokensOK
<1>2. t[1] \in Actor /\ t[2] \in Depth /\ top[t[1]] \in Nat /\ TokenOK(h, t)
  BY HandlesAssumption DEF TypeOK, Token, TokensOK
<1>3. frame'[t[1]][t[2]] = frame[t[1]][t[2]] /\ Active(t[1], t[2])'
  BY <1>1, <1>2 DEF TokenOK, Active, Depth
<1>. QED
  BY <1>2, <1>3 DEF TokenOK

LEMMA TokensPop ==
  ASSUME TypeOK, TypeOK', TokensOK, NEW a \in Actor, top[a] \in Depth, Pop(a), OtherTokens(a),
         \A h \in Handle : \A t \in readers'[h] \cup parked'[h] : ~(t[1] = a /\ t[2] = top[a])
  PROVE  TokensOK'
<1>1. /\ top'[a] = top[a] - 1
      /\ \A b \in Actor : b # a => top'[b] = top[b]
      /\ \A b \in Actor, e \in Depth : <<b, e>> # <<a, top[a]>> => frame'[b][e] = frame[b][e]
  BY PopFrame
<1>. SUFFICES ASSUME NEW h \in Handle, NEW t \in readers'[h] \cup parked'[h]
              PROVE  TokenOK(h, t)'
  BY DEF TokensOK, OtherTokens
<1>2. /\ t[1] \in Actor /\ t[2] \in Depth /\ top[t[1]] \in Nat /\ top[a] \in Nat
      /\ ~(t[1] = a /\ t[2] = top[a])
  BY HandlesAssumption DEF TypeOK, Token
<1>3. TokenOK(h, t) /\ (t \in parked'[h] => t \in parked[h])
  BY <1>2 DEF OtherTokens, TokensOK
<1>4. frame'[t[1]][t[2]] = frame[t[1]][t[2]] /\ Active(t[1], t[2])'
  BY <1>1, <1>2, <1>3 DEF TokenOK, Active, Depth
<1>. QED
  BY <1>3, <1>4 DEF TokenOK

(* What the RWMutex operations do to the tokens of each object. *)
LEMMA RLockTokens ==
  ASSUME TypeOK, NEW h \in Handle, NEW t, RLock(h, t), NEW k \in Handle
  PROVE  IF k # h
           THEN readers'[k] = readers[k] /\ parked'[k] = parked[k]
           ELSE \/ readers'[k] = readers[k] \cup {t} /\ parked'[k] = parked[k]
                \/ readers'[k] = readers[k] /\ parked'[k] = parked[k] \cup {t}
  BY DEF RLock, TypeOK

LEMMA RUnlockTokens ==
  ASSUME TypeOK, NEW h \in Handle, NEW t, RUnlock(h, t), NEW k \in Handle
  PROVE  /\ k = h => readers'[k] = readers[k] \ {t}
         /\ k # h => readers'[k] = readers[k]
         /\ parked'[k] = parked[k]
  BY DEF RUnlock, TypeOK

LEMMA UnlockTokens ==
  ASSUME TypeOK, NEW h \in Handle, Unlock(h), NEW k \in Handle
  PROVE  /\ k = h => readers'[k] = readers[k] \cup parked[k] /\ parked'[k] = {}
         /\ k # h => readers'[k] = readers[k] /\ parked'[k] = parked[k]
  BY DEF Unlock, TypeOK

(* A token is the call that holds it, and the role of the object in it. *)
LEMMA TokenParts ==
  ASSUME TypeOK, NEW h \in Handle, NEW t \in readers[h] \cup parked[h]
  PROVE  t = <<t[1], t[2], t[3]>> /\ t[1] \in Actor /\ t[2] \in Depth /\ t[3] \in {"recv", "arg"}
  BY DEF TypeOK, Token

(* A step of a call that reads is a step of a call in progress. *)
LEMMA CallStepTop ==
  ASSUME TypeOK, NEW g \in Goroutine, CallStep(g) \/ CallbackEnds(g)
  PROVE  g \in Actor /\ top[g] > 0 /\ top[g] \in Depth
<1>1. g \in Actor /\ top[g] > 0
  BY DEF Actor, CallStep, CallbackEnds, CallbackReturn, FunctionReturns, FunctionPanics,
     RLockRecv, CheckRecv, RLockArg, CheckArg, CloneArg, ReadPeer, ReadPeerAgain,
     Enter, RUnlockArg, RUnlockRecv, CloseFunctionVm, ReadBare, ReadBareAgain,
     UseBare, At
<1>. QED
  BY <1>1, CurType

(* Each step of a call that reads keeps the locks accounted for. *)
LEMMA CallStepTokens ==
  ASSUME TypeOK, TypeOK', TokensOK, NEW g \in Goroutine, CallStep(g) \/ CallbackEnds(g),
         FrameOK(g, top[g])
  PROVE  TokensOK'
<1>g. g \in Actor
  BY DEF Actor
<1>t. top[g] > 0
  BY CallStepTop
<1>d. /\ top[g] \in Depth /\ Recv(g) \in Handle
      /\ Cur(g) = frame[g][top[g]] /\ Recv(g) = Cur(g).recv
      /\ Tok(g, "recv") = <<g, top[g], "recv">> /\ Tok(g, "arg") = <<g, top[g], "arg">>
      /\ Cur(g).args # <<>> => Arg(g) \in Handle /\ Arg(g) = Head(Cur(g).args)
      /\ Cur(g).pc \in Converting => Cur(g).args # <<>>
  BY <1>g, <1>t, CurType DEF Cur, Recv, Tok, Arg
<1>k. Cur(g).pc \in {"rlock", "check", "peer", "peeragain", "argrlock", "argcheck", "clone",
                     "enter", "running", "runlock"} => Cur(g).kind \notin {"close", "bare"}
  BY <1>d DEF FrameOK, Closing
<1>f. Cur(g).kind = "function" => Cur(g).pc \notin {"rlock", "check", "peer", "peeragain", "enter"}
  BY <1>d DEF FrameOK, FunctionPC, Closing
<1>m. \A h \in Handle : \A t \in readers[h] \cup parked[h] : t[1] = g /\ t[2] = top[g] =>
        /\ t = Tok(g, "recv") \/ t = Tok(g, "arg")
        /\ Cur(g).kind \notin {"close", "bare"}
        /\ t[3] = "recv" => Recv(g) = h /\ Cur(g).pc # "rlock" /\ Cur(g).kind # "function"
        /\ t[3] = "arg" => /\ Cur(g).args # <<>> /\ Arg(g) = h /\ Cur(g).pc \in ArgHeld
                           /\ Cur(g).pc = "enter" => Cur(g).kind \in {"env", "meta"}
        /\ t \in parked[h] => Cur(g).pc = IF t[3] = "recv" THEN "check" ELSE "argcheck"
  BY <1>d, TokenParts DEF TokensOK, TokenOK
<1>1. CASE RLockRecv(g)
  <2>1. /\ Cur(g).pc = "rlock" /\ RLock(Recv(g), Tok(g, "recv"))
        /\ Advance(g, "check", Cur(g).args, {})
    BY <1>1 DEF RLockRecv, At, Goto
  <2>2. \A h \in Handle : \A t \in readers[h] \cup parked[h] : ~(t[1] = g /\ t[2] = top[g])
    BY <1>m, <2>1, <1>d DEF ArgHeld
  <2>3. \A h \in Handle : \A t \in readers'[h] \cup parked'[h] : t[1] = g /\ t[2] = top[g] =>
          t = Tok(g, "recv") /\ h = Recv(g)
    BY <2>1, <2>2, <1>d, RLockTokens
  <2>4. OtherTokens(g)
    BY <2>1, <2>2, <1>d, RLockTokens DEF OtherTokens, TokensOK
  <2>. QED
    BY <2>1, <2>3, <2>4, <1>d, <1>f, <1>g, <1>k, TokensAdvance
<1>2. CASE CheckRecv(g) \/ CheckArg(g)
  <2>1. /\ UNCHANGED <<readers, parked>>
        /\ \/ Cur(g).pc = "check" /\ Tok(g, "recv") \in readers[Recv(g)]
           \/ Cur(g).pc = "argcheck" /\ Tok(g, "arg") \in readers[Arg(g)]
    BY <1>2 DEF CheckRecv, CheckArg, At, rwmutex
  <2>2. PICK pc, use : /\ Advance(g, pc, Cur(g).args, use)
                       /\ pc # "rlock"
                       /\ Cur(g).pc = "argcheck" =>
                            /\ pc \in {"enter", "clone", "runlock"}
                            /\ pc = "enter" => Cur(g).kind \in {"env", "meta"}
    BY <1>2 DEF CheckRecv, CheckArg, At, Goto, NextPc
  <2>3. Cur(g).pc = "argcheck" => pc \in ArgHeld
    BY <2>2 DEF ArgHeld
  <2>4. \A h \in Handle : \A t \in readers[h] \cup parked[h] : t[1] = g /\ t[2] = top[g] =>
          t \notin parked[h]
    BY <2>1, <1>m, <1>d DEF TokensOK, ArgHeld, Converting
  <2>5. OtherTokens(g)
    BY <2>1 DEF OtherTokens, TokensOK
  <2>6. \A h \in Handle : \A t \in readers[h] \cup parked[h] : t[1] = g /\ t[2] = top[g] =>
           /\ t[3] = "recv" => Recv(g) = h /\ pc # "rlock" /\ Cur(g).kind # "function"
           /\ t[3] = "arg" => /\ Cur(g).args # <<>> /\ Head(Cur(g).args) = h /\ pc \in ArgHeld
                              /\ pc = "enter" => Cur(g).kind \in {"env", "meta"}
    BY <2>1, <2>2, <2>3, <1>m, <1>d DEF ArgHeld
  <2>. QED
    BY <2>1, <2>2, <2>4, <2>5, <2>6, <1>m, <1>d, <1>g, TokensAdvance
<1>3. CASE RLockArg(g)
  <2>1. /\ Cur(g).pc = "argrlock" /\ RLock(Arg(g), Tok(g, "arg")) /\ Arg(g) \in Handle
        /\ Advance(g, "argcheck", Cur(g).args, Kept(g)) /\ Cur(g).args # <<>>
    BY <1>3, <1>d DEF RLockArg, At, Goto, Converting
  <2>2. \A h \in Handle : \A t \in readers[h] \cup parked[h] : t[1] = g /\ t[2] = top[g] =>
          /\ t = Tok(g, "recv") /\ h = Recv(g) /\ t \notin parked[h]
          /\ Cur(g).kind # "function"
    BY <1>m, <2>1, <1>d DEF ArgHeld
  <2>3. \A h \in Handle : \A t \in readers'[h] \cup parked'[h] : t[1] = g /\ t[2] = top[g] =>
          \/ /\ t = Tok(g, "recv") /\ h = Recv(g) /\ t \notin parked'[h]
             /\ Cur(g).kind # "function"
          \/ t = Tok(g, "arg") /\ h = Arg(g)
    BY <2>1, <2>2, <1>d, RLockTokens
  <2>4. OtherTokens(g)
    BY <2>1, <2>2, <1>d, RLockTokens DEF OtherTokens, TokensOK
  <2>5. "argcheck" \in ArgHeld
    BY DEF ArgHeld
  <2>. QED
    BY <2>1, <2>3, <2>4, <2>5, <1>d, <1>g, <1>k, TokensAdvance
<1>4. CASE CloneArg(g)
  <2>. DEFINE rest == Tail(Cur(g).args)
              next == NextPc(Cur(g).kind, rest)
  <2>1. /\ Cur(g).pc = "clone" /\ RUnlock(Arg(g), Tok(g, "arg")) /\ Arg(g) \in Handle
        /\ Advance(g, next, rest, Kept(g))
    BY <1>4, <1>d DEF CloneArg, At, Converting
  <2>2. next # "rlock"
    BY DEF NextPc
  <2>. HIDE DEF rest, next
  <2>3. \A h \in Handle : \A t \in readers'[h] \cup parked'[h] : t[1] = g /\ t[2] = top[g] =>
          /\ t = Tok(g, "recv") /\ h = Recv(g) /\ t \notin parked'[h]
          /\ Cur(g).kind # "function"
    <3>. SUFFICES ASSUME NEW h \in Handle, NEW t \in readers'[h] \cup parked'[h],
                         t[1] = g, t[2] = top[g]
                  PROVE  /\ t = Tok(g, "recv") /\ h = Recv(g) /\ t \notin parked'[h]
                         /\ Cur(g).kind # "function"
      OBVIOUS
    <3>0. /\ h = Arg(g) => readers'[h] = readers[h] \ {Tok(g, "arg")}
          /\ h # Arg(g) => readers'[h] = readers[h]
          /\ parked'[h] = parked[h]
      BY <2>1, RUnlockTokens
    <3>1. /\ t \in readers[h] \cup parked[h] /\ parked'[h] = parked[h]
          /\ h = Arg(g) => t \notin readers'[h] \/ t # Tok(g, "arg")
      BY <3>0
    <3>2. t \notin parked[h] /\ (t = Tok(g, "arg") => Arg(g) = h)
      BY <3>1, <1>m, <2>1, <1>d
    <3>. QED
      BY <3>1, <3>2, <1>m, <1>d
  <2>4. OtherTokens(g)
    BY <2>1, RUnlockTokens DEF OtherTokens, TokensOK
  <2>. QED
    BY <2>1, <2>2, <2>3, <2>4, <1>d, <1>g, <1>k, TokensAdvance
<1>5. CASE ReadPeer(g) \/ ReadPeerAgain(g)
  <2>1. /\ Cur(g).pc \in {"peer", "peeragain"} /\ UNCHANGED <<readers, parked>>
        /\ \E pc \in {"peeragain", "enter", "runlock"} : \E args, use : Advance(g, pc, args, use)
    BY <1>5 DEF ReadPeer, ReadPeerAgain, At, rwmutex, Goto
  <2>2. PICK pc, args, use : /\ pc \in {"peeragain", "enter", "runlock"}
                             /\ Advance(g, pc, args, use)
    BY <2>1
  <2>3. \A h \in Handle : \A t \in readers[h] \cup parked[h] : t[1] = g /\ t[2] = top[g] =>
          /\ t = Tok(g, "recv") /\ h = Recv(g) /\ t \notin parked[h]
          /\ Cur(g).kind # "function"
    BY <2>1, <1>m, <1>d DEF ArgHeld
  <2>4. OtherTokens(g)
    BY <2>1 DEF OtherTokens, TokensOK
  <2>. QED
    BY <2>1, <2>2, <2>3, <2>4, <1>d, <1>g, <1>k, TokensAdvance
<1>6. CASE Enter(g) \/ CallbackReturn(g)
  <2>1. /\ Cur(g).pc \in {"enter", "running"} /\ UNCHANGED <<readers, parked>>
        /\ \E pc \in {"running", "runlock"} : \E use :
             /\ Advance(g, pc, Cur(g).args, use)
             /\ pc = "running" => Cur(g).pc = "enter" /\ Cur(g).kind \in {"callback", "call"}
    BY <1>6 DEF Enter, CallbackReturn, At, rwmutex, Goto
  <2>2. PICK pc, use : /\ pc \in {"running", "runlock"}
                       /\ Advance(g, pc, Cur(g).args, use)
                       /\ pc = "running" => /\ Cur(g).pc = "enter"
                                            /\ Cur(g).kind \in {"callback", "call"}
    BY <2>1
  <2>3. \A h \in Handle : \A t \in readers[h] \cup parked[h] : t[1] = g /\ t[2] = top[g] =>
          t \notin parked[h] /\ (t[3] = "arg" => pc = "runlock")
    BY <2>1, <2>2, <1>m
  <2>4. OtherTokens(g)
    BY <2>1 DEF OtherTokens, TokensOK
  <2>5. "runlock" \in ArgHeld /\ pc # "rlock" /\ pc # "enter"
    BY <2>2 DEF ArgHeld
  <2>. QED
    BY <2>1, <2>2, <2>3, <2>4, <2>5, <1>m, <1>d, <1>g, TokensAdvance
<1>61. CASE FunctionReturns(g) \/ FunctionPanics(g) \/ CloseFunctionVm(g)
  <2>1. /\ Cur(g).kind = "function" /\ UNCHANGED <<readers, parked>>
        /\ \/ Cur(g).pc = "running"
           \/ /\ Cur(g).pc = "runlock"
              /\ Cur(g).args # <<>> => Tok(g, "arg") \notin readers[Arg(g)]
        /\ Pop(g) \/ \E pc, args, use : Advance(g, pc, args, use)
    BY <1>61 DEF FunctionReturns, FunctionPanics, CloseFunctionVm, At, rwmutex
  <2>2. \A h \in Handle : \A t \in readers[h] \cup parked[h] : ~(t[1] = g /\ t[2] = top[g])
    <3>. SUFFICES ASSUME NEW h \in Handle, NEW t \in readers[h] \cup parked[h],
                         t[1] = g, t[2] = top[g]
                  PROVE  FALSE
      OBVIOUS
    <3>1. t = Tok(g, "arg")
      BY <2>1, <1>m, <1>d
    <3>2. Cur(g).args # <<>> /\ Arg(g) = h /\ Cur(g).pc = "runlock"
      BY <2>1, <3>1, <1>m, <1>d DEF ArgHeld
    <3>3. t \notin parked[h]
      BY <3>1, <3>2, <1>m, <1>d
    <3>. QED
      BY <2>1, <3>1, <3>2, <3>3
  <2>3. OtherTokens(g)
    BY <2>1 DEF OtherTokens, TokensOK
  <2>. QED
    BY <2>1, <2>2, <2>3, <1>d, <1>g, TokensAdvance, TokensPop
<1>7. CASE RUnlockArg(g)
  <2>1. /\ Cur(g).pc = "runlock" /\ RUnlock(Arg(g), Tok(g, "arg")) /\ Arg(g) \in Handle
        /\ UNCHANGED <<top, frame>>
    BY <1>7, <1>d DEF RUnlockArg, At, calls
  <2>2. \A h \in Handle : readers'[h] \subseteq readers[h] /\ parked'[h] = parked[h]
    BY <2>1, RUnlockTokens
  <2>. QED
    BY <2>1, <2>2 DEF TokensOK, TokenOK, Active
<1>8. CASE RUnlockRecv(g)
  <2>1. /\ Cur(g).pc = "runlock" /\ RUnlock(Recv(g), Tok(g, "recv")) /\ Pop(g)
        /\ Cur(g).args # <<>> => Tok(g, "arg") \notin readers[Arg(g)]
    BY <1>8 DEF RUnlockRecv, At
  <2>2. \A h \in Handle : \A t \in readers'[h] \cup parked'[h] : ~(t[1] = g /\ t[2] = top[g])
    <3>. SUFFICES ASSUME NEW h \in Handle, NEW t \in readers'[h] \cup parked'[h],
                         t[1] = g, t[2] = top[g]
                  PROVE  FALSE
      OBVIOUS
    <3>0. /\ h = Recv(g) => readers'[h] = readers[h] \ {Tok(g, "recv")}
          /\ h # Recv(g) => readers'[h] = readers[h]
          /\ parked'[h] = parked[h]
      BY <2>1, <1>d, RUnlockTokens
    <3>1. /\ t \in readers[h] \cup parked[h] /\ parked'[h] = parked[h]
          /\ h = Recv(g) => t \notin readers'[h] \/ t # Tok(g, "recv")
      BY <3>0
    <3>2. t \notin parked[h] /\ t \in readers[h]
      BY <3>1, <1>m, <2>1
    <3>3. t = Tok(g, "arg") => h = Arg(g) /\ Cur(g).args # <<>>
      BY <3>1, <1>m, <1>d
    <3>4. t = Tok(g, "recv") => h = Recv(g)
      BY <3>1, <1>m, <1>d
    <3>. QED
      BY <3>1, <3>2, <3>3, <3>4, <2>1, <1>m
  <2>3. OtherTokens(g)
    BY <2>1, <1>d, RUnlockTokens DEF OtherTokens, TokensOK
  <2>. QED
    BY <2>1, <2>2, <2>3, <1>d, <1>g, TokensPop
<1>9. CASE ReadBare(g) \/ ReadBareAgain(g) \/ UseBare(g)
  <2>1. /\ Cur(g).pc \in {"bare", "bareagain", "bareuse"} /\ UNCHANGED <<readers, parked>>
        /\ Pop(g) \/ \E pc, args, use : Advance(g, pc, args, use)
    BY <1>9 DEF ReadBare, ReadBareAgain, UseBare, At, rwmutex, Goto
  <2>2. \A h \in Handle : \A t \in readers[h] \cup parked[h] : ~(t[1] = g /\ t[2] = top[g])
    <3>. Cur(g).kind = "bare"
      BY <2>1, <1>d DEF FrameOK
    <3>. QED
      BY <1>m
  <2>3. OtherTokens(g)
    BY <2>1 DEF OtherTokens, TokensOK
  <2>. QED
    BY <2>1, <2>2, <2>3, <1>d, <1>g, TokensAdvance, TokensPop
<1>. QED
  BY <1>1, <1>2, <1>3, <1>4, <1>5, <1>6, <1>61, <1>7, <1>8, <1>9 DEF CallStep, CallbackEnds

(* So does each step of a Close, which holds no read lock. *)
LEMMA CloseStepTokens ==
  ASSUME TypeOK, TypeOK', TokensOK, NEW a \in Actor, CloseStep(a), FrameOK(a, top[a])
  PROVE  TokensOK'
<1>t. top[a] > 0
  BY DEF CloseStep, Lock, Drain, Dtor, ClearPtr, At
<1>d. /\ top[a] \in Depth /\ Recv(a) \in Handle /\ Cur(a) = frame[a][top[a]]
  BY <1>t, CurType DEF Cur
<1>k. Cur(a).kind \in {"close", "function"} /\ Cur(a).pc \in Closing
  BY <1>d DEF FrameOK, Closing, CloseStep, Lock, Drain, Dtor, ClearPtr, At
<1>m. \A h \in Handle : \A t \in readers[h] \cup parked[h] : ~(t[1] = a /\ t[2] = top[a])
  BY <1>k, <1>d, TokenParts DEF TokensOK, TokenOK, ArgHeld, Closing
<1>1. UNCHANGED <<readers, parked>> \/ Unlock(Recv(a))
  BY DEF CloseStep, Lock, Drain, Dtor, ClearPtr, rwmutex
<1>2. /\ OtherTokens(a)
      /\ \A h \in Handle : \A t \in readers'[h] \cup parked'[h] : ~(t[1] = a /\ t[2] = top[a])
  <2>1. CASE UNCHANGED <<readers, parked>>
    BY <2>1, <1>m DEF OtherTokens, TokensOK
  <2>2. CASE Unlock(Recv(a))
    <3>1. \A h \in Handle : /\ readers'[h] \cup parked'[h] \subseteq readers[h] \cup parked[h]
                             /\ parked'[h] \subseteq parked[h]
                             /\ readers'[h] \cap parked'[h] = {}
      BY <2>2, <1>d, UnlockTokens DEF TokensOK
    <3>. QED
      BY <3>1, <1>m DEF OtherTokens
  <2>. QED
    BY <1>1, <2>1, <2>2
<1>3. Pop(a) \/ \E pc, use : Advance(a, pc, Cur(a).args, use)
  BY DEF CloseStep, Lock, Drain, Dtor, ClearPtr, Goto
<1>. QED
  BY <1>2, <1>3, <1>d, TokensAdvance, TokensPop

(* What a step of the program or of the collector starts is a call that      *)
(* holds nothing yet.                                                        *)
LEMMA StartShape ==
  ASSUME NEW g \in Goroutine, Start(g)
  PROVE  /\ UNCHANGED rwmutex
         /\ \/ UNCHANGED calls
            \/ CanStart(g) /\ UNCHANGED object /\ \E f : Push(g, f)
  BY DEF Start, Create, StartCall, StartBare, StartClose, calls, object, rwmutex

LEMMA TokensNext == IInv /\ TokensOK /\ [Next]_vars => TokensOK'
<1>. SUFFICES ASSUME IInv, TokensOK, [Next]_vars PROVE TokensOK'
  OBVIOUS
<1>ty. TypeOK /\ TypeOK'
  BY NextType DEF IInv
<1>1. CASE UNCHANGED vars
  BY <1>1 DEF vars, rwmutex, calls, TokensOK, TokenOK, Active
<1>2. ASSUME NEW g \in Goroutine, CallStep(g) \/ CallbackEnds(g)
      PROVE  TokensOK'
  BY <1>2, <1>ty, CallStepTop, CurOK, CallStepTokens
<1>3. ASSUME NEW a \in Actor, CloseStep(a)
      PROVE  TokensOK'
  <2>1. top[a] > 0
    BY <1>3 DEF CloseStep, Lock, Drain, Dtor, ClearPtr, At
  <2>. QED
    BY <1>3, <1>ty, <2>1, CurOK, CloseStepTokens
<1>4. ASSUME NEW g \in Goroutine, Start(g)
      PROVE  TokensOK'
  <2>1. g \in Actor
    BY DEF Actor
  <2>2. CASE UNCHANGED calls
    BY <1>4, <2>2, StartShape DEF rwmutex, calls, TokensOK, TokenOK, Active
  <2>. QED
    BY <1>4, <1>ty, <2>1, <2>2, StartShape, CanStartReady, TokensPush DEF rwmutex
<1>6. ASSUME NEW g \in Goroutine, CallFunction(g)
      PROVE  TokensOK'
  BY <1>6, <1>ty, CallFunctionReady, CallFunctionVm, TokensPush DEF Actor, rwmutex
<1>5. ASSUME NEW h \in Handle, Forget(h) \/ RunFinalizer(h)
      PROVE  TokensOK'
  <2>1. CASE Forget(h)
    BY <2>1 DEF Forget, rwmutex, calls, TokensOK, TokenOK, Active
  <2>2. CASE RunFinalizer(h)
    BY <2>2, <1>ty, HandlesAssumption, TokensPush DEF RunFinalizer, Ready, Actor, rwmutex
  <2>. QED
    BY <1>5, <2>1, <2>2
<1>. QED
  BY <1>1, <1>2, <1>3, <1>4, <1>5, <1>6 DEF Next

-----------------------------------------------------------------------------
(* The write lock belongs to the Close that its owner is in, the program's   *)
(* own or the one that ends a Go function.                                   *)

Closes(a, h) == /\ top[a] > 0
                /\ Recv(a) = h
                /\ Cur(a).kind \in {"close", "function"}
                /\ Cur(a).pc \in WriterHeld

WritersOK == \A h \in Handle, a \in Actor : writer[h] = a => Closes(a, h)

(* The frames of the other actors are not touched by a step of a. *)
OthersStay(a) == \A b \in Actor : b # a => /\ top'[b] = top[b]
                                           /\ \A d \in Depth : frame'[b][d] = frame[b][d]

(* A write lock that a's step neither takes nor gives back stays where it was. *)
LEMMA ClosesKept ==
  ASSUME TypeOK, NEW a \in Actor, OthersStay(a), NEW w \in Actor, w # a,
         NEW h \in Handle, Closes(w, h)
  PROVE  Closes(w, h)'
<1>1. top[w] \in Depth
  BY CurType DEF Closes
<1>2. top'[w] = top[w] /\ frame'[w][top[w]] = frame[w][top[w]]
  BY <1>1 DEF OthersStay
<1>. QED
  BY <1>2 DEF Closes, Recv, Cur

LEMMA WritersKept ==
  ASSUME TypeOK, WritersOK, NEW a \in Actor, OthersStay(a),
         \A h \in Handle, w \in Actor : writer'[h] = w => writer[h] = w /\ w # a
  PROVE  WritersOK'
  BY ClosesKept DEF WritersOK

(* The three ways frames change leave the other actors alone. *)
LEMMA OthersStayByFrames ==
  ASSUME TypeOK, NEW a \in Actor,
         \/ top[a] \in Depth /\ \E pc, args, use : Advance(a, pc, args, use)
         \/ top[a] \in Depth /\ Pop(a)
         \/ Ready(a) /\ \E f : Push(a, f)
         \/ UNCHANGED calls
  PROVE  OthersStay(a)
<1>1. CASE top[a] \in Depth /\ \E pc, args, use : Advance(a, pc, args, use)
  BY <1>1, AdvanceFrame DEF OthersStay
<1>2. CASE top[a] \in Depth /\ Pop(a)
  BY <1>2, PopFrame DEF OthersStay
<1>3. CASE Ready(a) /\ \E f : Push(a, f)
  BY <1>3, PushFrame DEF OthersStay
<1>4. CASE UNCHANGED calls
  BY <1>4 DEF OthersStay, calls
<1>. QED
  BY <1>1, <1>2, <1>3, <1>4

(* A step of a call that reads, in outline. *)
LEMMA CallStepShape ==
  ASSUME TypeOK, NEW g \in Goroutine, CallStep(g) \/ CallbackEnds(g)
  PROVE  /\ g \in Actor /\ top[g] \in Depth /\ top[g] > 0
         /\ Cur(g).pc \notin WriterHeld \cup {"lock"}
         /\ writer' = writer
         /\ OthersStay(g)
<1>3. Cur(g).pc \notin WriterHeld \cup {"lock"}
  BY DEF WriterHeld, CallStep, CallbackEnds, CallbackReturn, FunctionReturns, FunctionPanics,
     RLockRecv, CheckRecv, RLockArg, CheckArg, CloneArg, ReadPeer, ReadPeerAgain,
     Enter, RUnlockArg, RUnlockRecv, CloseFunctionVm, ReadBare, ReadBareAgain,
     UseBare, At
<1>4. writer' = writer
  BY DEF CallStep, CallbackEnds, CallbackReturn, FunctionReturns, FunctionPanics,
     RLockRecv, CheckRecv, RLockArg, CheckArg, CloneArg, ReadPeer, ReadPeerAgain,
     Enter, RUnlockArg, RUnlockRecv, CloseFunctionVm, ReadBare, ReadBareAgain,
     UseBare, rwmutex, RLock, RUnlock
<1>5. \/ \E pc, args, use : Advance(g, pc, args, use)
      \/ Pop(g)
      \/ UNCHANGED calls
  BY DEF CallStep, CallbackEnds, CallbackReturn, FunctionReturns, FunctionPanics,
     RLockRecv, CheckRecv, RLockArg, CheckArg, CloneArg, ReadPeer, ReadPeerAgain,
     Enter, RUnlockArg, RUnlockRecv, CloseFunctionVm, ReadBare, ReadBareAgain,
     UseBare, Goto
<1>. QED
  BY <1>3, <1>4, <1>5, CallStepTop, OthersStayByFrames

(* A step of a Close, in outline. *)
LEMMA CloseStepShape ==
  ASSUME IInv, NEW a \in Actor, CloseStep(a)
  PROVE  /\ top[a] \in Depth /\ top[a] > 0 /\ FrameOK(a, top[a])
         /\ Cur(a).kind \in {"close", "function"} /\ Recv(a) \in Handle
         /\ Cur(a).pc \in WriterHeld \cup {"lock"}
         /\ OthersStay(a)
<1>1. top[a] > 0 /\ TypeOK
  BY DEF CloseStep, Lock, Drain, Dtor, ClearPtr, At, IInv
<1>2. top[a] \in Depth /\ FrameOK(a, top[a]) /\ Recv(a) \in Handle
  BY <1>1, CurOK, CurType
<1>3. Cur(a).pc \in WriterHeld \cup {"lock"}
  BY DEF CloseStep, Lock, Drain, Dtor, ClearPtr, At, WriterHeld
<1>4. Cur(a).kind \in {"close", "function"}
  BY <1>2, <1>3 DEF FrameOK, Closing, WriterHeld, Cur
<1>5. Pop(a) \/ \E pc, args, use : Advance(a, pc, args, use)
  BY DEF CloseStep, Lock, Drain, Dtor, ClearPtr, Goto
<1>. QED
  BY <1>1, <1>2, <1>3, <1>4, <1>5, OthersStayByFrames

LEMMA StartStays ==
  ASSUME TypeOK, NEW g \in Goroutine, Start(g)
  PROVE  g \in Actor /\ OthersStay(g)
<1>1. g \in Actor
  BY DEF Actor
<1>. QED
  BY <1>1, StartShape, CanStartReady, OthersStayByFrames

LEMMA FinalizerStarts ==
  ASSUME TypeOK, NEW h \in Handle, RunFinalizer(h)
  PROVE  /\ Finalizer \in Actor /\ Ready(Finalizer) /\ OthersStay(Finalizer)
         /\ Push(Finalizer, CloseFrame(h)) /\ UNCHANGED rwmutex
<1>1. Finalizer \in Actor /\ Ready(Finalizer)
  BY HandlesAssumption DEF Actor, Ready, RunFinalizer
<1>. QED
  BY <1>1, OthersStayByFrames DEF RunFinalizer

(* An actor that is in a Close past its Lock starts nothing. *)
LEMMA StartersWriteNothing ==
  ASSUME TypeOK, WritersOK, NEW a \in Actor, Ready(a), NEW h \in Handle
  PROVE  writer[h] # a
  BY DEF WritersOK, Closes, Ready, At, WriterHeld, TypeOK

LEMMA CloseStepWriters ==
  ASSUME IInv, WritersOK, NEW a \in Actor, CloseStep(a)
  PROVE  WritersOK'
<1>ty. TypeOK
  BY DEF IInv
<1>a. /\ top[a] \in Depth /\ top[a] > 0 /\ FrameOK(a, top[a]) /\ OthersStay(a)
      /\ Cur(a).kind \in {"close", "function"} /\ Recv(a) \in Handle
      /\ Cur(a) = frame[a][top[a]] /\ Recv(a) = Cur(a).recv /\ a # NoActor
  BY CloseStepShape, HandlesAssumption DEF Cur, Recv, Actor
<1>1. CASE Lock(a) \/ Dtor(a) \/ (Drain(a) /\ ptr[Recv(a)])
  <2>1. \E pc \in WriterHeld : \E use : Advance(a, pc, Cur(a).args, use)
    BY <1>1 DEF Lock, Dtor, Drain, Goto, WriterHeld
  <2>2. PICK pc, use : pc \in WriterHeld /\ Advance(a, pc, Cur(a).args, use)
    BY <2>1
  <2>3. \A h \in Handle : h = Recv(a) => Closes(a, h)'
    <3>1. /\ top'[a] = top[a]
          /\ frame'[a][top[a]] = [kind |-> Cur(a).kind, recv |-> Recv(a), args |-> Cur(a).args,
                                  pc |-> pc, use |-> use]
      BY <2>2, <1>a, <1>ty, AdvanceFrame
    <3>. QED
      BY <2>2, <3>1, <1>a DEF Closes, Recv, Cur
  <2>4. \A h \in Handle : writer'[h] = a => h = Recv(a)
    <3>1. CASE Lock(a)
      BY <3>1, <1>a, <1>ty DEF Lock, At, WritersOK, Closes, WriterHeld, TypeOK
    <3>2. CASE ~Lock(a)
      BY <3>2, <1>1, <1>a DEF Dtor, Drain, rwmutex, WritersOK, Closes
    <3>. QED
      BY <3>1, <3>2
  <2>5. \A h \in Handle : writer'[h] # a => writer'[h] = writer[h]
    BY <1>1, <1>a, <1>ty DEF Lock, Dtor, Drain, rwmutex, TypeOK
  <2>. SUFFICES ASSUME NEW h \in Handle, NEW w \in Actor, writer'[h] = w
                PROVE  Closes(w, h)'
    BY DEF WritersOK
  <2>6. CASE w = a
    BY <2>3, <2>4, <2>6
  <2>7. CASE w # a
    BY <2>5, <2>7, <1>a, <1>ty, ClosesKept DEF WritersOK
  <2>. QED
    BY <2>6, <2>7
<1>2. CASE ClearPtr(a) \/ (Drain(a) /\ ~ptr[Recv(a)])
  <2>1. Unlock(Recv(a))
    BY <1>2 DEF ClearPtr, Drain
  <2>2. \A h \in Handle, w \in Actor : writer'[h] = w => writer[h] = w /\ w # a
    BY <2>1, <1>a, <1>ty, HandlesAssumption DEF Unlock, TypeOK, WritersOK, Closes, Actor
  <2>. QED
    BY <2>2, <1>a, <1>ty, WritersKept
<1>. QED
  BY <1>1, <1>2 DEF CloseStep

LEMMA WritersNext == IInv /\ WritersOK /\ [Next]_vars => WritersOK'
<1>. SUFFICES ASSUME IInv, WritersOK, [Next]_vars PROVE WritersOK'
  OBVIOUS
<1>ty. TypeOK
  BY DEF IInv
<1>1. CASE UNCHANGED vars
  BY <1>1 DEF vars, rwmutex, calls, WritersOK, Closes, Recv, Cur
<1>2. ASSUME NEW g \in Goroutine, CallStep(g) \/ CallbackEnds(g)
      PROVE  WritersOK'
  <2>1. /\ g \in Actor /\ OthersStay(g) /\ writer' = writer
        /\ \A h \in Handle : writer[h] # g
    BY <1>2, <1>ty, CallStepShape DEF WritersOK, Closes
  <2>. QED
    BY <2>1, <1>ty, WritersKept
<1>3. ASSUME NEW a \in Actor, CloseStep(a)
      PROVE  WritersOK'
  BY <1>3, CloseStepWriters
<1>4. ASSUME NEW g \in Goroutine, Start(g)
      PROVE  WritersOK'
  <2>1. g \in Actor /\ OthersStay(g) /\ writer' = writer
    BY <1>4, <1>ty, StartShape, StartStays DEF rwmutex
  <2>2. CASE UNCHANGED calls
    BY <2>1, <2>2 DEF calls, WritersOK, Closes, Recv, Cur
  <2>3. CASE Ready(g)
    BY <2>1, <2>3, <1>ty, StartersWriteNothing, WritersKept
  <2>. QED
    BY <1>4, <1>ty, <2>1, <2>2, <2>3, StartShape, CanStartReady
<1>6. ASSUME NEW g \in Goroutine, CallFunction(g)
      PROVE  WritersOK'
  <2>1. g \in Actor /\ Ready(g) /\ OthersStay(g) /\ writer' = writer
    BY <1>6, <1>ty, CallFunctionReady, CallFunctionVm, OthersStayByFrames DEF Actor, rwmutex
  <2>. QED
    BY <2>1, <1>ty, StartersWriteNothing, WritersKept
<1>5. ASSUME NEW h \in Handle, Forget(h) \/ RunFinalizer(h)
      PROVE  WritersOK'
  <2>1. CASE Forget(h)
    BY <2>1 DEF Forget, rwmutex, calls, WritersOK, Closes, Recv, Cur
  <2>2. CASE RunFinalizer(h)
    BY <2>2, <1>ty, FinalizerStarts, StartersWriteNothing, WritersKept DEF rwmutex
  <2>. QED
    BY <1>5, <2>1, <2>2
<1>. QED
  BY <1>1, <1>2, <1>3, <1>4, <1>5, <1>6 DEF Next

(* Whoever holds or waits for a lock of an object is a call in progress that *)
(* names the object and will give the lock back: no path through errors,     *)
(* closed arguments and callbacks leaves an object locked.                   *)
THEOREM LockAccounting == Spec => []NoLockLeak
<1>1. Init => TokensOK /\ WritersOK
  BY HandlesAssumption DEF Init, TokensOK, WritersOK, Actor
<1>2. IInv /\ TokensOK /\ WritersOK => NoLockLeak
  <2>. SUFFICES ASSUME IInv, TokensOK, WritersOK, NEW h \in Handle
                PROVE  /\ \A t \in readers[h] \cup parked[h] :
                            /\ Active(t[1], t[2])
                            /\ frame[t[1]][t[2]].kind # "close"
                            /\ t[3] = "recv" => /\ frame[t[1]][t[2]].recv = h
                                                /\ frame[t[1]][t[2]].kind # "function"
                            /\ t[3] = "arg" => /\ frame[t[1]][t[2]].args # <<>>
                                               /\ Head(frame[t[1]][t[2]].args) = h
                       /\ writer[h] # NoActor =>
                            /\ Active(writer[h], top[writer[h]]) /\ Recv(writer[h]) = h
                            /\ Cur(writer[h]).kind \in {"close", "function"}
    BY DEF NoLockLeak
  <2>1. writer[h] # NoActor => writer[h] \in Actor /\ Closes(writer[h], h)
    BY DEF WritersOK, IInv, TypeOK
  <2>2. writer[h] # NoActor => Active(writer[h], top[writer[h]])
    BY <2>1, CurOK DEF Closes
  <2>. QED
    BY <2>1, <2>2 DEF TokensOK, TokenOK, Closes
<1>. QED
  BY <1>1, <1>2, TokensNext, WritersNext, Invariance, PTL DEF Spec

-----------------------------------------------------------------------------
(* What a step does to the calls in progress: the innermost call of one      *)
(* actor moves on, ends, or enters another call.                             *)

PcMoves == {<<"rlock", "check">>,
            <<"check", "peer">>, <<"check", "argrlock">>, <<"check", "enter">>, <<"check", "runlock">>,
            <<"argrlock", "argcheck">>,
            <<"argcheck", "clone">>, <<"argcheck", "enter">>, <<"argcheck", "runlock">>,
            <<"clone", "peer">>, <<"clone", "argrlock">>, <<"clone", "enter">>, <<"clone", "runlock">>,
            <<"peer", "peeragain">>, <<"peer", "runlock">>, <<"peeragain", "enter">>,
            <<"enter", "running">>, <<"enter", "runlock">>,
            <<"running", "argrlock">>, <<"running", "runlock">>,
            <<"bare", "bareagain">>, <<"bareagain", "bareuse">>,
            <<"runlock", "lock">>, <<"lock", "drain">>, <<"drain", "dtor">>, <<"dtor", "clear">>}

(* The program passes to the call's receiver what the call has still to      *)
(* convert (a Go function's frame converts what the function returned).      *)
Passed(f) == f.kind # "function" => \A i \in DOMAIN f.args : <<f.recv, f.args[i]>> \in Passes

OtherFramesStay(a, d) ==
  \A b \in Actor, e \in Depth : <<b, e>> # <<a, d>> => frame'[b][e] = frame[b][e]

OtherTopsStay(a) == \A b \in Actor : b # a => top'[b] = top[b]

(* The Go function that a is in has just returned. *)
Returned(a) ==
  /\ frame[a][top[a]].kind = "function"
  /\ UNCHANGED object
  /\ LET s == frame'[a][top[a]].args
     IN  s \in Seq(Handle) /\ \A i \in DOMAIN s : s[i] \in Returns /\ MayUse(a, s[i])

Moves(a) ==
  /\ top[a] \in Depth
  /\ top' = top
  /\ OtherFramesStay(a, top[a])
  /\ frame'[a][top[a]].kind = frame[a][top[a]].kind
  /\ frame'[a][top[a]].recv = frame[a][top[a]].recv
  /\ \/ frame'[a][top[a]].args \in {frame[a][top[a]].args, <<>>}
     \/ /\ frame[a][top[a]].args # <<>>
        /\ frame'[a][top[a]].args = Tail(frame[a][top[a]].args)
     \/ Returned(a)
  /\ <<frame[a][top[a]].pc, frame'[a][top[a]].pc>> \in PcMoves
  /\ frame'[a][top[a]].pc = "running" => LuaFree(a)
  /\ frame'[a][top[a]].pc = "clear" => Dtor(a)

Leaves(a) ==
  /\ top[a] \in Depth
  /\ top'[a] = top[a] - 1
  /\ OtherTopsStay(a)
  /\ OtherFramesStay(a, top[a])
  /\ frame[a][top[a]].pc \in {"runlock", "running", "bare", "bareuse", "drain", "clear"}
  /\ frame[a][top[a]].pc = "drain" => ~ptr[frame[a][top[a]].recv]

(* The program starts a call, the collector a Close, or Lua a Go function. *)
EntersCall(a) ==
  /\ a \in Goroutine /\ CanStart(a)
  /\ UNCHANGED object
  /\ frame'[a][top[a] + 1].pc \in {"rlock", "bare", "lock"}
  /\ frame'[a][top[a] + 1].kind \in Kinds
  /\ \A h \in Pins(frame'[a][top[a] + 1]) : MayUse(a, h)
  /\ Passed(frame'[a][top[a] + 1])
EntersFinalizer(a) ==
  \E h \in Handle : RunFinalizer(h) /\ a = Finalizer /\ frame'[a][top[a] + 1] = CloseFrame(h)
EntersFunction(a) ==
  /\ a \in Goroutine /\ At(a, "running") /\ Cur(a).kind = "call"
  /\ \E v \in Unborn \cap FunctionVm :
       NewObjects({v}) /\ frame'[a][top[a] + 1] = FunctionFrame(v)

Enters(a) ==
  /\ Ready(a)
  /\ top[a] + 1 \in Depth
  /\ top'[a] = top[a] + 1
  /\ OtherTopsStay(a)
  /\ OtherFramesStay(a, top[a] + 1)
  /\ EntersCall(a) \/ EntersFinalizer(a) \/ EntersFunction(a)

LEMMA MovesByAdvance ==
  ASSUME TypeOK, NEW a \in Actor, top[a] \in Depth,
         NEW pc, NEW args, NEW use, Advance(a, pc, args, use),
         \/ args \in {Cur(a).args, <<>>}
         \/ Cur(a).args # <<>> /\ args = Tail(Cur(a).args),
         <<Cur(a).pc, pc>> \in PcMoves,
         pc = "running" => LuaFree(a),
         pc = "clear" => Dtor(a)
  PROVE  Moves(a)
<1>1. /\ top' = top
      /\ frame'[a][top[a]] = [kind |-> Cur(a).kind, recv |-> Recv(a), args |-> args,
                              pc |-> pc, use |-> use]
      /\ \A b \in Actor, e \in Depth : <<b, e>> # <<a, top[a]>> => frame'[b][e] = frame[b][e]
  BY AdvanceFrame
<1>. QED
  BY <1>1 DEF Moves, OtherFramesStay, Cur, Recv

LEMMA LeavesByPop ==
  ASSUME TypeOK, NEW a \in Actor, top[a] \in Depth, Pop(a),
         Cur(a).pc \in {"runlock", "running", "bare", "bareuse", "drain", "clear"},
         Cur(a).pc = "drain" => ~ptr[Recv(a)]
  PROVE  Leaves(a)
  BY PopFrame DEF Leaves, OtherFramesStay, OtherTopsStay, Cur, Recv

LEMMA EntersByPush ==
  ASSUME TypeOK, NEW g \in Goroutine, CanStart(g), NEW f, Push(g, f), UNCHANGED object,
         f.pc \in {"rlock", "bare", "lock"}, f.kind \in Kinds, \A h \in Pins(f) : MayUse(g, h),
         Passed(f)
  PROVE  Enters(g)
<1>1. g \in Actor /\ Ready(g)
  BY CanStartReady DEF Actor
<1>. QED
  BY <1>1, PushFrame DEF Enters, EntersCall, OtherFramesStay, OtherTopsStay

LEMMA FunctionReturnsMoves ==
  ASSUME TypeOK, NEW g \in Goroutine, FunctionReturns(g), g \in Actor, top[g] \in Depth
  PROVE  Moves(g)
<1>1. /\ Cur(g).kind = "function" /\ Cur(g).pc = "running"
      /\ UNCHANGED object
  BY DEF FunctionReturns, At
<1>2. PICK s \in ReturnLists(g) : Advance(g, NextPc("function", s), s, {})
  BY DEF FunctionReturns
<1>. DEFINE next == NextPc("function", s)
<1>3. next \in {"runlock", "argrlock"}
  BY DEF NextPc
<1>4. s \in Seq(Handle) /\ \A i \in DOMAIN s : s[i] \in Returns /\ MayUse(g, s[i])
  BY <1>2, ReturnListsType
<1>5. Advance(g, next, s, {})
  BY <1>2
<1>. HIDE DEF next
<1>6. /\ top' = top
      /\ frame'[g][top[g]] = [kind |-> Cur(g).kind, recv |-> Recv(g), args |-> s,
                              pc |-> next, use |-> {}]
      /\ \A b \in Actor, e \in Depth : <<b, e>> # <<g, top[g]>> => frame'[b][e] = frame[b][e]
  BY <1>5, AdvanceFrame
<1>7. Returned(g)
  BY <1>1, <1>4, <1>6 DEF Returned, Cur
<1>8. <<Cur(g).pc, next>> \in PcMoves /\ next \notin {"running", "clear"}
  BY <1>1, <1>3 DEF PcMoves
<1>. QED
  BY <1>6, <1>7, <1>8 DEF Moves, OtherFramesStay, Cur, Recv

LEMMA CallStepMoves ==
  ASSUME TypeOK, NEW g \in Goroutine, CallStep(g) \/ CallbackEnds(g)
  PROVE  Moves(g) \/ Leaves(g) \/ UNCHANGED calls
<1>d. g \in Actor /\ top[g] \in Depth /\ top[g] > 0
  BY CallStepShape
<1>1. CASE RLockRecv(g)
  BY <1>1, <1>d, MovesByAdvance DEF RLockRecv, At, Goto, PcMoves
<1>2. CASE CheckRecv(g)
  <2>. DEFINE next == NextPc(Cur(g).kind, Cur(g).args)
  <2>1. next \in {"enter", "peer", "argrlock", "runlock"}
    BY DEF NextPc
  <2>2. /\ Cur(g).pc = "check"
        /\ \/ Advance(g, next, Cur(g).args, {Recv(g)})
           \/ Advance(g, "runlock", Cur(g).args, {})
    BY <1>2 DEF CheckRecv, At, Goto
  <2>. HIDE DEF next
  <2>3. <<Cur(g).pc, next>> \in PcMoves /\ <<Cur(g).pc, "runlock">> \in PcMoves
    BY <2>1, <2>2 DEF PcMoves
  <2>. QED
    BY <2>1, <2>2, <2>3, <1>d, MovesByAdvance
<1>3. CASE RLockArg(g)
  BY <1>3, <1>d, MovesByAdvance DEF RLockArg, At, Goto, PcMoves
<1>4. CASE CheckArg(g)
  <2>1. \/ Goto(g, "enter", Kept(g) \cup {Arg(g)}) \/ Goto(g, "clone", Kept(g) \cup {Arg(g)})
        \/ Goto(g, "enter", Kept(g)) \/ Goto(g, "runlock", {})
    BY <1>4 DEF CheckArg
  <2>2. Cur(g).pc = "argcheck"
    BY <1>4 DEF CheckArg, At
  <2>. QED
    BY <2>1, <2>2, <1>d, MovesByAdvance DEF Goto, PcMoves
<1>5. CASE CloneArg(g)
  <2>. DEFINE rest == Tail(Cur(g).args)
              next == NextPc(Cur(g).kind, rest)
  <2>1. next \in {"enter", "peer", "argrlock", "runlock"}
    BY DEF NextPc
  <2>2. Cur(g).pc = "clone" /\ Advance(g, next, rest, Kept(g))
    BY <1>5 DEF CloneArg, At
  <2>3. Cur(g).args # <<>>
    BY <2>2, <1>d, CurType DEF Converting
  <2>. HIDE DEF next
  <2>4. <<Cur(g).pc, next>> \in PcMoves
    BY <2>1, <2>2 DEF PcMoves
  <2>. QED
    BY <2>1, <2>2, <2>3, <2>4, <1>d, MovesByAdvance
<1>6. CASE ReadPeer(g)
  BY <1>6, <1>d, MovesByAdvance DEF ReadPeer, At, Goto, PcMoves
<1>61. CASE ReadPeerAgain(g)
  BY <1>61, <1>d, MovesByAdvance DEF ReadPeerAgain, At, PcMoves
<1>7. CASE Enter(g) \/ CallbackReturn(g)
  BY <1>7, <1>d, MovesByAdvance DEF Enter, CallbackReturn, Goto, At, PcMoves
<1>71. CASE FunctionReturns(g)
  BY <1>71, <1>d, FunctionReturnsMoves
<1>72. CASE FunctionPanics(g)
  BY <1>72, <1>d, LeavesByPop DEF FunctionPanics, At
<1>73. CASE CloseFunctionVm(g)
  BY <1>73, <1>d, MovesByAdvance DEF CloseFunctionVm, At, PcMoves
<1>8. CASE RUnlockArg(g)
  BY <1>8 DEF RUnlockArg
<1>9. CASE RUnlockRecv(g) \/ UseBare(g)
  BY <1>9, <1>d, LeavesByPop DEF RUnlockRecv, UseBare, At
<1>10. CASE ReadBare(g)
  BY <1>10, <1>d, MovesByAdvance, LeavesByPop DEF ReadBare, At, Goto, PcMoves
<1>11. CASE ReadBareAgain(g)
  BY <1>11, <1>d, MovesByAdvance DEF ReadBareAgain, At, Goto, PcMoves
<1>. QED
  BY <1>1, <1>2, <1>3, <1>4, <1>5, <1>6, <1>61, <1>7, <1>71, <1>72, <1>73, <1>8, <1>9, <1>10, <1>11
     DEF CallStep, CallbackEnds

LEMMA CloseStepMoves ==
  ASSUME IInv, NEW a \in Actor, CloseStep(a)
  PROVE  Moves(a) \/ Leaves(a)
<1>d. TypeOK /\ top[a] \in Depth
  BY CloseStepShape DEF IInv
<1>1. CASE Lock(a)
  BY <1>1, <1>d, MovesByAdvance DEF Lock, At, Goto, PcMoves
<1>2. CASE Drain(a)
  BY <1>2, <1>d, MovesByAdvance, LeavesByPop DEF Drain, At, Goto, PcMoves
<1>3. CASE Dtor(a)
  <2>1. Cur(a).pc = "dtor" /\ Advance(a, "clear", Cur(a).args, {})
    BY <1>3 DEF Dtor, At, Goto
  <2>. QED
    BY <1>3, <2>1, <1>d, MovesByAdvance DEF PcMoves
<1>4. CASE ClearPtr(a)
  BY <1>4, <1>d, LeavesByPop DEF ClearPtr, At
<1>. QED
  BY <1>1, <1>2, <1>3, <1>4 DEF CloseStep

LEMMA StartEnters ==
  ASSUME TypeOK, NEW g \in Goroutine, Start(g)
  PROVE  Enters(g) \/ UNCHANGED calls
<1>1. CASE Create(g)
  BY <1>1 DEF Create
<1>2. CASE StartCall(g)
  <2>1. PICK k \in Kinds \ {"bare", "close"}, r \in Handle \ ErrorHandle :
          /\ MayUse(g, r)
          /\ \E s \in ArgLists(g, k, r) :
               Push(g, [kind |-> k, recv |-> r, args |-> s, pc |-> "rlock", use |-> {}])
    BY <1>2 DEF StartCall
  <2>2. PICK s \in ArgLists(g, k, r) :
          Push(g, [kind |-> k, recv |-> r, args |-> s, pc |-> "rlock", use |-> {}])
    BY <2>1
  <2>3. \A i \in DOMAIN s : MayUse(g, s[i])
    BY DEF ArgLists
  <2>4. \A h \in Pins([kind |-> k, recv |-> r, args |-> s, pc |-> "rlock", use |-> {}]) : MayUse(g, h)
    BY <2>1, <2>3 DEF Pins
  <2>5. Passed([kind |-> k, recv |-> r, args |-> s, pc |-> "rlock", use |-> {}])
    BY DEF Passed, ArgLists
  <2>. QED
    BY <1>2, <2>2, <2>4, <2>5, EntersByPush DEF StartCall
<1>3. CASE StartBare(g)
  <2>1. PICK h \in ErrorHandle :
          held[h] /\ Push(g, [kind |-> "bare", recv |-> h, args |-> <<>>, pc |-> "bare", use |-> {}])
    BY <1>3 DEF StartBare
  <2>2. MayUse(g, h)
    BY <2>1, HandlesAssumption DEF MayUse, Private
  <2>3. \A k \in Pins([kind |-> "bare", recv |-> h, args |-> <<>>, pc |-> "bare", use |-> {}]) : MayUse(g, k)
    BY <2>2 DEF Pins
  <2>4. Passed([kind |-> "bare", recv |-> h, args |-> <<>>, pc |-> "bare", use |-> {}])
    BY DEF Passed
  <2>. QED
    BY <1>3, <2>1, <2>3, <2>4, EntersByPush DEF StartBare
<1>4. CASE StartClose(g)
  <2>1. PICK h \in Handle : MayUse(g, h) /\ Push(g, CloseFrame(h))
    BY <1>4 DEF StartClose
  <2>2. \A k \in Pins(CloseFrame(h)) : MayUse(g, k)
    BY <2>1 DEF Pins, CloseFrame
  <2>3. Passed(CloseFrame(h))
    BY DEF Passed, CloseFrame
  <2>. QED
    BY <1>4, <2>1, <2>2, <2>3, EntersByPush DEF StartClose, CloseFrame
<1>. QED
  BY <1>1, <1>2, <1>3, <1>4 DEF Start

LEMMA FunctionEnters ==
  ASSUME TypeOK, NEW g \in Goroutine, CallFunction(g)
  PROVE  Enters(g)
<1>1. PICK v \in Unborn \cap FunctionVm :
        NewObjects({v}) /\ Push(g, FunctionFrame(v)) /\ UNCHANGED rwmutex
  BY CallFunctionVm
<1>2. g \in Actor /\ Ready(g) /\ At(g, "running") /\ Cur(g).kind = "call"
  BY CallFunctionReady DEF Actor, CallFunction
<1>. QED
  BY <1>1, <1>2, PushFrame DEF Enters, EntersFunction, OtherFramesStay, OtherTopsStay

LEMMA FinalizerEnters ==
  ASSUME TypeOK, NEW h \in Handle, RunFinalizer(h)
  PROVE  Enters(Finalizer)
<1>1. /\ Finalizer \in Actor /\ Ready(Finalizer) /\ Push(Finalizer, CloseFrame(h))
  BY FinalizerStarts
<1>2. /\ top[Finalizer] + 1 \in Depth
      /\ top'[Finalizer] = top[Finalizer] + 1
      /\ OtherTopsStay(Finalizer)
      /\ OtherFramesStay(Finalizer, top[Finalizer] + 1)
      /\ frame'[Finalizer][top[Finalizer] + 1] = CloseFrame(h)
  BY <1>1, PushFrame DEF OtherTopsStay, OtherFramesStay
<1>. QED
  BY <1>1, <1>2 DEF Enters, EntersFinalizer

(* A call that is entered is at its beginning. *)
LEMMA EnteredAt ==
  ASSUME NEW a \in Actor, Enters(a)
  PROVE  /\ frame'[a][top[a] + 1].pc \in {"rlock", "bare", "lock", "running"}
         /\ frame'[a][top[a] + 1].pc = "running" => EntersFunction(a)
         /\ a \in Goroutine => frame'[a][top[a] + 1].kind \in Kinds \cup {"function"}
         /\ frame'[a][top[a] + 1].kind = "function" => EntersFunction(a)
<1>1. CASE EntersCall(a)
  <2>1. frame'[a][top[a] + 1].kind # "function"
    BY <1>1, HandlesAssumption DEF EntersCall, ProgramKinds
  <2>. QED
    BY <1>1, <2>1 DEF EntersCall
<1>2. CASE EntersFinalizer(a)
  <2>1. PICK h \in Handle : frame'[a][top[a] + 1] = CloseFrame(h)
    BY <1>2 DEF EntersFinalizer
  <2>2. a \notin Goroutine
    BY <1>2, HandlesAssumption DEF EntersFinalizer
  <2>. QED
    BY <2>1, <2>2 DEF CloseFrame
<1>3. CASE EntersFunction(a)
  <2>1. PICK v \in Unborn \cap FunctionVm : frame'[a][top[a] + 1] = FunctionFrame(v)
    BY <1>3 DEF EntersFunction
  <2>. QED
    BY <1>3, <2>1 DEF FunctionFrame
<1>. QED
  BY <1>1, <1>2, <1>3 DEF Enters

(* A step, as the calls see it. *)
LEMMA CallsStep ==
  ASSUME IInv, Next
  PROVE  UNCHANGED calls \/ \E a \in Actor : Moves(a) \/ Leaves(a) \/ Enters(a)
<1>ty. TypeOK /\ Goroutine \subseteq Actor /\ Finalizer \in Actor
  BY DEF IInv, Actor
<1>. QED
  BY <1>ty, CallStepMoves, CloseStepMoves, StartEnters, FunctionEnters, FinalizerEnters
     DEF Next, Forget

(* A call in progress after a step was there before it, or was just entered. *)
LEMMA FrameBefore ==
  ASSUME IInv, Next, NEW b \in Actor, NEW d \in Depth, Active(b, d)'
  PROVE  \/ Active(b, d) /\ frame'[b][d] = frame[b][d]
         \/ Active(b, d) /\ Moves(b) /\ d = top[b]
         \/ Enters(b) /\ d = top[b] + 1
<1>ty. \A a \in Actor : top[a] \in Nat
  BY HandlesAssumption DEF IInv, TypeOK
<1>1. CASE UNCHANGED calls
  BY <1>1 DEF calls, Active
<1>2. ASSUME NEW a \in Actor, Moves(a) \/ Leaves(a) \/ Enters(a), b # a
      PROVE  Active(b, d) /\ frame'[b][d] = frame[b][d]
  BY <1>2 DEF Moves, Leaves, Enters, OtherFramesStay, OtherTopsStay, Active
<1>3. CASE Moves(b)
  BY <1>3 DEF Moves, OtherFramesStay, Active
<1>4. CASE Leaves(b)
  BY <1>4, <1>ty DEF Leaves, OtherFramesStay, Active, Depth
<1>5. CASE Enters(b)
  BY <1>5, <1>ty DEF Enters, OtherFramesStay, Active, Depth
<1>. QED
  BY <1>1, <1>2, <1>3, <1>4, <1>5, CallsStep

(* A call in progress before a step is there after it, unless it returns. *)
LEMMA FrameAfter ==
  ASSUME IInv, Next, NEW b \in Actor, NEW d \in Depth, Active(b, d)
  PROVE  \/ /\ Active(b, d)'
            /\ frame'[b][d].kind = frame[b][d].kind
            /\ frame'[b][d].recv = frame[b][d].recv
         \/ Leaves(b) /\ d = top[b]
<1>ty. \A a \in Actor : top[a] \in Nat
  BY HandlesAssumption DEF IInv, TypeOK
<1>1. CASE UNCHANGED calls
  BY <1>1 DEF calls, Active
<1>2. ASSUME NEW a \in Actor, Moves(a) \/ Leaves(a) \/ Enters(a), b # a
      PROVE  Active(b, d)' /\ frame'[b][d] = frame[b][d]
  BY <1>2 DEF Moves, Leaves, Enters, OtherFramesStay, OtherTopsStay, Active
<1>3. CASE Moves(b)
  BY <1>3 DEF Moves, OtherFramesStay, Active
<1>4. CASE Leaves(b)
  BY <1>4, <1>ty DEF Leaves, OtherFramesStay, Active, Depth
<1>5. CASE Enters(b)
  BY <1>5, <1>ty DEF Enters, OtherFramesStay, Active, Depth
<1>. QED
  BY <1>1, <1>2, <1>3, <1>4, <1>5, CallsStep

-----------------------------------------------------------------------------
(* Allocations: who will free what.                                          *)

(* ptr, box and fin of an object agree, ... *)
BoxesOK ==
  \A h \in Handle : /\ box[h] = "live" => ptr[h]
                    /\ box[h] = "unborn" => ~ptr[h] /\ ~fin[h] /\ ~held[h]

(* ... also between dtor and ptr = nil. *)
FreedFirst == \A a \in Actor : \A d \in Depth :
                Active(a, d) /\ frame[a][d].pc = "clear" => box[frame[a][d].recv] = "freed"

(* The steps that change objects. *)
LEMMA ObjectStep ==
  ASSUME Next
  PROVE  \/ UNCHANGED object
         \/ \E new \in SUBSET Unborn : NewObjects(new)
         \/ \E a \in Actor : Dtor(a) \/ ClearPtr(a)
         \/ \E h \in Handle : Forget(h) \/ RunFinalizer(h)
<1>1. ASSUME NEW g \in Goroutine,
             Start(g) \/ CallStep(g) \/ CallFunction(g) \/ CallbackEnds(g)
      PROVE  UNCHANGED object \/ \E new \in SUBSET Unborn : NewObjects(new)
  <2>1. CASE Create(g) \/ Enter(g) \/ CallbackReturn(g) \/ CallFunction(g)
    BY <2>1 DEF Create, Enter, CallbackReturn, CallFunction, Results
  <2>2. CASE ~(Create(g) \/ Enter(g) \/ CallbackReturn(g) \/ CallFunction(g))
    BY <1>1, <2>2 DEF Start, StartCall, StartBare, StartClose, CallStep, RLockRecv, CheckRecv,
       RLockArg, CheckArg, CloneArg, ReadPeer, ReadPeerAgain, RUnlockArg, RUnlockRecv,
       CloseFunctionVm, ReadBare, ReadBareAgain, UseBare, CallbackEnds, FunctionReturns,
       FunctionPanics
  <2>. QED
    BY <2>1, <2>2
<1>2. ASSUME NEW a \in Actor, CloseStep(a)
      PROVE  UNCHANGED object \/ Dtor(a) \/ ClearPtr(a)
  BY <1>2 DEF CloseStep, Lock, Drain
<1>. QED
  BY <1>1, <1>2 DEF Next

(* No allocation is made twice, none comes back, and no variable either. *)
LEMMA BoxStep ==
  ASSUME IInv, Next, NEW h \in Handle
  PROVE  /\ box[h] = "freed" => box'[h] = "freed"
         /\ box[h] # "unborn" => box'[h] # "unborn" /\ (held'[h] => held[h])
<1>1. CASE UNCHANGED object
  BY <1>1 DEF object
<1>2. CASE \E new \in SUBSET Unborn : NewObjects(new)
  BY <1>2 DEF NewObjects, Unborn
<1>3. CASE \E a \in Actor : Dtor(a) \/ ClearPtr(a)
  BY <1>3 DEF Dtor, ClearPtr, IInv, TypeOK
<1>4. CASE \E k \in Handle : Forget(k) \/ RunFinalizer(k)
  BY <1>4 DEF Forget, RunFinalizer, IInv, TypeOK
<1>. QED
  BY <1>1, <1>2, <1>3, <1>4, ObjectStep

LEMMA BoxesNext == IInv /\ BoxesOK /\ FreedFirst /\ [Next]_vars => BoxesOK'
<1>. SUFFICES ASSUME IInv, BoxesOK, FreedFirst, Next PROVE BoxesOK'
  BY DEF vars, object, BoxesOK
<1>1. CASE UNCHANGED object
  BY <1>1 DEF object, BoxesOK
<1>2. CASE \E new \in SUBSET Unborn : NewObjects(new)
  BY <1>2 DEF NewObjects, Unborn, BoxesOK
<1>3. ASSUME NEW a \in Actor, Dtor(a)
      PROVE  BoxesOK'
  BY <1>3 DEF Dtor, IInv, TypeOK, BoxesOK
<1>4. ASSUME NEW a \in Actor, ClearPtr(a)
      PROVE  BoxesOK'
  <2>1. box[Recv(a)] = "freed"
    BY <1>4, CurOK DEF ClearPtr, FreedFirst, At, Cur, Recv
  <2>. QED
    BY <1>4, <2>1 DEF ClearPtr, IInv, TypeOK, BoxesOK
<1>5. ASSUME NEW h \in Handle, Forget(h) \/ RunFinalizer(h)
      PROVE  BoxesOK'
  BY <1>5 DEF Forget, RunFinalizer, IInv, TypeOK, BoxesOK
<1>. QED
  BY <1>1, <1>2, <1>3, <1>4, <1>5, ObjectStep

LEMMA FreedFirstNext == IInv /\ FreedFirst /\ [Next]_vars => FreedFirst'
<1>. SUFFICES ASSUME IInv, FreedFirst, [Next]_vars,
                     NEW a \in Actor, NEW d \in Depth,
                     Active(a, d)', frame'[a][d].pc = "clear"
              PROVE  box'[frame'[a][d].recv] = "freed"
  BY DEF FreedFirst
<1>1. CASE UNCHANGED vars
  BY <1>1 DEF vars, object, calls, FreedFirst, Active
<1>2. CASE Next
  <2>1. CASE Active(a, d) /\ frame'[a][d] = frame[a][d]
    <3>1. frame[a][d].recv \in Handle
      BY DEF IInv, TypeOK, Frame
    <3>. QED
      BY <1>2, <2>1, <3>1, BoxStep DEF FreedFirst
  <2>2. CASE Moves(a) /\ d = top[a]
    <3>1. Dtor(a) /\ frame'[a][d].recv = Recv(a)
      BY <2>2 DEF Moves, Recv, Cur
    <3>2. Recv(a) \in Handle
      BY <3>1, CurType DEF Dtor, At, IInv
    <3>. QED
      BY <3>1, <3>2 DEF Dtor, IInv, TypeOK
  <2>3. CASE Enters(a) /\ d = top[a] + 1
    BY <2>3, EnteredAt
  <2>. QED
    BY <1>2, <2>1, <2>2, <2>3, FrameBefore
<1>. QED
  BY <1>1, <1>2

(* A Close of h is at work. *)
Freeing(h) == \E a \in Actor : \E d \in Depth :
                Active(a, d) /\ frame[a][d].kind = "close" /\ frame[a][d].recv = h

(* While h lives, a Close of h does not go away without having freed it. *)
LEMMA FreeingStays ==
  ASSUME IInv, BoxesOK, FreedFirst, Next, NEW h \in Handle, box[h] = "live", box'[h] = "live",
         Freeing(h)
  PROVE  Freeing(h)'
<1>1. PICK a \in Actor, d \in Depth :
        Active(a, d) /\ frame[a][d].kind = "close" /\ frame[a][d].recv = h
  BY DEF Freeing
<1>2. ~(Leaves(a) /\ d = top[a])
  <2>. SUFFICES ASSUME Leaves(a), d = top[a] PROVE FALSE
    OBVIOUS
  <2>1. frame[a][d].pc \in {"drain", "clear"}
    BY <1>1 DEF IInv, CallsOK, FrameOK, Closing, Leaves
  <2>2. frame[a][d].pc # "drain"
    BY <1>1 DEF Leaves, BoxesOK
  <2>. QED
    BY <1>1, <2>1, <2>2 DEF FreedFirst
<1>. QED
  BY <1>1, <1>2, FrameAfter DEF Freeing

LEMMA LeaksNext ==
  IInv /\ BoxesOK /\ FreedFirst /\ NothingLeaks /\ [Next]_vars => NothingLeaks'
<1>. SUFFICES ASSUME IInv, BoxesOK, FreedFirst, NothingLeaks, [Next]_vars,
                     NEW h \in Handle, box'[h] = "live", ~fin'[h]
              PROVE  Freeing(h)'
  BY DEF NothingLeaks, Freeing
<1>1. CASE UNCHANGED vars
  BY <1>1 DEF vars, object, calls, NothingLeaks, Freeing, Active
<1>2. CASE Next
  <2>1. CASE box[h] = "live" /\ Freeing(h)
    BY <1>2, <2>1, FreeingStays
  <2>2. CASE box[h] = "live" /\ fin[h]
    <3>1. CASE \E new \in SUBSET Unborn : NewObjects(new)
      BY <2>2, <3>1 DEF NewObjects
    <3>2. ASSUME NEW a \in Actor, ClearPtr(a)
          PROVE  FALSE
      <4>1. box[Recv(a)] = "freed"
        BY <3>2, CurOK DEF ClearPtr, FreedFirst, At, Cur, Recv
      <4>. QED
        BY <2>2, <3>2, <4>1 DEF ClearPtr, IInv, TypeOK
    <3>3. CASE \E a \in Actor : Dtor(a)
      BY <2>2, <3>3 DEF Dtor
    <3>4. ASSUME NEW k \in Handle, RunFinalizer(k)
          PROVE  Freeing(h)'
      <4>1. k = h
        BY <2>2, <3>4 DEF RunFinalizer, IInv, TypeOK
      <4>2. /\ top[Finalizer] = 0 /\ 1 \in Depth /\ top'[Finalizer] = 1
            /\ frame'[Finalizer][1] = CloseFrame(h)
            /\ Finalizer \in Actor
        <5>1. /\ TypeOK /\ Finalizer \in Actor /\ Ready(Finalizer)
              /\ Push(Finalizer, CloseFrame(h)) /\ top[Finalizer] = 0
          BY <3>4, <4>1, FinalizerStarts DEF IInv, RunFinalizer
        <5>2. /\ top[Finalizer] + 1 \in Depth /\ top'[Finalizer] = top[Finalizer] + 1
              /\ frame'[Finalizer][top[Finalizer] + 1] = CloseFrame(h)
          BY <5>1, PushFrame
        <5>. QED
          BY <5>1, <5>2
      <4>3. Active(Finalizer, 1)'
        BY <4>2 DEF Active
      <4>. QED
        BY <4>2, <4>3 DEF Freeing, CloseFrame
    <3>5. CASE \E k \in Handle : Forget(k)
      BY <2>2, <3>5 DEF Forget
    <3>6. CASE UNCHANGED object
      BY <2>2, <3>6 DEF object
    <3>. QED
      BY <1>2, <3>1, <3>2, <3>3, <3>4, <3>5, <3>6, ObjectStep
  <2>3. CASE box[h] # "live"
    <3>1. \E new \in SUBSET Unborn : NewObjects(new) /\ h \in new
      <4>1. CASE UNCHANGED object
        BY <2>3, <4>1 DEF object
      <4>2. CASE \E a \in Actor : Dtor(a) \/ ClearPtr(a)
        BY <2>3, <4>2 DEF Dtor, ClearPtr, IInv, TypeOK
      <4>3. CASE \E k \in Handle : Forget(k) \/ RunFinalizer(k)
        BY <2>3, <4>3 DEF Forget, RunFinalizer
      <4>4. CASE \E new \in SUBSET Unborn : NewObjects(new)
        BY <2>3, <4>4 DEF NewObjects
      <4>. QED
        BY <1>2, <4>1, <4>2, <4>3, <4>4, ObjectStep
    <3>. QED
      BY <3>1 DEF NewObjects
  <2>. QED
    BY <2>1, <2>2, <2>3 DEF NothingLeaks, Freeing
<1>. QED
  BY <1>1, <1>2

(* Every allocation still alive will be freed by someone: its finalizer is   *)
(* armed or a Close is at work on it, whichever way the program closes,      *)
(* forgets and passes its objects around.                                    *)
THEOREM NoLeak == Spec => []NothingLeaks
<1>1. Init => BoxesOK /\ FreedFirst /\ NothingLeaks
  BY DEF Init, BoxesOK, FreedFirst, NothingLeaks, Active
<1>. QED
  BY <1>1, BoxesNext, FreedFirstNext, LeaksNext, Invariance, PTL DEF Spec

-----------------------------------------------------------------------------
(* The finalizer goroutine: what it closes, no call of the program refers to. *)

FinalizerOK ==
  /\ top[Finalizer] <= 1
  /\ top[Finalizer] = 1 =>
       LET h == frame[Finalizer][1].recv IN
         /\ frame[Finalizer][1].kind = "close"
         /\ ~held[h]
         /\ box[h] # "unborn"
         /\ \A g \in Goroutine : \A d \in Depth : Active(g, d) => h \notin Pins(frame[g][d])

(* A call on its way converts no argument it did not have before, unless it  *)
(* is a Go function that returns ...                                         *)
LEMMA ArgsShrink ==
  ASSUME TypeOK, NEW a \in Actor, Moves(a)
  PROVE  \/ Returned(a)
         \/ \A i \in DOMAIN frame'[a][top[a]].args : \E j \in DOMAIN frame[a][top[a]].args :
              frame'[a][top[a]].args[i] = frame[a][top[a]].args[j]
<1>. DEFINE s == frame[a][top[a]].args
            t == frame'[a][top[a]].args
<1>1. s \in Seq(Handle) /\ (Returned(a) \/ t \in {s, <<>>} \/ (s # <<>> /\ t = Tail(s)))
  <2>1. frame[a][top[a]] \in Frame
    BY DEF Moves, TypeOK
  <2>. QED
    BY <2>1 DEF Moves, Frame
<1>2. Returned(a) \/ \A i \in DOMAIN t : \E j \in DOMAIN s : t[i] = s[j]
  <2>. HIDE DEF s, t
  <2>1. CASE t = s
    BY <2>1
  <2>2. CASE t = <<>>
    BY <2>2
  <2>3. CASE s # <<>> /\ t = Tail(s)
    <3>1. /\ t \in Seq(Handle) /\ Len(t) = Len(s) - 1 /\ Len(s) \in Nat
          /\ DOMAIN s = 1 .. Len(s) /\ DOMAIN t = 1 .. Len(t)
          /\ \A i \in 1 .. Len(s) - 1 : t[i] = s[i + 1]
      BY <1>1, <2>3, HeadTailProperties
    <3>2. ASSUME NEW i \in DOMAIN t
          PROVE  i + 1 \in DOMAIN s /\ t[i] = s[i + 1]
      BY <3>1
    <3>. QED
      BY <3>2
  <2>. QED
    BY <1>1, <2>1, <2>2, <2>3
<1>. QED
  BY <1>2

(* ... and refers to no other object it did not refer to before. *)
LEMMA PinsShrink ==
  ASSUME TypeOK, NEW a \in Actor, Moves(a), NEW h \in Pins(frame'[a][top[a]])
  PROVE  \/ h \in Pins(frame[a][top[a]])
         \/ Returned(a) /\ h \in Returns /\ MayUse(a, h)
<1>. DEFINE f == frame[a][top[a]]
            g == frame'[a][top[a]]
<1>1. g.recv = f.recv /\ f.pc # "bareuse"
  BY DEF Moves, PcMoves
<1>2. CASE \A i \in DOMAIN g.args : \E j \in DOMAIN f.args : g.args[i] = f.args[j]
  <2>1. h \in Pins(g)
    OBVIOUS
  <2>. HIDE DEF f, g
  <2>2. h \in Pins(f)
    BY <1>1, <1>2, <2>1 DEF Pins
  <2>. QED
    BY <2>2 DEF f
<1>3. CASE Returned(a)
  <2>1. \A i \in DOMAIN g.args : g.args[i] \in Returns /\ MayUse(a, g.args[i])
    BY <1>3 DEF Returned
  <2>2. h \in Pins(g)
    OBVIOUS
  <2>. HIDE DEF f, g
  <2>3. h \in Pins(f) \/ (h \in Returns /\ MayUse(a, h))
    BY <1>1, <2>1, <2>2 DEF Pins
  <2>. QED
    BY <1>3, <2>3 DEF f
<1>. QED
  BY <1>2, <1>3, ArgsShrink

LEMMA FinalizerNext == IInv /\ BoxesOK /\ FinalizerOK /\ [Next]_vars => FinalizerOK'
<1>. SUFFICES ASSUME IInv, BoxesOK, FinalizerOK, [Next]_vars PROVE FinalizerOK'
  OBVIOUS
<1>f. Finalizer \in Actor /\ Finalizer \notin Goroutine /\ Goroutine \subseteq Actor
  BY HandlesAssumption DEF Actor
<1>ty. TypeOK /\ \A a \in Actor : top[a] \in Nat
  BY HandlesAssumption DEF IInv, TypeOK
<1>1. CASE UNCHANGED vars
  BY <1>1 DEF vars, object, calls, FinalizerOK, Active
<1>2. CASE Next
  <2>1. top'[Finalizer] <= 1
    <3>1. Enters(Finalizer) => top[Finalizer] = 0
      BY <1>f DEF Enters, EntersCall, EntersFinalizer, EntersFunction, RunFinalizer
    <3>2. \/ top'[Finalizer] \in {top[Finalizer], top[Finalizer] - 1}
          \/ Enters(Finalizer) /\ top'[Finalizer] = top[Finalizer] + 1
      <4>1. ASSUME NEW a \in Actor, Moves(a)
            PROVE  top'[Finalizer] = top[Finalizer]
        BY <4>1 DEF Moves
      <4>2. ASSUME NEW a \in Actor, Leaves(a)
            PROVE  top'[Finalizer] \in {top[Finalizer], top[Finalizer] - 1}
        BY <4>2, <1>f DEF Leaves, OtherTopsStay
      <4>3. ASSUME NEW a \in Actor, Enters(a)
            PROVE  \/ top'[Finalizer] = top[Finalizer]
                   \/ Enters(Finalizer) /\ top'[Finalizer] = top[Finalizer] + 1
        <5>1. CASE a = Finalizer
          BY <4>3, <5>1 DEF Enters
        <5>2. CASE a # Finalizer
          BY <4>3, <5>2, <1>f DEF Enters, OtherTopsStay
        <5>. QED
          BY <5>1, <5>2
      <4>. QED
        BY <1>2, <4>1, <4>2, <4>3, CallsStep DEF calls
    <3>. QED
      BY <3>1, <3>2, <1>f, <1>ty DEF FinalizerOK
  <2>. SUFFICES ASSUME top'[Finalizer] = 1
                PROVE  /\ frame'[Finalizer][1].kind = "close"
                       /\ ~held'[frame'[Finalizer][1].recv]
                       /\ box'[frame'[Finalizer][1].recv] # "unborn"
                       /\ \A g \in Goroutine : \A d \in Depth : Active(g, d)' =>
                            frame'[Finalizer][1].recv \notin Pins(frame'[g][d])
    BY <2>1 DEF FinalizerOK
  <2>2. 1 \in Depth /\ Active(Finalizer, 1)'
    BY HandlesAssumption DEF Depth, Active
  <2>3. CASE /\ Active(Finalizer, 1)
             /\ frame'[Finalizer][1].kind = frame[Finalizer][1].kind
             /\ frame'[Finalizer][1].recv = frame[Finalizer][1].recv
    <3>1. top[Finalizer] = 1
      BY <2>3, <1>f, <1>ty DEF Active, FinalizerOK
    <3>. DEFINE h == frame[Finalizer][1].recv
    <3>2. h \in Handle
      BY <2>2, <1>f, <1>ty DEF TypeOK, Frame
    <3>3. frame'[Finalizer][1].kind = "close" /\ ~held[h] /\ ~held'[h] /\ box'[h] # "unborn"
      BY <1>2, <2>3, <3>1, <3>2, BoxStep DEF FinalizerOK
    <3>4. ASSUME NEW g \in Goroutine, NEW d \in Depth, Active(g, d)', h \in Pins(frame'[g][d])
          PROVE  FALSE
      <4>1. CASE Active(g, d) /\ frame'[g][d] = frame[g][d]
        BY <3>1, <3>4, <4>1 DEF FinalizerOK
      <4>2. CASE Active(g, d) /\ Moves(g) /\ d = top[g]
        <5>1. h \in Pins(frame[g][top[g]]) \/ MayUse(g, h)
          BY <3>4, <4>2, <1>f, <1>ty, PinsShrink
        <5>. QED
          BY <3>1, <3>3, <4>2, <5>1 DEF FinalizerOK, MayUse
      <4>3. CASE Enters(g) /\ d = top[g] + 1
        <5>1. CASE EntersCall(g)
          BY <3>3, <3>4, <4>3, <5>1 DEF EntersCall, MayUse
        <5>2. CASE EntersFunction(g)
          <6>1. h \in Unborn
            BY <3>4, <4>3, <5>2 DEF EntersFunction, FunctionFrame, Pins
          <6>. QED
            BY <3>1, <6>1 DEF FinalizerOK, Unborn
        <5>. QED
          BY <4>3, <5>1, <5>2, <1>f DEF Enters, EntersFinalizer
      <4>. QED
        BY <1>2, <1>f, <3>4, <4>1, <4>2, <4>3, FrameBefore
    <3>. QED
      BY <2>3, <3>3, <3>4
  <2>4. CASE Enters(Finalizer)
    <3>1. PICK h \in Handle : RunFinalizer(h) /\ frame'[Finalizer][top[Finalizer] + 1] = CloseFrame(h)
      BY <2>4, <1>f DEF Enters, EntersCall, EntersFinalizer, EntersFunction
    <3>2. /\ top[Finalizer] = 0 /\ fin[h] /\ held' = held /\ box' = box
          /\ ~held[h]
          /\ \A a \in Actor : \A d \in Depth : Active(a, d) => h \notin Pins(frame[a][d])
      BY <3>1 DEF RunFinalizer, Reachable
    <3>3. frame'[Finalizer][1] = CloseFrame(h)
      BY <3>1, <3>2
    <3>4. box[h] # "unborn"
      BY <3>2 DEF BoxesOK
    <3>5. \A g \in Goroutine : \A d \in Depth : Active(g, d)' =>
            Active(g, d) /\ frame'[g][d] = frame[g][d]
      BY <2>4, <1>f DEF Enters, OtherTopsStay, OtherFramesStay, Active
    <3>. QED
      BY <3>2, <3>3, <3>4, <3>5, <1>f DEF CloseFrame
  <2>5. \/ Enters(Finalizer)
        \/ /\ Active(Finalizer, 1)
           /\ frame'[Finalizer][1].kind = frame[Finalizer][1].kind
           /\ frame'[Finalizer][1].recv = frame[Finalizer][1].recv
    BY <1>2, <1>f, <2>2, FrameBefore DEF Moves
  <2>. QED
    BY <2>3, <2>4, <2>5
<1>. QED
  BY <1>1, <1>2

(* Who holds, wants or has announced a lock refers to the object. *)
LEMMA LockersPin ==
  ASSUME IInv, TokensOK, WritersOK, NEW h \in Handle
  PROVE  /\ \A t \in readers[h] \cup parked[h] :
              /\ t[1] \in Actor /\ t[2] \in Depth /\ Active(t[1], t[2])
              /\ frame[t[1]][t[2]].kind # "close" /\ h \in Pins(frame[t[1]][t[2]])
         /\ \A w \in Actor : writer[h] = w =>
              top[w] \in Depth /\ Active(w, top[w]) /\ h \in Pins(frame[w][top[w]])
<1>1. ASSUME NEW t \in readers[h] \cup parked[h]
      PROVE  /\ t[1] \in Actor /\ t[2] \in Depth /\ Active(t[1], t[2])
             /\ frame[t[1]][t[2]].kind # "close" /\ h \in Pins(frame[t[1]][t[2]])
  <2>. DEFINE f == frame[t[1]][t[2]]
  <2>1. t[1] \in Actor /\ t[2] \in Depth /\ t[3] \in {"recv", "arg"} /\ TokenOK(h, t)
    BY TokenParts DEF IInv, TokensOK
  <2>2. f.kind \notin {"close", "bare"} /\ Active(t[1], t[2]) /\ f.args \in Seq(Handle)
    BY <2>1 DEF TokenOK, IInv, TypeOK, Frame
  <2>3. f.pc # "bareuse"
    BY <2>1, <2>2 DEF IInv, CallsOK, FrameOK
  <2>4. CASE t[3] = "recv"
    BY <2>1, <2>2, <2>3, <2>4 DEF TokenOK, Pins
  <2>5. CASE t[3] = "arg"
    <3>1. f.args # <<>> /\ Head(f.args) = h
      BY <2>1, <2>5 DEF TokenOK
    <3>2. 1 \in DOMAIN f.args /\ f.args[1] = h
      BY <2>2, <3>1
    <3>. QED
      BY <2>1, <2>2, <3>2 DEF Pins
  <2>. QED
    BY <2>1, <2>2, <2>4, <2>5
<1>2. ASSUME NEW w \in Actor, writer[h] = w
      PROVE  top[w] \in Depth /\ Active(w, top[w]) /\ h \in Pins(frame[w][top[w]])
  <2>1. top[w] > 0 /\ Recv(w) = h /\ Cur(w).pc # "bareuse"
    BY <1>2 DEF WritersOK, Closes, WriterHeld
  <2>. QED
    BY <2>1, CurOK DEF Pins, Cur, Recv
<1>. QED
  BY <1>1, <1>2

LEMMA FinalizerAlone ==
  ASSUME IInv, TokensOK, WritersOK, FinalizerOK, top[Finalizer] > 0,
         NEW h \in Handle, Recv(Finalizer) = h
  PROVE  readers[h] = {} /\ parked[h] = {} /\ writer[h] \in {NoActor, Finalizer}
<1>1. /\ top[Finalizer] = 1 /\ frame[Finalizer][1].recv = h /\ Finalizer \in Actor
      /\ frame[Finalizer][1].kind = "close"
  BY HandlesAssumption DEF FinalizerOK, Recv, Cur, IInv, TypeOK, Actor
<1>2. \A g \in Goroutine : \A d \in Depth : Active(g, d) => h \notin Pins(frame[g][d])
  BY <1>1 DEF FinalizerOK
<1>3. ASSUME NEW t \in readers[h] \cup parked[h]
      PROVE  FALSE
  <2>1. /\ t[1] \in Actor /\ t[2] \in Depth /\ Active(t[1], t[2])
        /\ frame[t[1]][t[2]].kind # "close" /\ h \in Pins(frame[t[1]][t[2]])
    BY LockersPin
  <2>2. t[1] = Finalizer
    BY <2>1, <1>2 DEF Actor
  <2>3. t[2] = 1
    BY <2>1, <2>2, <1>1 DEF Active
  <2>. QED
    BY <2>1, <2>2, <2>3, <1>1
<1>4. writer[h] \in {NoActor, Finalizer}
  BY <1>2, LockersPin DEF IInv, TypeOK, Actor
<1>. QED
  BY <1>3, <1>4

(* The finalizer goroutine, which closes all dropped objects one after       *)
(* another, never waits for a read lock or for another Close: the deferred   *)
(* RUnlocks keep an object reachable as long as anyone uses its lock.        *)
THEOREM FinalizerNeverWaits == Spec => []FinalizerNeverWaitsForReaders
<1>1. Init => TokensOK /\ WritersOK /\ BoxesOK /\ FreedFirst /\ FinalizerOK
  BY HandlesAssumption DEF Init, TokensOK, WritersOK, BoxesOK, FreedFirst, FinalizerOK, Active, Actor
<1>2. IInv /\ TokensOK /\ WritersOK /\ FinalizerOK => FinalizerNeverWaitsForReaders
  <2>. SUFFICES ASSUME IInv, TokensOK, WritersOK, FinalizerOK, top[Finalizer] > 0
                PROVE  LET h == Recv(Finalizer)
                       IN  readers[h] = {} /\ parked[h] = {} /\ writer[h] \in {NoActor, Finalizer}
    BY DEF FinalizerNeverWaitsForReaders, At
  <2>1. Finalizer \in Actor /\ Recv(Finalizer) \in Handle
    BY CurType DEF IInv, Actor
  <2>. QED
    BY <2>1, FinalizerAlone
<1>. QED
  BY <1>1, <1>2, TokensNext, WritersNext, BoxesNext, FreedFirstNext, FinalizerNext, Invariance,
     PTL DEF Spec

-----------------------------------------------------------------------------
(* Deadlock.  A program whose goroutines never call Close themselves (it     *)
(* leaves closing to the collector, and to gluau what gluau closes when a Go *)
(* function ends) meets two locks at once as well, but every wait ends at    *)
(* the one actor that is inside Lua: provided that the VM of a Go function   *)
(* stays with that function, for that is what gluau closes itself.           *)

KindsOK == \A g \in Goroutine : \A d \in Depth :
             Active(g, d) => frame[g][d].kind \in Kinds \cup {"function"}

(* The VM mutex admits one actor, however deep its callbacks nest. *)
OneInLua ==
  \A a, b \in Actor : \A d, e \in Depth :
    /\ Active(a, d) /\ frame[a][d].pc = "running"
    /\ Active(b, e) /\ frame[b][e].pc = "running"
    => a = b

LEMMA KindsNext == IInv /\ KindsOK /\ [Next]_vars => KindsOK'
<1>. SUFFICES ASSUME IInv, KindsOK, [Next]_vars,
                     NEW g \in Goroutine, NEW d \in Depth, Active(g, d)'
              PROVE  frame'[g][d].kind \in Kinds \cup {"function"}
  BY DEF KindsOK
<1>1. CASE UNCHANGED vars
  BY <1>1 DEF vars, calls, KindsOK, Active
<1>2. CASE Next
  <2>1. g \in Actor /\ g # Finalizer
    BY HandlesAssumption DEF Actor
  <2>2. CASE Enters(g) /\ d = top[g] + 1
    BY <2>1, <2>2, EnteredAt
  <2>3. CASE Active(g, d) /\ frame'[g][d].kind = frame[g][d].kind
    BY <2>3 DEF KindsOK
  <2>. QED
    BY <1>2, <2>1, <2>2, <2>3, FrameBefore DEF Moves
<1>. QED
  BY <1>1, <1>2

LEMMA OneInLuaNext == IInv /\ OneInLua /\ [Next]_vars => OneInLua'
<1>. SUFFICES ASSUME IInv, OneInLua, [Next]_vars,
                     NEW a \in Actor, NEW b \in Actor, NEW d \in Depth, NEW e \in Depth,
                     Active(a, d)', frame'[a][d].pc = "running",
                     Active(b, e)', frame'[b][e].pc = "running",
                     a # b
              PROVE  FALSE
  BY DEF OneInLua
<1>1. CASE UNCHANGED vars
  BY <1>1 DEF vars, calls, OneInLua, Active
<1>2. CASE Next
  <2>. DEFINE Was(c, n) == Active(c, n) /\ frame'[c][n] = frame[c][n]
  <2>1. ASSUME NEW c \in Actor, NEW n \in Depth, Active(c, n)', frame'[c][n].pc = "running"
        PROVE  \/ \E m \in Depth : Was(c, m) /\ frame'[c][m].pc = "running"
               \/ Moves(c) /\ LuaFree(c)
    <3>1. CASE Enters(c) /\ n = top[c] + 1
      <4>1. At(c, "running") /\ top[c] > 0
        BY <2>1, <3>1, EnteredAt DEF EntersFunction, At
      <4>2. top[c] \in Depth /\ Active(c, top[c])
        BY <4>1, CurOK
      <4>3. top[c] \in Nat
        BY <4>2 DEF Depth
      <4>4. frame'[c][top[c]] = frame[c][top[c]]
        BY <3>1, <4>2, <4>3 DEF Enters, OtherFramesStay
      <4>. QED
        BY <4>1, <4>2, <4>4 DEF At, Cur
    <3>2. Moves(c) /\ n = top[c] => LuaFree(c)
      BY <2>1 DEF Moves
    <3>. QED
      BY <1>2, <2>1, <3>1, <3>2, FrameBefore
  <2>2. ASSUME NEW c \in Actor, NEW n \in Depth, Was(c, n), frame'[c][n].pc = "running",
               NEW x \in Actor, x # c
        PROVE  ~LuaFree(x)
    BY <2>2 DEF LuaFree
  <2>3. ~(Moves(a) /\ Moves(b))
    <3>. SUFFICES ASSUME Moves(a), Moves(b) PROVE FALSE
      OBVIOUS
    <3>1. frame'[b][top[b]] = frame[b][top[b]]
      BY DEF Moves, OtherFramesStay
    <3>2. <<frame[b][top[b]].pc, frame[b][top[b]].pc>> \in PcMoves
      BY <3>1 DEF Moves
    <3>. QED
      BY <3>2 DEF PcMoves
  <2>4. ASSUME NEW m \in Depth, NEW n \in Depth, Was(a, m), Was(b, n),
               frame'[a][m].pc = "running", frame'[b][n].pc = "running"
        PROVE  FALSE
    BY <2>4 DEF OneInLua
  <2>. HIDE DEF Was
  <2>. QED
    BY <2>1, <2>2, <2>3, <2>4
<1>. QED
  BY <1>1, <1>2

(* The VM that is made for a call of a Go function is new, and so is no      *)
(* other call's ...                                                          *)
OneFunction ==
  \A a \in Actor : \A d \in Depth : Active(a, d) /\ frame[a][d].kind = "function" =>
    /\ frame[a][d].recv \in FunctionVm
    /\ box[frame[a][d].recv] # "unborn"
    /\ \A b \in Actor : \A e \in Depth :
         /\ Active(b, e) /\ frame[b][e].kind = "function"
         /\ frame[b][e].recv = frame[a][d].recv
         => b = a /\ e = d

LEMMA OneFunctionNext == IInv /\ OneFunction /\ [Next]_vars => OneFunction'
<1>. SUFFICES ASSUME IInv, OneFunction, [Next]_vars PROVE OneFunction'
  OBVIOUS
<1>1. CASE UNCHANGED vars
  BY <1>1 DEF vars, object, calls, OneFunction, Active
<1>2. CASE Next
  <2>. DEFINE Fun(a, d) == Active(a, d) /\ frame[a][d].kind = "function"
              New(a, d) == /\ Enters(a) /\ d = top[a] + 1 /\ top'[a] = top[a] + 1
                           /\ frame'[a][d].recv \in Unborn \cap FunctionVm
                           /\ box'[frame'[a][d].recv] # "unborn"
  <2>1. ASSUME NEW a \in Actor, NEW d \in Depth, Active(a, d)', frame'[a][d].kind = "function"
        PROVE  \/ Fun(a, d) /\ frame'[a][d].recv = frame[a][d].recv
               \/ New(a, d)
    <3>1. CASE Active(a, d) /\ frame'[a][d] = frame[a][d]
      BY <2>1, <3>1
    <3>2. CASE Active(a, d) /\ Moves(a) /\ d = top[a]
      BY <2>1, <3>2 DEF Moves
    <3>3. CASE Enters(a) /\ d = top[a] + 1
      <4>1. EntersFunction(a)
        BY <2>1, <3>3, EnteredAt
      <4>2. PICK v \in Unborn \cap FunctionVm : NewObjects({v}) /\ frame'[a][d] = FunctionFrame(v)
        BY <3>3, <4>1 DEF EntersFunction
      <4>3. box'[v] = "live" /\ frame'[a][d].recv = v
        BY <4>2 DEF NewObjects, Unborn, FunctionFrame
      <4>. QED
        BY <3>3, <4>2, <4>3 DEF Enters
    <3>. QED
      BY <1>2, <2>1, <3>1, <3>2, <3>3, FrameBefore
  <2>2. ASSUME NEW a \in Actor, NEW d \in Depth, Fun(a, d)
        PROVE  /\ frame[a][d].recv \in FunctionVm /\ frame[a][d].recv \notin Unborn
               /\ box'[frame[a][d].recv] # "unborn"
    <3>1. frame[a][d].recv \in FunctionVm /\ box[frame[a][d].recv] # "unborn"
      BY <2>2 DEF OneFunction
    <3>2. frame[a][d].recv \in Handle
      BY <3>1, HandlesAssumption
    <3>. QED
      BY <1>2, <3>1, <3>2, BoxStep DEF Unborn
  <2>3. ASSUME NEW a \in Actor, NEW b \in Actor, NEW d \in Depth, NEW e \in Depth,
               New(a, d), New(b, e)
        PROVE  a = b /\ d = e
    <3>1. top[b] \in Nat /\ top'[b] = top[b] + 1
      BY <2>3, HandlesAssumption DEF IInv, TypeOK
    <3>2. a = b
      BY <2>3, <3>1 DEF Enters, OtherTopsStay
    <3>. QED
      BY <2>3, <3>2
  <2>4. ASSUME NEW a \in Actor, NEW b \in Actor, NEW d \in Depth, NEW e \in Depth,
               Fun(a, d), Fun(b, e), frame[b][e].recv = frame[a][d].recv
        PROVE  a = b /\ d = e
    BY <2>4 DEF OneFunction
  <2>. SUFFICES ASSUME NEW a \in Actor, NEW d \in Depth, Active(a, d)', frame'[a][d].kind = "function"
                PROVE  /\ frame'[a][d].recv \in FunctionVm
                       /\ box'[frame'[a][d].recv] # "unborn"
                       /\ \A b \in Actor : \A e \in Depth :
                            /\ Active(b, e)' /\ frame'[b][e].kind = "function"
                            /\ frame'[b][e].recv = frame'[a][d].recv
                            => b = a /\ e = d
    BY DEF OneFunction
  <2>5. /\ frame'[a][d].recv \in FunctionVm
        /\ box'[frame'[a][d].recv] # "unborn"
    BY <2>1, <2>2
  <2>6. ASSUME NEW b \in Actor, NEW e \in Depth, Active(b, e)', frame'[b][e].kind = "function",
               frame'[b][e].recv = frame'[a][d].recv
        PROVE  b = a /\ e = d
    <3>1. \/ Fun(a, d) /\ frame'[a][d].recv = frame[a][d].recv /\ frame'[a][d].recv \notin Unborn
          \/ New(a, d)
      BY <2>1, <2>2
    <3>2. \/ Fun(b, e) /\ frame'[b][e].recv = frame[b][e].recv /\ frame'[b][e].recv \notin Unborn
          \/ New(b, e)
      BY <2>1, <2>2, <2>6
    <3>. HIDE DEF Fun
    <3>. QED
      BY <2>3, <2>4, <2>6, <3>1, <3>2
  <2>. QED
    BY <2>5, <2>6
<1>. QED
  BY <1>1, <1>2

(* ... and, unless the program shares it, is referred to only by what runs   *)
(* inside of that function.                                                  *)
PrivateOK ==
  \A g \in Goroutine : \A d \in Depth : \A v \in Private :
    Active(g, d) /\ v \in Pins(frame[g][d]) =>
      \E e \in 1 .. d : frame[g][e].kind = "function" /\ frame[g][e].recv = v

(* A Go function goes on as long as what it called does. *)
LEMMA FunctionStays ==
  ASSUME IInv, Next, NEW g \in Actor, NEW d \in Depth, Active(g, d)', NEW v,
         NEW e \in 1 .. d, Active(g, e), frame[g][e].kind = "function", frame[g][e].recv = v
  PROVE  frame'[g][e].kind = "function" /\ frame'[g][e].recv = v
<1>1. e \in Depth /\ d \in Nat /\ e \in Nat /\ top[g] \in Nat
  BY HandlesAssumption DEF Depth, IInv, TypeOK
<1>2. ~(Leaves(g) /\ e = top[g])
  BY <1>1 DEF Leaves, Active
<1>. QED
  BY <1>1, <1>2, FrameAfter

LEMMA PrivateNext == IInv /\ PrivateOK /\ [Next]_vars => PrivateOK'
<1>. SUFFICES ASSUME IInv, PrivateOK, [Next]_vars, NEW g \in Goroutine, NEW d \in Depth,
                     NEW v \in Private, Active(g, d)', v \in Pins(frame'[g][d])
              PROVE  \E e \in 1 .. d : frame'[g][e].kind = "function" /\ frame'[g][e].recv = v
  BY DEF PrivateOK, Private, Pins
<1>1. CASE UNCHANGED vars
  BY <1>1 DEF vars, calls, PrivateOK, Active
<1>2. CASE Next
  <2>0. /\ g \in Actor /\ g # Finalizer /\ d \in Nat /\ top[g] \in Nat
        /\ v \in FunctionVm /\ TypeOK
    BY HandlesAssumption DEF Actor, IInv, TypeOK, Depth, Private
  <2>1. ASSUME NEW e \in 1 .. d, Active(g, e),
               frame[g][e].kind = "function", frame[g][e].recv = v
        PROVE  \E x \in 1 .. d : frame'[g][x].kind = "function" /\ frame'[g][x].recv = v
    BY <1>2, <2>0, <2>1, FunctionStays
  <2>2. ASSUME Active(g, d), v \in Pins(frame[g][d])
        PROVE  \E x \in 1 .. d : frame'[g][x].kind = "function" /\ frame'[g][x].recv = v
    <3>1. PICK e \in 1 .. d : frame[g][e].kind = "function" /\ frame[g][e].recv = v
      BY <2>2 DEF PrivateOK
    <3>2. Active(g, e)
      BY <2>0, <2>2 DEF Active
    <3>. QED
      BY <2>1, <3>1, <3>2
  <2>3. ASSUME MayUse(g, v), top[g] <= d
        PROVE  \E x \in 1 .. d : frame'[g][x].kind = "function" /\ frame'[g][x].recv = v
    <3>1. PICK e \in Depth : /\ Active(g, e)
                             /\ frame[g][e].kind = "function" /\ frame[g][e].recv = v
      BY <2>3 DEF MayUse, Mine
    <3>2. e \in 1 .. d
      BY <2>0, <2>3, <3>1 DEF Active
    <3>. QED
      BY <2>1, <3>1, <3>2
  <2>4. CASE Active(g, d) /\ frame'[g][d] = frame[g][d]
    BY <2>2, <2>4
  <2>5. CASE Active(g, d) /\ Moves(g) /\ d = top[g]
    <3>1. v \in Pins(frame[g][top[g]]) \/ MayUse(g, v)
      BY <2>0, <2>5, PinsShrink
    <3>. QED
      BY <2>0, <2>2, <2>3, <2>5, <3>1
  <2>6. CASE Enters(g) /\ d = top[g] + 1
    <3>1. CASE EntersCall(g)
      BY <2>0, <2>3, <2>6, <3>1 DEF EntersCall
    <3>2. CASE EntersFunction(g)
      <4>1. PICK x : frame'[g][d] = FunctionFrame(x)
        BY <2>6, <3>2 DEF EntersFunction
      <4>2. frame'[g][d].kind = "function" /\ frame'[g][d].recv = v
        BY <4>1 DEF FunctionFrame, Pins
      <4>3. d \in 1 .. d
        BY <2>0 DEF Depth
      <4>. QED
        BY <4>2, <4>3
    <3>. QED
      BY <2>0, <2>6, <3>1, <3>2 DEF Enters, EntersFinalizer
  <2>. QED
    BY <1>2, <2>0, <2>4, <2>5, <2>6, FrameBefore
<1>. QED
  BY <1>1, <1>2

(* When gluau closes such a VM, nobody else holds its lock or wants it. *)
LEMMA FunctionVmAlone ==
  ASSUME IInv, TokensOK, WritersOK, FinalizerOK, OneFunction, PrivateOK,
         NEW w \in Goroutine, top[w] > 0, Cur(w).kind = "function", Cur(w).pc \in Closing,
         NEW v \in Private, Recv(w) = v
  PROVE  readers[v] = {} /\ parked[v] = {} /\ writer[v] \in {NoActor, w}
<1>1. /\ w \in Actor /\ v \in Handle /\ top[w] \in Depth /\ Active(w, top[w])
      /\ frame[w][top[w]].kind = "function" /\ frame[w][top[w]].recv = v
      /\ frame[w][top[w]].pc \in Closing /\ top[w] \in Nat /\ v \in FunctionVm
  BY CurOK, HandlesAssumption DEF Actor, Private, Cur, Recv, Depth
<1>2. ASSUME NEW g \in Goroutine, NEW d \in Depth, Active(g, d), v \in Pins(frame[g][d])
      PROVE  g = w /\ d = top[w]
  <2>1. PICK e \in 1 .. d : frame[g][e].kind = "function" /\ frame[g][e].recv = v
    BY <1>2 DEF PrivateOK
  <2>2. e \in Depth /\ Active(g, e) /\ g \in Actor /\ d \in Nat /\ e \in Nat /\ top[g] \in Nat
    BY <1>2, <2>1, HandlesAssumption DEF Active, Depth, Actor, IInv, TypeOK
  <2>3. g = w /\ e = top[w]
    BY <1>1, <2>1, <2>2 DEF OneFunction
  <2>. QED
    BY <1>2, <2>1, <2>2, <2>3 DEF Active
<1>3. ASSUME NEW t \in readers[v] \cup parked[v]
      PROVE  FALSE
  <2>1. /\ t[1] \in Actor /\ t[2] \in Depth /\ Active(t[1], t[2])
        /\ frame[t[1]][t[2]].kind # "close" /\ v \in Pins(frame[t[1]][t[2]])
    BY <1>1, LockersPin
  <2>2. t[1] # Finalizer
    <3>. SUFFICES ASSUME t[1] = Finalizer PROVE FALSE
      OBVIOUS
    <3>1. top[Finalizer] = 1 /\ t[2] = 1
      BY <2>1, HandlesAssumption DEF FinalizerOK, Active, IInv, TypeOK, Depth
    <3>. QED
      BY <2>1, <3>1 DEF FinalizerOK
  <2>3. t[1] = w /\ t[2] = top[w]
    BY <2>1, <2>2, <1>2 DEF Actor
  <2>4. TokenOK(v, t) /\ t[3] \in {"recv", "arg"}
    BY <1>1, TokenParts DEF TokensOK, IInv
  <2>. QED
    BY <1>1, <2>3, <2>4 DEF TokenOK, ArgHeld, Closing
<1>4. ASSUME NEW x \in Actor, writer[v] = x
      PROVE  x = w
  <2>1. top[x] \in Depth /\ Active(x, top[x]) /\ v \in Pins(frame[x][top[x]])
    BY <1>1, <1>4, LockersPin
  <2>2. x # Finalizer
    <3>. SUFFICES ASSUME x = Finalizer PROVE FALSE
      OBVIOUS
    <3>1. top[Finalizer] = 1
      BY <2>1, HandlesAssumption DEF FinalizerOK, Active, IInv, TypeOK, Depth
    <3>2. frame[Finalizer][1].recv = v
      BY <1>1, <1>4, <3>1 DEF WritersOK, Closes, Recv, Cur
    <3>3. v \in Pins(frame[w][top[w]])
      BY <1>1 DEF Pins, Closing
    <3>. QED
      BY <1>1, <3>1, <3>2, <3>3 DEF FinalizerOK
  <2>. QED
    BY <2>1, <2>2, <1>2 DEF Actor
<1>. QED
  BY <1>1, <1>3, <1>4 DEF IInv, TypeOK

(* So nobody who closes waits for anybody, where the program leaves closing  *)
(* to others.                                                                *)
LEMMA ClosingAlone ==
  ASSUME IInv, TokensOK, WritersOK, FinalizerOK, KindsOK, OneFunction, PrivateOK,
         "close" \notin Kinds, Shared = {},
         NEW a \in Actor, top[a] > 0, Cur(a).pc \in Closing
  PROVE  /\ Recv(a) \in Handle
         /\ readers[Recv(a)] = {} /\ parked[Recv(a)] = {}
         /\ writer[Recv(a)] \in {NoActor, a}
<1>1. /\ top[a] \in Depth /\ Active(a, top[a]) /\ FrameOK(a, top[a]) /\ Recv(a) \in Handle
      /\ Cur(a) = frame[a][top[a]] /\ Recv(a) = frame[a][top[a]].recv
  BY CurOK, CurType DEF IInv, Cur, Recv
<1>2. Cur(a).kind \in {"close", "function"}
  BY <1>1 DEF FrameOK
<1>3. CASE a = Finalizer
  BY <1>1, <1>3, FinalizerAlone
<1>4. CASE a # Finalizer
  <2>1. a \in Goroutine /\ Cur(a).kind = "function"
    BY <1>1, <1>2, <1>4 DEF KindsOK, Actor
  <2>2. Recv(a) \in Private
    BY <1>1, <2>1 DEF OneFunction, Private
  <2>. QED
    BY <1>1, <2>1, <2>2, FunctionVmAlone
<1>. QED
  BY <1>3, <1>4

(* Nobody who only waits for the RWMutexes of others waits for ever: the     *)
(* writer in the way would be the finalizer goroutine, which never closes    *)
(* what is still referred to, or the end of a Go function, whose VM nobody   *)
(* else knows.                                                               *)
LEMMA OnlyLuaWaits ==
  ASSUME IInv, TokensOK, WritersOK, FinalizerOK, KindsOK, OneFunction, PrivateOK,
         "close" \notin Kinds, Shared = {},
         NEW a \in Actor, NEW b \in Actor, WaitsFor(a, b)
  PROVE  b # a /\ \E d \in Depth : Active(b, d) /\ frame[b][d].pc = "running"
<1>1. \A h \in Handle : \A w \in Actor : writer[h] = w =>
        top[w] > 0 /\ Cur(w).pc \in WriterHeld /\ parked[h] = {}
  <2>. SUFFICES ASSUME NEW h \in Handle, NEW w \in Actor, writer[h] = w
                PROVE  top[w] > 0 /\ Cur(w).pc \in WriterHeld /\ parked[h] = {}
    OBVIOUS
  <2>1. top[w] > 0 /\ Recv(w) = h /\ Cur(w).pc \in WriterHeld
    BY DEF WritersOK, Closes
  <2>2. Cur(w).pc \in Closing
    BY <2>1 DEF WriterHeld, Closing
  <2>. QED
    BY <2>1, <2>2, ClosingAlone
<1>2. ASSUME At(a, "check") \/ At(a, "argcheck")
      PROVE  /\ Recv(a) \in Handle
             /\ At(a, "argcheck") => Arg(a) \in Handle
  BY <1>2, CurType DEF At, Converting, IInv
<1>3. ~(At(a, "check") /\ Tok(a, "recv") \in parked[Recv(a)] /\ writer[Recv(a)] = b)
  BY <1>1, <1>2
<1>4. ~(At(a, "argcheck") /\ Tok(a, "arg") \in parked[Arg(a)] /\ writer[Arg(a)] = b)
  BY <1>1, <1>2
<1>5. ASSUME At(a, "lock") \/ At(a, "drain")
      PROVE  /\ Recv(a) \in Handle /\ readers[Recv(a)] = {}
             /\ writer[Recv(a)] \in {NoActor, a}
  BY <1>5, ClosingAlone DEF At, Closing
<1>6. ~(At(a, "lock") /\ writer[Recv(a)] = b)
  <2>. SUFFICES ASSUME At(a, "lock"), writer[Recv(a)] = b PROVE FALSE
    OBVIOUS
  <2>1. b = a
    BY <1>5, HandlesAssumption DEF Actor
  <2>2. Cur(a).pc \in WriterHeld
    BY <1>1, <1>5, <2>1
  <2>. QED
    BY <2>2 DEF At, WriterHeld
<1>7. ~(At(a, "drain") /\ \E t \in readers[Recv(a)] : t[1] = b)
  BY <1>5
<1>. QED
  BY <1>3, <1>4, <1>6, <1>7 DEF WaitsFor

(* A program whose goroutines leave closing to the collector and keep the VM *)
(* of a Go function inside of that function never deadlocks: no set of       *)
(* actors, of any size, waits for one another, however deep callbacks and Go *)
(* functions nest, whatever is passed to what and whatever functions return; *)
(* the Closes that gluau makes itself (vm.go:220) included.                  *)
THEOREM CollectorNeverDeadlocks ==
  ASSUME "close" \notin Kinds, Shared = {}
  PROVE  Spec => []NoDeadlock
<1>1. Init => /\ TokensOK /\ WritersOK /\ BoxesOK /\ FreedFirst /\ FinalizerOK
              /\ KindsOK /\ OneInLua /\ OneFunction /\ PrivateOK
  BY HandlesAssumption DEF Init, TokensOK, WritersOK, BoxesOK, FreedFirst, FinalizerOK,
     KindsOK, OneInLua, OneFunction, PrivateOK, Active, Actor
<1>2. /\ IInv /\ TokensOK /\ WritersOK /\ FinalizerOK /\ KindsOK /\ OneInLua
      /\ OneFunction /\ PrivateOK
      => NoDeadlock
  <2>. SUFFICES ASSUME IInv, TokensOK, WritersOK, FinalizerOK, KindsOK, OneInLua,
                       OneFunction, PrivateOK,
                       NEW S \in SUBSET Actor, Deadlocked(S)
                PROVE  FALSE
    BY DEF NoDeadlock
  <2>1. PICK a \in S : TRUE
    BY DEF Deadlocked
  <2>2. PICK b \in S : WaitsFor(a, b)
    BY DEF Deadlocked
  <2>3. PICK c \in S : WaitsFor(b, c)
    BY DEF Deadlocked
  <2>4. /\ \E d \in Depth : Active(b, d) /\ frame[b][d].pc = "running"
        /\ c # b /\ \E d \in Depth : Active(c, d) /\ frame[c][d].pc = "running"
    BY <2>2, <2>3, OnlyLuaWaits
  <2>. QED
    BY <2>4 DEF OneInLua
<1>. QED
  BY <1>1, <1>2, TokensNext, WritersNext, BoxesNext, FreedFirstNext, FinalizerNext, KindsNext,
     OneInLuaNext, OneFunctionNext, PrivateNext, Invariance, PTL DEF Spec

(* A program that compares no tables, sets no metatables and reads no error  *)
(* texts (the calls that take no lock) dereferences no freed pointer at all. *)
THEOREM LockingProgramsNeverStale ==
  ASSUME Kinds \cap Unlocked = {}
  PROVE  Spec => []NoStalePointer
<1>1. Init => KindsOK /\ BoxesOK /\ FreedFirst /\ FinalizerOK
  BY DEF Init, KindsOK, BoxesOK, FreedFirst, FinalizerOK, Active, Actor
<1>2. IInv /\ LockedCallsNeverStale /\ KindsOK /\ FinalizerOK => NoStalePointer
  <2>. SUFFICES ASSUME IInv, LockedCallsNeverStale, KindsOK, FinalizerOK, NEW a \in Actor, NEW d \in Depth,
                       Active(a, d), NEW h \in frame[a][d].use
                PROVE  box[h] = "live"
    BY DEF NoStalePointer
  <2>1. CASE a \in Goroutine
    <3>1. frame[a][d].kind \notin Unlocked
      BY <2>1 DEF KindsOK, Unlocked
    <3>. QED
      BY <3>1 DEF LockedCallsNeverStale
  <2>2. CASE a = Finalizer
    <3>1. top[a] \in Nat /\ top[a] <= 1 /\ d = 1 /\ top[a] = 1
      BY <2>2, HandlesAssumption DEF IInv, TypeOK, FinalizerOK, Active, Depth
    <3>2. frame[a][d].kind \notin Unlocked
      BY <2>2, <3>1 DEF FinalizerOK, Unlocked
    <3>. QED
      BY <3>2 DEF LockedCallsNeverStale
  <2>. QED
    BY <2>1, <2>2 DEF Actor
<1>. QED
  BY <1>1, <1>2, KindsNext, BoxesNext, FreedFirstNext, FinalizerNext, Invariance, PointerSafety, PTL DEF Spec

-----------------------------------------------------------------------------
(* Deadlock of programs that do close.  They need an order on their objects, *)
(* in which a call goes from its receiver to its arguments, and callbacks    *)
(* and Go functions that make no calls and return no objects: then all       *)
(* waiting is for read locks, and a circle of it would be a circle of that   *)
(* order.                                                                    *)

(* In every set of objects there is one to whose methods no other of them,   *)
(* nor itself, is passed.                                                    *)
PassedInOrder ==
  \A T \in SUBSET Handle : T # {} => \E h \in T : \A x \in T : <<h, x>> \notin Passes

PassedOK == \A a \in Actor : \A d \in Depth : Active(a, d) => Passed(frame[a][d])

LEMMA PassedNext == IInv /\ PassedOK /\ [Next]_vars => PassedOK'
<1>. SUFFICES ASSUME IInv, PassedOK, [Next]_vars,
                     NEW a \in Actor, NEW d \in Depth, Active(a, d)'
              PROVE  Passed(frame'[a][d])
  BY DEF PassedOK
<1>1. CASE UNCHANGED vars
  BY <1>1 DEF vars, calls, PassedOK, Active
<1>2. CASE Next
  <2>1. CASE Active(a, d) /\ frame'[a][d] = frame[a][d]
    BY <2>1 DEF PassedOK
  <2>2. CASE Active(a, d) /\ Moves(a) /\ d = top[a]
    <3>1. /\ Passed(frame[a][d]) /\ frame'[a][d].recv = frame[a][d].recv
          /\ frame'[a][d].kind = frame[a][d].kind
      BY <2>2 DEF PassedOK, Moves
    <3>2. \/ frame[a][d].kind = "function"
          \/ \A i \in DOMAIN frame'[a][d].args : \E j \in DOMAIN frame[a][d].args :
               frame'[a][d].args[i] = frame[a][d].args[j]
      BY <2>2, ArgsShrink DEF IInv, Returned
    <3>. QED
      BY <3>1, <3>2 DEF Passed
  <2>3. CASE Enters(a) /\ d = top[a] + 1
    <3>1. \/ Passed(frame'[a][d]) \/ \E h \in Handle : frame'[a][d] = CloseFrame(h)
          \/ \E v : frame'[a][d] = FunctionFrame(v)
      BY <2>3 DEF Enters, EntersCall, EntersFinalizer, EntersFunction
    <3>2. /\ \A h \in Handle : Passed(CloseFrame(h))
          /\ \A v : Passed(FunctionFrame(v))
      BY DEF Passed, CloseFrame, FunctionFrame
    <3>. QED
      BY <3>1, <3>2
  <2>. QED
    BY <1>2, <2>1, <2>2, <2>3, FrameBefore
<1>. QED
  BY <1>1, <1>2

(* Without nested calls and returned objects, only Go functions are above    *)
(* other calls, and they have nothing to convert.                            *)
FlatOK == \A a \in Actor : \A d \in Depth : Active(a, d) =>
            /\ d = 1 <=> frame[a][d].kind # "function"
            /\ frame[a][d].kind = "function" => frame[a][d].args = <<>>

LEMMA FlatNext ==
  ASSUME ~NestedCalls, Returns = {}
  PROVE  IInv /\ FlatOK /\ [Next]_vars => FlatOK'
<1>. SUFFICES ASSUME IInv, FlatOK, [Next]_vars, NEW a \in Actor, NEW d \in Depth, Active(a, d)'
              PROVE  /\ d = 1 <=> frame'[a][d].kind # "function"
                     /\ frame'[a][d].kind = "function" => frame'[a][d].args = <<>>
  BY DEF FlatOK
<1>1. CASE UNCHANGED vars
  BY <1>1 DEF vars, calls, FlatOK, Active
<1>2. CASE Next
  <2>0. top[a] \in Nat
    BY HandlesAssumption DEF IInv, TypeOK
  <2>1. CASE Active(a, d) /\ frame'[a][d] = frame[a][d]
    BY <2>1 DEF FlatOK
  <2>2. CASE Active(a, d) /\ Moves(a) /\ d = top[a]
    <3>1. /\ frame'[a][d].kind = frame[a][d].kind
          /\ d = 1 <=> frame[a][d].kind # "function"
          /\ frame[a][d].kind = "function" => frame[a][d].args = <<>>
      BY <2>2 DEF FlatOK, Moves
    <3>2. ASSUME Returned(a)
          PROVE  frame'[a][d].args = <<>>
      <4>. DEFINE s == frame'[a][d].args
      <4>1. s \in Seq(Handle) /\ \A i \in DOMAIN s : FALSE
        BY <2>2, <3>2 DEF Returned
      <4>. HIDE DEF s
      <4>2. Len(s) \in Nat /\ DOMAIN s = 1 .. Len(s)
        BY <4>1
      <4>3. Len(s) = 0
        <5>. SUFFICES ASSUME Len(s) # 0 PROVE FALSE
          OBVIOUS
        <5>1. 1 \in DOMAIN s
          BY <4>2
        <5>. QED
          BY <4>1, <5>1
      <4>4. s = <<>>
        BY <4>1, <4>3
      <4>. QED
        BY <4>4 DEF s
    <3>. QED
      BY <2>2, <3>1, <3>2 DEF Moves
  <2>3. CASE Enters(a) /\ d = top[a] + 1
    <3>1. CASE EntersCall(a)
      <4>1. frame'[a][d].kind # "function"
        BY <2>3, <3>1, HandlesAssumption DEF EntersCall, ProgramKinds
      <4>. QED
        BY <2>3, <3>1, <4>1 DEF EntersCall, CanStart
    <3>2. CASE EntersFinalizer(a)
      <4>1. PICK h \in Handle : RunFinalizer(h) /\ a = Finalizer /\ frame'[a][d] = CloseFrame(h)
        BY <2>3, <3>2 DEF EntersFinalizer
      <4>. QED
        BY <2>3, <4>1 DEF RunFinalizer, CloseFrame
    <3>3. CASE EntersFunction(a)
      <4>1. PICK v : frame'[a][d] = FunctionFrame(v)
        BY <2>3, <3>3 DEF EntersFunction
      <4>2. d # 1
        BY <2>0, <2>3, <3>3 DEF EntersFunction, At
      <4>. QED
        BY <4>1, <4>2 DEF FunctionFrame
    <3>. QED
      BY <2>3, <3>1, <3>2, <3>3 DEF Enters
  <2>. QED
    BY <1>2, <2>1, <2>2, <2>3, FrameBefore
<1>. QED
  BY <1>1, <1>2

(* Such a Go function waits for nobody. *)
LEMMA FunctionsWaitForNobody ==
  ASSUME IInv, TokensOK, WritersOK, FinalizerOK, OneInLua, OneFunction, PrivateOK, FlatOK,
         KindsOK, Shared = {}, NEW a \in Actor, top[a] > 0, Cur(a).kind = "function",
         NEW b \in Actor
  PROVE  ~WaitsFor(a, b)
<1>1. /\ top[a] \in Depth /\ Active(a, top[a]) /\ FrameOK(a, top[a]) /\ Recv(a) \in Handle
      /\ Cur(a) = frame[a][top[a]] /\ Recv(a) = frame[a][top[a]].recv
      /\ Cur(a).pc \in Converting => Cur(a).args # <<>>
  BY CurOK, CurType DEF IInv, Cur, Recv
<1>2. Cur(a).pc \notin Converting /\ Cur(a).pc \in FunctionPC
  BY <1>1 DEF FlatOK, FrameOK
<1>3. a \in Goroutine
  <2>1. a # Finalizer
    BY <1>1, HandlesAssumption DEF FinalizerOK, Depth, IInv, TypeOK
  <2>. QED
    BY <2>1 DEF Actor
<1>4. Recv(a) \in Private
  BY <1>1 DEF OneFunction, Private
<1>5. Cur(a).pc \in Closing => readers[Recv(a)] = {} /\ writer[Recv(a)] \in {NoActor, a}
  BY <1>3, <1>4, FunctionVmAlone
<1>6. \A d \in Depth : Active(b, d) /\ frame[b][d].pc = "running" => b = a
  <2>1. top[a] # 1 /\ top[a] \in Nat
    BY <1>1 DEF FlatOK, Depth
  <2>2. 1 \in Depth /\ Active(a, 1) /\ 1 < top[a]
    <3>1. top[a] \in 1 .. MaxDepth
      BY <1>1 DEF Depth
    <3>2. 1 < top[a] /\ 1 \in 1 .. MaxDepth /\ 1 \in 1 .. top[a]
      BY <2>1, <3>1, HandlesAssumption
    <3>. QED
      BY <3>2 DEF Active, Depth
  <2>3. frame[a][1].pc = "running"
    BY <2>2 DEF IInv, OthersRunning
  <2>. QED
    BY <2>2, <2>3 DEF OneInLua
<1>7. ~At(a, "check") /\ ~At(a, "argcheck")
  BY <1>2 DEF At, Converting, FunctionPC, Closing
<1>8. ~(At(a, "lock") /\ writer[Recv(a)] = b)
  <2>. SUFFICES ASSUME At(a, "lock"), writer[Recv(a)] = b PROVE FALSE
    OBVIOUS
  <2>1. b = a
    BY <1>5, HandlesAssumption DEF At, Closing, Actor
  <2>. QED
    BY <1>1, <2>1 DEF WritersOK, Closes, At, WriterHeld
<1>9. ~(At(a, "drain") /\ \E t \in readers[Recv(a)] : t[1] = b)
  BY <1>5 DEF At, Closing
<1>. QED
  BY <1>6, <1>7, <1>8, <1>9 DEF WaitsFor

(* So whoever is in a circle of waiting waits for a lock: a reader or a      *)
(* second Close for a Close, a Close for its readers.                        *)
LEMMA WaitsAreForLocks ==
  ASSUME IInv, TokensOK, WritersOK, FinalizerOK, OneInLua, OneFunction, PrivateOK, FlatOK,
         KindsOK, Shared = {}, NEW S \in SUBSET Actor, Deadlocked(S),
         NEW a \in S
  PROVE  /\ top[a] = 1 /\ Cur(a) = frame[a][1]
         /\ \/ At(a, "drain") /\ \E b \in S : \E t \in readers[Recv(a)] : t[1] = b
            \/ \E h \in Handle, b \in S :
                 /\ \/ At(a, "check") /\ Tok(a, "recv") \in parked[h] /\ h = Recv(a)
                    \/ At(a, "argcheck") /\ Tok(a, "arg") \in parked[h] /\ h = Arg(a)
                    \/ At(a, "lock")
                 /\ At(b, "drain") /\ Recv(b) = h
<1>1. ASSUME NEW c \in S
      PROVE  top[c] = 1 /\ Active(c, 1) /\ c \in Actor /\ \E e \in S : WaitsFor(c, e)
  <2>1. c \in Actor /\ \E e \in S : WaitsFor(c, e) /\ e \in Actor
    BY DEF Deadlocked
  <2>2. top[c] > 0
    BY <2>1 DEF WaitsFor, LuaOperation, At
  <2>3. top[c] \in Depth /\ Active(c, top[c])
    BY <2>1, <2>2, CurOK
  <2>4. Cur(c).kind # "function"
    BY <2>1, <2>2, FunctionsWaitForNobody
  <2>5. top[c] = 1
    BY <2>1, <2>3, <2>4 DEF FlatOK, Cur
  <2>. QED
    BY <2>1, <2>3, <2>5
<1>2. ASSUME NEW c \in S
      PROVE  ~At(c, "running") /\ ~At(c, "clear")
  BY <1>1 DEF WaitsFor, LuaOperation, At
<1>3. ASSUME NEW c \in S, NEW e \in S
      PROVE  ~(LuaOperation(c) /\ \E d \in Depth : Active(e, d) /\ frame[e][d].pc = "running")
  <2>1. \A d \in Depth : Active(e, d) => d = top[e] /\ top[e] > 0
    BY <1>1 DEF Depth, Active
  <2>. QED
    BY <2>1, <1>2 DEF At, Cur
<1>4. ASSUME NEW h \in Handle, NEW e \in S, writer[h] = e
      PROVE  At(e, "drain") /\ Recv(e) = h
  <2>1. top[e] > 0 /\ Recv(e) = h /\ Cur(e).pc \in WriterHeld
    BY <1>1, <1>4 DEF WritersOK, Closes
  <2>2. ~At(e, "dtor")
    <3>. SUFFICES ASSUME At(e, "dtor") PROVE FALSE
      OBVIOUS
    <3>1. PICK c \in S : WaitsFor(e, c)
      BY <1>1
    <3>2. LuaOperation(e) /\ \E d \in Depth : Active(c, d) /\ frame[c][d].pc = "running"
      BY <3>1 DEF WaitsFor, At
    <3>. QED
      BY <3>2, <1>3
  <2>. QED
    BY <2>1, <2>2, <1>2 DEF At, WriterHeld
<1>5. PICK b \in S : WaitsFor(a, b)
  BY <1>1
<1>6. Recv(a) \in Handle /\ (At(a, "argcheck") => Arg(a) \in Handle)
  BY <1>1, CurType DEF At, Converting, IInv
<1>7. top[a] = 1 /\ Cur(a) = frame[a][1]
  BY <1>1 DEF Cur
<1>8. CASE At(a, "drain") /\ \E t \in readers[Recv(a)] : t[1] = b
  BY <1>7, <1>8
<1>9. CASE \/ At(a, "check") /\ Tok(a, "recv") \in parked[Recv(a)] /\ writer[Recv(a)] = b
           \/ At(a, "lock") /\ writer[Recv(a)] = b
  BY <1>4, <1>6, <1>7, <1>9
<1>10. CASE At(a, "argcheck") /\ Tok(a, "arg") \in parked[Arg(a)] /\ writer[Arg(a)] = b
  BY <1>4, <1>6, <1>7, <1>10
<1>. QED
  BY <1>3, <1>5, <1>8, <1>9, <1>10 DEF WaitsFor

(* A program that passes objects in an order, and whose callbacks and Go     *)
(* functions call nothing, return no objects and keep their VM to            *)
(* themselves, never deadlocks, however its goroutines, gluau and the        *)
(* collector close things in between.                                        *)
THEOREM OrderedNeverDeadlocks ==
  ASSUME ~NestedCalls, Returns = {}, Shared = {}, PassedInOrder
  PROVE  Spec => []NoDeadlock
<1>1. Init => /\ TokensOK /\ WritersOK /\ PassedOK /\ BoxesOK /\ FreedFirst /\ FinalizerOK
              /\ KindsOK /\ OneInLua /\ OneFunction /\ PrivateOK /\ FlatOK
  BY HandlesAssumption DEF Init, TokensOK, WritersOK, PassedOK, BoxesOK, FreedFirst, FinalizerOK,
     KindsOK, OneInLua, OneFunction, PrivateOK, FlatOK, Active, Actor
<1>2. /\ IInv /\ TokensOK /\ WritersOK /\ PassedOK /\ FinalizerOK /\ KindsOK /\ OneInLua
      /\ OneFunction /\ PrivateOK /\ FlatOK
      => NoDeadlock
  <2>. SUFFICES ASSUME IInv, TokensOK, WritersOK, PassedOK, FinalizerOK, KindsOK, OneInLua,
                       OneFunction, PrivateOK, FlatOK, NEW S \in SUBSET Actor, Deadlocked(S)
                PROVE  FALSE
    BY DEF NoDeadlock
  <2>. DEFINE Closed == {h \in Handle : \E a \in S : At(a, "drain") /\ Recv(a) = h}
  <2>1. ASSUME NEW a \in S
        PROVE  top[a] = 1 /\ a \in Actor /\ Recv(a) \in Handle /\ Active(a, 1) /\ Cur(a) = frame[a][1]
    BY <2>1, WaitsAreForLocks, CurType DEF IInv, Active
  <2>2. Closed # {}
    <3>1. PICK a \in S : TRUE
      BY DEF Deadlocked
    <3>2. CASE At(a, "drain")
      BY <3>2, <2>1
    <3>3. CASE \E h \in Handle, b \in S : At(b, "drain") /\ Recv(b) = h
      BY <3>3
    <3>. QED
      BY <3>2, <3>3, WaitsAreForLocks
  <2>3. ASSUME NEW h \in Closed
        PROVE  \E x \in Closed : <<h, x>> \in Passes
    <3>1. PICK a \in S : At(a, "drain") /\ Recv(a) = h
      OBVIOUS
    <3>2. PICK b \in S : \E t \in readers[h] : t[1] = b
      BY <3>1, WaitsAreForLocks DEF At
    <3>3. PICK t \in readers[h] : t[1] = b
      BY <3>2
    <3>4. /\ TokenOK(h, t) /\ t \notin parked[h] /\ t[2] = 1
          /\ t = <<t[1], t[2], t[3]>> /\ t[3] \in {"recv", "arg"}
      <4>1. /\ TokenOK(h, t) /\ t \notin parked[h] /\ t[2] \in Depth
            /\ t = <<t[1], t[2], t[3]>> /\ t[3] \in {"recv", "arg"}
        BY <3>3, TokenParts DEF IInv, TokensOK
      <4>2. t[2] = 1
        BY <2>1, <3>3, <4>1 DEF TokenOK, Active
      <4>. QED
        BY <4>1, <4>2
    <3>5. ~At(b, "drain") /\ ~At(b, "lock")
      <4>1. Cur(b).kind \notin {"close", "function"} /\ top[b] > 0
        <5>1. 1 \in Depth /\ top[b] = 1 /\ Active(b, 1) /\ Cur(b) = frame[b][1]
          BY <2>1, HandlesAssumption DEF Depth
        <5>2. frame[b][1].kind # "function"
          BY <2>1, <5>1 DEF FlatOK
        <5>3. frame[b][1].kind # "close"
          BY <3>3, <3>4 DEF TokenOK
        <5>. QED
          BY <5>1, <5>2, <5>3
      <4>2. Cur(b).pc \notin Closing
        <5>1. FrameOK(b, 1) /\ frame[b][1].kind \notin {"close", "function"}
          BY <2>1, <4>1, CurOK
        <5>. QED
          BY <2>1, <5>1 DEF FrameOK
      <4>. QED
        BY <4>2 DEF Closing, At
    <3>6. PICK x \in Closed :
            \/ At(b, "check") /\ Tok(b, "recv") \in parked[x] /\ x = Recv(b)
            \/ At(b, "argcheck") /\ Tok(b, "arg") \in parked[x] /\ x = Arg(b)
      BY <3>5, WaitsAreForLocks
    <3>7. /\ t[3] = "recv" => t = Tok(b, "recv") /\ Recv(b) = h
          /\ t[3] = "arg" => t = Tok(b, "arg") /\ Arg(b) = h /\ ~At(b, "check")
      BY <2>1, <3>3, <3>4 DEF TokenOK, Tok, Recv, Arg, At, ArgHeld
    <3>8. At(b, "argcheck") /\ x = Arg(b) /\ Recv(b) = h
      BY <3>4, <3>6, <3>7
    <3>9. frame[b][1] \in Frame /\ frame[b][1].args \in Seq(Handle) /\ frame[b][1].args # <<>>
      BY <2>1, <3>8, HandlesAssumption DEF IInv, TypeOK, Frame, At, Converting, Depth
    <3>10. 1 \in DOMAIN frame[b][1].args /\ frame[b][1].args[1] = x
      BY <2>1, <3>8, <3>9 DEF Arg
    <3>11. Passed(frame[b][1]) /\ frame[b][1].kind # "function"
      BY <2>1, HandlesAssumption DEF PassedOK, FlatOK, Depth
    <3>. QED
      BY <2>1, <3>8, <3>10, <3>11 DEF Passed, Recv
  <2>. QED
    BY <2>2, <2>3 DEF PassedInOrder
<1>. QED
  BY <1>1, <1>2, TokensNext, WritersNext, PassedNext, BoxesNext, FreedFirstNext, FinalizerNext,
     KindsNext, OneInLuaNext, OneFunctionNext, PrivateNext, FlatNext, Invariance, PTL DEF Spec
=============================================================================
