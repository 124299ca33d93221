------------------------ MODULE NativeProcessProofs -------------------------
(***************************************************************************)
(* Proofs about NativeProcess for any number of threads and requests and   *)
(* any sizes of frames and pipes.  The inductive invariant says who may    *)
(* hold the mutex where, and what the two pipes and the child's loop hold  *)
(* at every moment of a request: nothing but pieces of that request, in    *)
(* order and counted, and nothing at all between requests.                 *)
(***************************************************************************)
EXTENDS NativeProcess, TLAPS

Stopping == {"stop", "kill", "wait"}
Inside == {"write", "read"} \cup Stopping

\* Where the child is with the one request on the stream.
Asked(r) ==
  /\ loop.mode = "reading" /\ handled[r] = 0
  /\ loop.n < FrameSize /\ loop.n + Len(input) <= FrameSize
  /\ loop.n > 0 => loop.req = r
  /\ \A i \in 1 .. Len(input) : input[i] = Piece(r, loop.n + i)
Handling(r) ==
  loop.mode = "handling" /\ loop.req = r /\ input = <<>> /\ handled[r] = 0
Writing(r) ==
  loop.mode = "writing" /\ loop.req = r /\ loop.n < FrameSize /\ input = <<>> /\ handled[r] = 1
Served(r) ==
  loop.mode = "reading" /\ loop.n = 0 /\ input = <<>> /\ handled[r] = 1

\* The child has written m pieces of the response; the thread has read done of them.
Answering(r, m) ==
  /\ done + Len(output) = m
  /\ \A i \in 1 .. Len(output) : output[i] = Piece(r, done + i)

Written(r) ==
  Asked(r) /\ loop.n + Len(input) = done /\ done < FrameSize /\ output = <<>>
Awaited(r) ==
  /\ done < FrameSize
  /\ \/ Asked(r) /\ loop.n + Len(input) = FrameSize /\ Answering(r, 0)
     \/ Handling(r) /\ Answering(r, 0)
     \/ Writing(r) /\ Answering(r, loop.n)
     \/ Served(r) /\ Answering(r, FrameSize)
Given(r) == Asked(r) \/ Handling(r) \/ Writing(r) \/ Served(r)

Quiet == loop.mode = "reading" /\ loop.n = 0 /\ input = <<>> /\ output = <<>>

StreamInv ==
  /\ pid /\ mutex = None => Quiet
  /\ \A t \in Threads : mutex = t =>
       /\ pc[t] = "write" => Written(Mine(t))
       /\ pc[t] = "read" => Awaited(Mine(t))
       /\ pc[t] \in Stopping => Given(Mine(t))

LockInv ==
  /\ mutex # None => pc[mutex] \in Inside /\ pid /\ ~destroyed /\ count[mutex] >= 1
  /\ \A t \in Threads :
       /\ pc[t] \in {"write", "read"} => mutex = t
       /\ pc[t] \in {"kill", "wait"} => pid
       /\ pc[t] = "lock" => count[t] >= 1 /\ ~destroyed
       /\ pc[t] \in Stopping /\ mutex # t =>
            destroyed /\ \A u \in Threads \ {t} : pc[u] = "idle"
  /\ destroyed /\ pid => \E t \in Threads : pc[t] \in Stopping

\* A request that has not got the mutex yet has not been handled.
FreshInv ==
  \A t \in Threads :
    /\ \A n \in 1 .. MaxRequests : n > count[t] => handled[<<t, n>>] = 0
    /\ pc[t] = "lock" => handled[Mine(t)] = 0

Reaped == ~pid => child = "gone"

IInv ==
  TypeOK /\ LockInv /\ StreamInv /\ FreshInv /\ Reaped /\ OwnAnswer /\ HandledOnce

-----------------------------------------------------------------------------
(* Sequences and types *)

LEMMA AppendFacts ==
  ASSUME NEW S, NEW s \in Seq(S), NEW e \in S
  PROVE  /\ Append(s, e) \in Seq(S) /\ Len(Append(s, e)) = Len(s) + 1
         /\ \A i \in 1 .. Len(s) : Append(s, e)[i] = s[i]
         /\ Append(s, e)[Len(s) + 1] = e
OBVIOUS

LEMMA TailFacts ==
  ASSUME NEW S, NEW s \in Seq(S), s # <<>>
  PROVE  /\ Tail(s) \in Seq(S) /\ Len(s) \in Nat /\ Len(s) > 0
         /\ Len(Tail(s)) = Len(s) - 1
         /\ \A i \in 1 .. Len(s) - 1 : Tail(s)[i] = s[i + 1]
         /\ Head(s) = s[1]
OBVIOUS

LEMMA EmptySeq ==
  ASSUME NEW S, NEW s \in Seq(S)
  PROVE  /\ Len(s) \in Nat
         /\ Len(s) = 0 <=> s = <<>>
OBVIOUS

Pieces == Requests \X (1 .. FrameSize)

LEMMA Types ==
  ASSUME TypeOK
  PROVE  /\ input \in Seq(Pieces) /\ output \in Seq(Pieces)
         /\ loop.mode \in {"reading", "handling", "writing"}
         /\ loop.req \in Requests \cup {None} /\ loop.n \in 0 .. FrameSize
         /\ done \in 0 .. FrameSize /\ FrameSize \in Nat \ {0}
         /\ \A t \in Threads : count[t] \in 0 .. MaxRequests
         /\ pid \in BOOLEAN /\ destroyed \in BOOLEAN
BY NativeProcessAssumption DEF TypeOK, Pieces

\* The request a thread is in is one of the model's.
LEMMA MineIsRequest ==
  ASSUME TypeOK, NEW t \in Threads, count[t] >= 1
  PROVE  Mine(t) \in Requests
BY Types, NativeProcessAssumption DEF Mine, Requests

\* Nobody but the mutex's holder, or the destructor's thread, is inside.
LEMMA NobodyElse ==
  ASSUME LockInv, NEW t \in Threads, mutex = t, NEW u \in Threads, u # t
  PROVE  pc[u] \notin Inside
BY NativeProcessAssumption DEF LockInv, Inside, Stopping

\* The stream of a request depends on nothing but the pipes and the child's loop.
LEMMA Unmoved ==
  ASSUME NEW t \in Threads, Mine(t)' = Mine(t),
         UNCHANGED <<done, input, output, loop, handled>>
  PROVE  /\ Written(Mine(t))' <=> Written(Mine(t))
         /\ Awaited(Mine(t))' <=> Awaited(Mine(t))
         /\ Given(Mine(t))' <=> Given(Mine(t))
<1>. DEFINE r == Mine(t)
<1>1. /\ Handling(r)' <=> Handling(r)
      /\ Writing(r)' <=> Writing(r)
      /\ Served(r)' <=> Served(r)
  BY DEF Handling, Writing, Served
<1>2. Asked(r)' <=> Asked(r)
  BY DEF Asked
<1>3. /\ Answering(r, 0)' <=> Answering(r, 0)
      /\ Answering(r, loop.n)' <=> Answering(r, loop.n)
      /\ Answering(r, FrameSize)' <=> Answering(r, FrameSize)
  BY DEF Answering
<1>. QED
  BY <1>1, <1>2, <1>3 DEF Written, Awaited, Given

\* What a reading thread has been sent, by the place of the child.
LEMMA ByPlace ==
  ASSUME NEW r, Awaited(r)
  PROVE  /\ loop.mode = "reading" /\ input # <<>> =>
              loop.n + Len(input) = FrameSize /\ Answering(r, 0)
         /\ loop.mode = "handling" => Answering(r, 0)
         /\ loop.mode = "writing" => Answering(r, loop.n)
<1>1. Asked(r) => loop.mode = "reading"
  BY DEF Asked
<1>. QED
  BY <1>1 DEF Awaited, Handling, Writing, Served

LEMMA InitIInv == Init => IInv
<1>. SUFFICES ASSUME Init PROVE IInv
  OBVIOUS
<1>1. TypeOK
  <2>1. /\ loop \in [mode : {"reading", "handling", "writing"},
                     req : Requests \cup {None}, n : 0 .. FrameSize]
        /\ done \in 0 .. FrameSize
        /\ count \in [Threads -> 0 .. MaxRequests]
    BY NativeProcessAssumption DEF Init, Reading
  <2>2. {input, output} \subseteq Seq(Requests \X (1 .. FrameSize))
    BY DEF Init
  <2>3. handled \in [Requests -> Nat]
    BY DEF Init
  <2>. QED
    BY <2>1, <2>2, <2>3 DEF Init, TypeOK
<1>2. LockInv
  BY DEF Init, LockInv, Stopping
<1>3. StreamInv
  BY NativeProcessAssumption DEF Init, StreamInv, Quiet, Reading
<1>4. FreshInv
  BY DEF Init, FreshInv, Requests
<1>5. Reaped /\ OwnAnswer /\ HandledOnce
  BY DEF Init, Reaped, OwnAnswer, HandledOnce
<1>. QED
  BY <1>1, <1>2, <1>3, <1>4, <1>5 DEF IInv

-----------------------------------------------------------------------------
(* Entering a request *)

LEMMA RequestStep ==
  ASSUME IInv, NEW t \in Threads, Request(t)
  PROVE  IInv'
<1>. USE DEF Request, Goto, childVars
<1>0. TypeOK /\ LockInv /\ StreamInv /\ FreshInv
  BY DEF IInv
<1>1. /\ pc' \in [Threads -> {"idle", "lock", "write", "read", "stop", "kill", "wait"}]
      /\ count' \in [Threads -> 0 .. MaxRequests]
      /\ pc'[t] = "lock" /\ count'[t] = count[t] + 1
      /\ \A u \in Threads \ {t} : pc'[u] = pc[u] /\ count'[u] = count[u]
  BY <1>0, NativeProcessAssumption DEF TypeOK
<1>2. TypeOK'
  BY <1>0, <1>1 DEF TypeOK
<1>3. mutex # t
  BY <1>0, NativeProcessAssumption DEF LockInv, Inside, Stopping
<1>4. LockInv'
  <2>1. \A u \in Threads \ {t} : pc[u] \notin Stopping \/ mutex = u
    BY <1>0 DEF LockInv
  <2>. QED
    BY <1>0, <1>1, <1>3, <2>1, Types DEF LockInv, Inside, Stopping, TypeOK
<1>5. StreamInv'
  <2>1. (pid /\ mutex = None => Quiet)'
    BY <1>0 DEF StreamInv, Quiet
  <2>2. ASSUME NEW u \in Threads, mutex' = u
        PROVE  /\ pc'[u] = "write" => Written(Mine(u))'
               /\ pc'[u] = "read" => Awaited(Mine(u))'
               /\ pc'[u] \in Stopping => Given(Mine(u))'
    <3>1. u # t /\ mutex = u
      BY <1>3, <2>2
    <3>2. pc'[u] = pc[u] /\ Mine(u)' = Mine(u)
      BY <1>1, <3>1 DEF Mine
    <3>3. /\ Written(Mine(u))' <=> Written(Mine(u))
          /\ Awaited(Mine(u))' <=> Awaited(Mine(u))
          /\ Given(Mine(u))' <=> Given(Mine(u))
      BY <3>2, Unmoved
    <3>. QED
      BY <1>0, <3>1, <3>2, <3>3 DEF StreamInv
  <2>. QED
    BY <2>1, <2>2 DEF StreamInv
<1>6. FreshInv'
  <2>1. count[t] \in 0 .. MaxRequests /\ count[t] + 1 \in 1 .. MaxRequests
    BY <1>0, Types, NativeProcessAssumption
  <2>2. handled[<<t, count[t] + 1>>] = 0
    BY <1>0, <2>1 DEF FreshInv
  <2>3. handled'[Mine(t)'] = 0
    BY <1>1, <2>2 DEF Mine
  <2>4. ASSUME NEW u \in Threads, NEW n \in 1 .. MaxRequests, n > count'[u]
        PROVE  handled'[<<u, n>>] = 0
    BY <1>0, <1>1, <2>1, <2>4 DEF FreshInv
  <2>5. ASSUME NEW u \in Threads \ {t}, pc'[u] = "lock"
        PROVE  handled'[Mine(u)'] = 0
    BY <1>0, <1>1, <2>5 DEF FreshInv, Mine
  <2>. QED
    BY <2>3, <2>4, <2>5 DEF FreshInv
<1>7. (Reaped /\ OwnAnswer /\ HandledOnce)'
  BY DEF IInv, Reaped, OwnAnswer, HandledOnce
<1>. QED
  BY <1>2, <1>4, <1>5, <1>6, <1>7 DEF IInv

\* A request refused under the mutex leaves no trace on the stream.
LEMMA RefuseStep ==
  ASSUME IInv, NEW t \in Threads, pc[t] = "lock", mutex = None, Return(t, "failed"),
         UNCHANGED <<count, pid, destroyed, done, input, output, childVars>>
  PROVE  IInv'
<1>. USE DEF Return, Goto, childVars
<1>0. TypeOK /\ LockInv /\ StreamInv /\ FreshInv /\ HandledOnce /\ OwnAnswer
  BY DEF IInv
<1>1. /\ pc' \in [Threads -> {"idle", "lock", "write", "read", "stop", "kill", "wait"}]
      /\ answer' \in [Requests -> {"none", "own", "foreign", "failed"}]
      /\ pc'[t] = "idle"
      /\ \A u \in Threads \ {t} : pc'[u] = pc[u]
      /\ \A r \in Requests : answer'[r] \in {answer[r], "failed"}
  BY <1>0 DEF TypeOK
<1>2. TypeOK'
  BY <1>0, <1>1 DEF TypeOK
<1>4. LockInv'
  <2>1. \A u \in Threads : pc[u] \notin Stopping
    BY <1>0, NativeProcessAssumption DEF LockInv, Stopping
  <2>. QED
    BY <1>0, <1>1, <2>1, NativeProcessAssumption DEF LockInv, Inside, Stopping
<1>5. StreamInv'
  BY <1>0, NativeProcessAssumption DEF StreamInv, Quiet
<1>6. FreshInv'
  BY <1>0, <1>1 DEF FreshInv, Mine
<1>7. (Reaped /\ OwnAnswer /\ HandledOnce)'
  BY <1>0, <1>1 DEF IInv, Reaped, OwnAnswer, HandledOnce
<1>. QED
  BY <1>2, <1>4, <1>5, <1>6, <1>7 DEF IInv

LEMMA LockStep ==
  ASSUME IInv, NEW t \in Threads, Lock(t)
  PROVE  IInv'
<1>1. CASE ~pid
  BY <1>1, RefuseStep DEF Lock
<1>2. CASE pid
  <2>. USE DEF Lock, Goto, childVars
  <2>0. TypeOK /\ LockInv /\ StreamInv /\ FreshInv
    BY DEF IInv
  <2>1. /\ pc' \in [Threads -> {"idle", "lock", "write", "read", "stop", "kill", "wait"}]
        /\ pc'[t] = "write" /\ mutex' = t /\ done' = 0 /\ mutex = None
        /\ \A u \in Threads \ {t} : pc'[u] = pc[u]
        /\ UNCHANGED <<count, pid, destroyed, input, output, loop, handled, answer, child>>
    BY <1>2, <2>0 DEF TypeOK
  <2>2. TypeOK'
    BY <1>2, <2>0, <2>1, NativeProcessAssumption DEF TypeOK
  <2>3. \A u \in Threads : pc[u] \notin Inside
    BY <2>0, <2>1, NativeProcessAssumption DEF LockInv, Inside, Stopping
  <2>4. LockInv'
    BY <1>2, <2>0, <2>1, <2>3 DEF LockInv, Inside, Stopping
  <2>5. StreamInv'
    <3>1. Quiet /\ handled[Mine(t)] = 0 /\ Mine(t)' = Mine(t)
      BY <1>2, <2>0, <2>1 DEF StreamInv, FreshInv, Mine
    <3>2. Written(Mine(t))'
      BY <2>1, <3>1, NativeProcessAssumption DEF Written, Asked, Quiet
    <3>. QED
      BY <2>1, <3>2, NativeProcessAssumption DEF StreamInv, Stopping
  <2>6. FreshInv'
    BY <2>0, <2>1 DEF FreshInv, Mine
  <2>7. (Reaped /\ OwnAnswer /\ HandledOnce)'
    BY <2>1 DEF IInv, Reaped, OwnAnswer, HandledOnce
  <2>. QED
    BY <2>2, <2>4, <2>5, <2>6, <2>7 DEF IInv
<1>. QED
  BY <1>1, <1>2

-----------------------------------------------------------------------------
(* Exchanging frames with the mutex held *)

\* What the holder of the mutex knows.
LEMMA Holder ==
  ASSUME IInv, NEW t \in Threads, mutex = t \/ pc[t] \in {"write", "read"}
  PROVE  /\ mutex = t /\ pid /\ ~destroyed /\ count[t] >= 1 /\ mutex # None
         /\ Mine(t) \in Requests /\ pc[t] \in Inside
         /\ \A u \in Threads \ {t} : pc[u] \notin Inside
<1>1. TypeOK /\ LockInv
  BY DEF IInv
<1>2. mutex = t /\ mutex # None
  BY <1>1, NativeProcessAssumption DEF LockInv
<1>. QED
  BY <1>1, <1>2, NobodyElse, MineIsRequest DEF LockInv

LEMMA WriteStep ==
  ASSUME IInv, NEW t \in Threads, Write(t)
  PROVE  IInv'
<1>. USE DEF Goto, childVars
<1>. DEFINE r == Mine(t)
<1>0. TypeOK /\ LockInv /\ StreamInv /\ FreshInv
  BY DEF IInv
<1>1. /\ mutex = t /\ pid /\ ~destroyed /\ count[t] >= 1 /\ r \in Requests
      /\ \A u \in Threads \ {t} : pc[u] \notin Inside
  BY Holder DEF Write
<1>2. Written(r)
  BY <1>0, <1>1 DEF StreamInv, Write
<1>3. /\ pc' \in [Threads -> {"idle", "lock", "write", "read", "stop", "kill", "wait"}]
      /\ \A u \in Threads \ {t} : pc'[u] = pc[u]
      /\ UNCHANGED <<count, mutex, pid, destroyed, output, child, killed, loop, handled,
                     answer>>
      /\ input' = Append(input, Piece(r, done + 1))
      /\ \/ done + 1 = FrameSize /\ done' = 0 /\ pc'[t] = "read"
         \/ done + 1 # FrameSize /\ done' = done + 1 /\ pc'[t] = "write"
  BY <1>0 DEF TypeOK, Write
<1>4. Piece(r, done + 1) \in Pieces
  BY <1>0, <1>1, <1>2, Types DEF Piece, Pieces, Written
<1>5. /\ input' \in Seq(Pieces) /\ Len(input') = Len(input) + 1 /\ Len(input) \in Nat
      /\ \A i \in 1 .. Len(input) : input'[i] = input[i]
      /\ input'[Len(input) + 1] = Piece(r, done + 1)
  <2>1. input \in Seq(Pieces)
    BY <1>0, Types
  <2>. HIDE DEF r
  <2>. QED
    BY <1>3, <1>4, <2>1, AppendFacts, EmptySeq
<1>6. TypeOK'
  <2>1. done' \in 0 .. FrameSize
    BY <1>0, <1>2, <1>3, Types DEF Written
  <2>. QED
    BY <1>0, <1>3, <1>5, <2>1 DEF TypeOK, Pieces
<1>7. LockInv'
  BY <1>0, <1>1, <1>3, NativeProcessAssumption DEF LockInv, Inside, Stopping
<1>8. StreamInv'
  <2>1. r' = r
    BY <1>3 DEF Mine
  <2>2. /\ loop.n \in Nat /\ loop.n + Len(input) = done /\ done < FrameSize
        /\ done \in Nat /\ FrameSize \in Nat
    BY <1>0, <1>2, Types DEF Written
  <2>3. \A i \in 1 .. Len(input') : input'[i] = Piece(r, loop.n + i)
    <3>1. \A i \in 1 .. Len(input) : input[i] = Piece(r, loop.n + i)
      BY <1>2 DEF Written, Asked
    <3>2. ASSUME NEW i \in 1 .. Len(input') PROVE input'[i] = Piece(r, loop.n + i)
      <4>1. CASE i \in 1 .. Len(input)
        BY <1>5, <3>1, <4>1
      <4>2. CASE i = Len(input) + 1
        <5>1. loop.n + i = done + 1
          BY <1>5, <2>2, <4>2
        <5>. QED
          BY <1>5, <4>2, <5>1
      <4>. QED
        BY <1>5, <4>1, <4>2
    <3>. QED
      BY <3>2
  <2>4. Asked(r)'
    <3>. HIDE DEF r
    <3>. QED
      BY <1>2, <1>3, <1>5, <2>1, <2>2, <2>3 DEF Asked, Written
  <2>5. CASE pc'[t] = "write"
    <3>1. Written(r)'
      <4>1. done' = done + 1 /\ done + 1 # FrameSize
        BY <1>3, <2>5
      <4>2. loop' = loop
        BY <1>3
      <4>3. Len(input') = Len(input) + 1 /\ Len(input) \in Nat
        BY <1>5
      <4>4. loop'.n + Len(input') = done' /\ done' < FrameSize
        BY <2>2, <4>1, <4>2, <4>3
      <4>5. output' = <<>>
        BY <1>2, <1>3 DEF Written
      <4>. QED
        BY <2>4, <4>4, <4>5 DEF Written
    <3>. QED
      BY <1>1, <1>3, <2>5, <3>1, NativeProcessAssumption DEF StreamInv, Stopping
  <2>6. CASE pc'[t] = "read"
    <3>1. Answering(r, 0)'
      <4>1. output' = <<>> /\ done' = 0 /\ Len(output') = 0
        BY <1>2, <1>3, <2>6 DEF Written
      <4>. QED
        BY <4>1 DEF Answering
    <3>2. Awaited(r)'
      <4>. HIDE DEF r
      <4>. QED
        BY <1>2, <1>3, <1>5, <2>1, <2>2, <2>4, <2>6, <3>1 DEF Awaited
    <3>. QED
      BY <1>1, <1>3, <2>6, <3>2, NativeProcessAssumption DEF StreamInv, Stopping
  <2>. QED
    BY <1>3, <2>5, <2>6
<1>9. FreshInv'
  BY <1>0, <1>3 DEF FreshInv, Mine
<1>10. (Reaped /\ OwnAnswer /\ HandledOnce)'
  BY <1>3 DEF IInv, Reaped, OwnAnswer, HandledOnce
<1>. QED
  BY <1>6, <1>7, <1>8, <1>9, <1>10 DEF IInv

LEMMA GiveUpStep ==
  ASSUME IInv, NEW t \in Threads, GiveUp(t)
  PROVE  IInv'
<1>. USE DEF Goto, childVars
<1>0. TypeOK /\ LockInv /\ StreamInv /\ FreshInv
  BY DEF IInv
<1>1. /\ mutex = t /\ pid /\ ~destroyed /\ count[t] >= 1
      /\ \A u \in Threads \ {t} : pc[u] \notin Inside
  BY Holder DEF GiveUp
<1>2. Given(Mine(t))
  BY <1>0, <1>1 DEF StreamInv, GiveUp, Given, Written, Awaited
<1>3. /\ pc' \in [Threads -> {"idle", "lock", "write", "read", "stop", "kill", "wait"}]
      /\ pc'[t] = "stop"
      /\ \A u \in Threads \ {t} : pc'[u] = pc[u]
      /\ UNCHANGED <<count, mutex, pid, destroyed, done, input, output, child, killed,
                     loop, handled, answer>>
  BY <1>0 DEF TypeOK, GiveUp
<1>4. TypeOK'
  BY <1>0, <1>3 DEF TypeOK
<1>5. LockInv'
  BY <1>0, <1>1, <1>3, NativeProcessAssumption DEF LockInv, Inside, Stopping
<1>6. StreamInv'
  <2>1. Given(Mine(t))'
    BY <1>2, <1>3 DEF Given, Asked, Handling, Writing, Served, Mine
  <2>. QED
    BY <1>1, <1>3, <2>1, NativeProcessAssumption DEF StreamInv, Stopping
<1>7. FreshInv'
  BY <1>0, <1>3 DEF FreshInv, Mine
<1>8. (Reaped /\ OwnAnswer /\ HandledOnce)'
  BY <1>3 DEF IInv, Reaped, OwnAnswer, HandledOnce
<1>. QED
  BY <1>4, <1>5, <1>6, <1>7, <1>8 DEF IInv

\* A piece can be read only once the child is answering, and it is the next one.
LEMMA NextPiece ==
  ASSUME TypeOK, NEW r, Awaited(r), output # <<>>
  PROVE  /\ \/ Writing(r) /\ Answering(r, loop.n) /\ done + 1 < FrameSize
            \/ Served(r) /\ Answering(r, FrameSize)
         /\ Head(output) = Piece(r, done + 1)
         /\ Tail(output) \in Seq(Pieces) /\ Len(output) \in Nat /\ Len(output) > 0
         /\ Len(Tail(output)) = Len(output) - 1
         /\ \A i \in 1 .. Len(output) - 1 : Tail(output)[i] = output[i + 1]
<1>1. /\ output \in Seq(Pieces) /\ done \in Nat /\ loop.n \in Nat /\ FrameSize \in Nat
  BY Types
<1>2. /\ Tail(output) \in Seq(Pieces) /\ Len(output) \in Nat /\ Len(output) > 0
      /\ Len(Tail(output)) = Len(output) - 1
      /\ \A i \in 1 .. Len(output) - 1 : Tail(output)[i] = output[i + 1]
      /\ Head(output) = output[1]
  BY <1>1, TailFacts
<1>3. ~Answering(r, 0)
  BY <1>1, <1>2 DEF Answering
<1>4. Answering(r, loop.n) /\ loop.n < FrameSize => done + 1 < FrameSize
  BY <1>1, <1>2 DEF Answering
<1>5. \/ Writing(r) /\ Answering(r, loop.n) /\ done + 1 < FrameSize
      \/ Served(r) /\ Answering(r, FrameSize)
  BY <1>3, <1>4 DEF Awaited, Writing
<1>6. Head(output) = Piece(r, done + 1)
  <2>1. output[1] = Piece(r, done + 1)
    BY <1>1, <1>2, <1>5 DEF Answering
  <2>. QED
    BY <1>2, <2>1
<1>. QED
  BY <1>2, <1>5, <1>6

LEMMA ReadMore ==
  ASSUME IInv, NEW t \in Threads, Read(t), done + 1 # FrameSize
  PROVE  IInv'
<1>. USE DEF childVars
<1>. DEFINE r == Mine(t)
<1>0. TypeOK /\ LockInv /\ StreamInv /\ FreshInv
  BY DEF IInv
<1>1. mutex = t
  BY Holder DEF Read
<1>2. Awaited(r) /\ output # <<>>
  BY <1>0, <1>1 DEF StreamInv, Read
<1>3. /\ UNCHANGED <<pc, count, mutex, pid, destroyed, input, child, killed, loop,
                     handled, answer>>
      /\ output' = Tail(output) /\ done' = done + 1 /\ pc[t] = "read"
  BY DEF Read
<1>4. /\ done \in 0 .. FrameSize /\ FrameSize \in Nat /\ done < FrameSize
  BY <1>0, <1>2, Types DEF Awaited
<1>5. TypeOK'
  <2>1. output' \in Seq(Pieces)
    BY <1>0, <1>2, <1>3, NextPiece
  <2>. QED
    BY <1>0, <1>3, <1>4, <2>1 DEF TypeOK, Pieces
<1>6. LockInv'
  BY <1>0, <1>3 DEF LockInv
<1>7. StreamInv'
  <2>1. ASSUME NEW m, Answering(r, m) PROVE Answering(r, m)'
    <3>1. /\ Len(output') = Len(output) - 1 /\ Len(output) \in Nat /\ Len(output) > 0
          /\ \A i \in 1 .. Len(output) - 1 : output'[i] = output[i + 1]
      BY <1>0, <1>2, <1>3, NextPiece
    <3>2. done' + Len(output') = m
      <4>1. done + Len(output) = m /\ done' = done + 1
        BY <1>3, <2>1 DEF Answering
      <4>. QED
        BY <1>4, <3>1, <4>1
    <3>3. ASSUME NEW i \in 1 .. Len(output') PROVE output'[i] = Piece(r, done' + i)
      <4>1. i \in 1 .. Len(output) - 1 /\ i + 1 \in 1 .. Len(output)
        BY <3>1
      <4>2. output'[i] = Piece(r, done + (i + 1))
        BY <2>1, <3>1, <4>1 DEF Answering
      <4>3. done + (i + 1) = done' + i
        BY <1>3, <1>4, <4>1
      <4>. QED
        BY <4>2, <4>3
    <3>4. r' = r
      BY <1>3 DEF Mine
    <3>. QED
      BY <3>2, <3>3, <3>4 DEF Answering
  <2>2. r' = r
    BY <1>3 DEF Mine
  <2>3. Awaited(r)'
    <3>1. done' < FrameSize
      BY <1>3, <1>4
    <3>2. CASE Writing(r) /\ Answering(r, loop.n)
      <4>1. Writing(r)'
        BY <1>3, <2>2, <3>2 DEF Writing
      <4>2. Answering(r, loop.n)'
        BY <1>3, <2>1, <3>2
      <4>. QED
        BY <3>1, <4>1, <4>2 DEF Awaited
    <3>3. CASE Served(r) /\ Answering(r, FrameSize)
      <4>1. Served(r)'
        BY <1>3, <2>2, <3>3 DEF Served
      <4>2. Answering(r, FrameSize)'
        BY <2>1, <3>3
      <4>. QED
        BY <3>1, <4>1, <4>2 DEF Awaited
    <3>. QED
      BY <1>0, <1>2, <3>2, <3>3, NextPiece
  <2>. QED
    BY <1>1, <1>3, <2>3, NativeProcessAssumption DEF StreamInv, Stopping
<1>8. FreshInv'
  BY <1>0, <1>3 DEF FreshInv, Mine
<1>9. (Reaped /\ OwnAnswer /\ HandledOnce)'
  BY <1>3 DEF IInv, Reaped, OwnAnswer, HandledOnce
<1>. QED
  BY <1>5, <1>6, <1>7, <1>8, <1>9 DEF IInv

\* The last piece: the response is the request's own and the stream is quiet again.
LEMMA ReadLast ==
  ASSUME IInv, NEW t \in Threads, Read(t), done + 1 = FrameSize
  PROVE  IInv'
<1>. USE DEF childVars
<1>. DEFINE r == Mine(t)
<1>0. TypeOK /\ LockInv /\ StreamInv /\ FreshInv /\ OwnAnswer /\ HandledOnce
  BY DEF IInv
<1>1. /\ mutex = t /\ pid /\ ~destroyed /\ r \in Requests
      /\ \A u \in Threads \ {t} : pc[u] \notin Inside
  BY Holder DEF Read
<1>2. Awaited(r) /\ output # <<>>
  BY <1>0, <1>1 DEF StreamInv, Read
<1>3. /\ done \in Nat /\ FrameSize \in Nat
  BY <1>0, Types
<1>4. Served(r) /\ Answering(r, FrameSize) /\ Head(output) = Piece(r, FrameSize)
  <2>1. Head(output) = Piece(r, done + 1)
    BY <1>0, <1>2, NextPiece
  <2>2. Served(r) /\ Answering(r, FrameSize)
    BY <1>0, <1>2, <1>3, NextPiece
  <2>. QED
    BY <2>1, <2>2
<1>5. output' = <<>>
  <2>1. output' = Tail(output)
    BY DEF Read
  <2>2. /\ output' \in Seq(Pieces) /\ Len(output) \in Nat
        /\ Len(output') = Len(output) - 1
    BY <1>0, <1>2, <2>1, NextPiece
  <2>3. Len(output) = 1
    BY <1>3, <1>4, <2>2 DEF Answering
  <2>. QED
    BY <2>2, <2>3, EmptySeq
<1>6. /\ pc' = [pc EXCEPT ![t] = "idle"] /\ mutex' = None /\ done' = 0
      /\ answer' = [answer EXCEPT ![r] = "own"]
      /\ UNCHANGED <<count, pid, destroyed, input, child, killed, loop, handled>>
  BY <1>4 DEF Read, Return, Goto
<1>7. /\ pc' \in [Threads -> {"idle", "lock", "write", "read", "stop", "kill", "wait"}]
      /\ pc'[t] = "idle" /\ \A u \in Threads \ {t} : pc'[u] = pc[u]
  BY <1>0, <1>6 DEF TypeOK
<1>8. /\ answer' \in [Requests -> {"none", "own", "foreign", "failed"}]
      /\ answer'[r] = "own" /\ \A q \in Requests \ {r} : answer'[q] = answer[q]
  <2>. HIDE DEF r
  <2>. QED
    BY <1>0, <1>1, <1>6 DEF TypeOK
<1>9. TypeOK'
  BY <1>0, <1>3, <1>5, <1>6, <1>7, <1>8 DEF TypeOK
<1>10. LockInv'
  BY <1>0, <1>1, <1>6, <1>7, NativeProcessAssumption DEF LockInv, Inside, Stopping
<1>11. StreamInv'
  BY <1>4, <1>5, <1>6, NativeProcessAssumption DEF StreamInv, Quiet, Served
<1>12. FreshInv'
  BY <1>0, <1>6, <1>7 DEF FreshInv, Mine
<1>13. (Reaped /\ OwnAnswer)'
  BY <1>0, <1>6, <1>8 DEF IInv, Reaped, OwnAnswer
<1>14. HandledOnce'
  BY <1>0, <1>4, <1>6, <1>8 DEF HandledOnce, Served
<1>. QED
  BY <1>9, <1>10, <1>11, <1>12, <1>13, <1>14 DEF IInv

-----------------------------------------------------------------------------
(* Stopping the child *)

LEMMA DestroyStep ==
  ASSUME IInv, NEW t \in Threads, Destroy(t)
  PROVE  IInv'
<1>. USE DEF Goto, childVars
<1>0. TypeOK /\ LockInv /\ StreamInv /\ FreshInv
  BY DEF IInv
<1>1. /\ pc' \in [Threads -> {"idle", "lock", "write", "read", "stop", "kill", "wait"}]
      /\ pc'[t] = "stop" /\ destroyed' = TRUE
      /\ \A u \in Threads : pc[u] = "idle"
      /\ \A u \in Threads \ {t} : pc'[u] = "idle"
      /\ UNCHANGED <<count, mutex, pid, done, input, output, child, killed, loop, handled,
                     answer>>
  BY <1>0 DEF TypeOK, Destroy
<1>2. mutex = None
  BY <1>0, <1>1 DEF LockInv, Inside, Stopping, TypeOK
<1>3. TypeOK'
  BY <1>0, <1>1 DEF TypeOK
<1>4. LockInv'
  BY <1>0, <1>1, <1>2, NativeProcessAssumption DEF LockInv, Stopping
<1>5. StreamInv'
  BY <1>0, <1>1, <1>2, NativeProcessAssumption DEF StreamInv, Quiet
<1>6. FreshInv'
  BY <1>0, <1>1 DEF FreshInv, Mine
<1>7. (Reaped /\ OwnAnswer /\ HandledOnce)'
  BY <1>1 DEF IInv, Reaped, OwnAnswer, HandledOnce
<1>. QED
  BY <1>3, <1>4, <1>5, <1>6, <1>7 DEF IInv

\* Either the mutex's holder is stopping the child, or the destructor is, alone.
LEMMA WhoStops ==
  ASSUME IInv, NEW t \in Threads, pc[t] \in Stopping
  PROVE  /\ mutex \in {t, None}
         /\ \A u \in Threads \ {t} : pc[u] \notin Inside
         /\ mutex = None => destroyed /\ \A u \in Threads \ {t} : pc[u] = "idle"
         /\ mutex = t => Mine(t) \in Requests /\ Given(Mine(t))
<1>0. TypeOK /\ LockInv /\ StreamInv
  BY DEF IInv
<1>1. CASE mutex = t
  BY <1>0, <1>1, Holder, NativeProcessAssumption DEF StreamInv
<1>2. CASE mutex # t
  BY <1>0, <1>2, NativeProcessAssumption DEF LockInv, Inside, Stopping
<1>. QED
  BY <1>1, <1>2

\* Closing the pipe from the child keeps the pipes' types.
LEMMA ClosedPipe ==
  ASSUME TypeOK, input' = input, output' \in {output, <<>>}
  PROVE  {input', output'} \subseteq Seq(Requests \X (1 .. FrameSize))
<1>1. input \in Seq(Pieces) /\ output \in Seq(Pieces) /\ <<>> \in Seq(Pieces)
  BY Types
<1>2. output' \in Seq(Pieces)
  BY <1>1, Zenon
<1>. QED
  BY <1>1, <1>2 DEF Pieces

\* One more step of stop(), the child still not waited for.
LEMMA StoppingStep ==
  ASSUME IInv, NEW t \in Threads, pc[t] \in Stopping, pid,
         NEW l \in {"kill", "wait"}, Goto(t, l),
         output' \in {output, <<>>}, killed' \in BOOLEAN,
         UNCHANGED <<count, mutex, pid, destroyed, done, input, child, loop, handled,
                     answer>>
  PROVE  IInv'
<1>0. TypeOK /\ LockInv /\ StreamInv /\ FreshInv
  BY DEF IInv
<1>1. /\ pc' \in [Threads -> {"idle", "lock", "write", "read", "stop", "kill", "wait"}]
      /\ pc'[t] = l /\ \A u \in Threads \ {t} : pc'[u] = pc[u]
  BY <1>0 DEF TypeOK, Goto
<1>2. /\ mutex \in {t, None}
      /\ \A u \in Threads \ {t} : pc[u] \notin Inside
      /\ mutex = None => destroyed /\ \A u \in Threads \ {t} : pc[u] = "idle"
      /\ mutex = t => Given(Mine(t))
  BY WhoStops
<1>3. TypeOK'
  <2>1. {input', output'} \subseteq Seq(Requests \X (1 .. FrameSize))
    BY <1>0, ClosedPipe
  <2>. QED
    BY <1>0, <1>1, <2>1 DEF TypeOK
<1>4. LockInv'
  BY <1>0, <1>1, <1>2, NativeProcessAssumption DEF LockInv, Inside, Stopping
<1>5. StreamInv'
  <2>1. mutex = t => Given(Mine(t))'
    BY <1>2 DEF Given, Asked, Handling, Writing, Served, Mine
  <2>2. (pid /\ mutex = None => Quiet)'
    BY <1>0 DEF StreamInv, Quiet
  <2>3. ASSUME NEW u \in Threads, mutex' = u
        PROVE  pc'[u] \notin {"write", "read"} /\ Given(Mine(u))'
    BY <1>1, <1>2, <2>1, <2>3, NativeProcessAssumption
  <2>. QED
    BY <2>2, <2>3 DEF StreamInv
<1>6. FreshInv'
  BY <1>0, <1>1 DEF FreshInv, Mine
<1>7. (Reaped /\ OwnAnswer /\ HandledOnce)'
  BY DEF IInv, Reaped, OwnAnswer, HandledOnce
<1>. QED
  BY <1>3, <1>4, <1>5, <1>6, <1>7 DEF IInv

\* The end of stop(): the child is gone, and nobody uses the streams again.
LEMMA StoppedStep ==
  ASSUME IInv, NEW t \in Threads, pc[t] \in Stopping, Stopped(t), child' = "gone",
         output' \in {output, <<>>},
         UNCHANGED <<count, destroyed, done, input, killed, loop, handled>>
  PROVE  IInv'
<1>0. TypeOK /\ LockInv /\ FreshInv /\ OwnAnswer /\ HandledOnce
  BY DEF IInv
<1>1. /\ pc' \in [Threads -> {"idle", "lock", "write", "read", "stop", "kill", "wait"}]
      /\ pc'[t] = "idle" /\ \A u \in Threads \ {t} : pc'[u] = pc[u]
  BY <1>0 DEF TypeOK, Stopped, Goto
<1>2. /\ mutex \in {t, None}
      /\ \A u \in Threads \ {t} : pc[u] \notin Inside
  BY WhoStops
<1>3. mutex' = None /\ pid' = FALSE
  BY <1>2 DEF Stopped
<1>4. /\ answer' \in [Requests -> {"none", "own", "foreign", "failed"}]
      /\ \A r \in Requests : answer'[r] \in {answer[r], "failed"}
  BY <1>0 DEF Stopped, TypeOK
<1>5. TypeOK'
  <2>1. {input', output'} \subseteq Seq(Requests \X (1 .. FrameSize))
    BY <1>0, ClosedPipe
  <2>2. mutex' \in Threads \cup {None} /\ {pid', destroyed', killed'} \subseteq BOOLEAN
    BY <1>0, <1>3 DEF TypeOK
  <2>. QED
    BY <1>0, <1>1, <1>4, <2>1, <2>2 DEF TypeOK
<1>6. LockInv'
  BY <1>0, <1>1, <1>2, <1>3, NativeProcessAssumption DEF LockInv, Inside, Stopping
<1>7. StreamInv'
  BY <1>3, NativeProcessAssumption DEF StreamInv
<1>8. FreshInv'
  BY <1>0, <1>1 DEF FreshInv, Mine
<1>9. (Reaped /\ OwnAnswer /\ HandledOnce)'
  BY <1>0, <1>4 DEF Reaped, OwnAnswer, HandledOnce
<1>. QED
  BY <1>5, <1>6, <1>7, <1>8, <1>9 DEF IInv

LEMMA StopSteps ==
  ASSUME IInv, NEW t \in Threads, Poll(t) \/ Kill(t) \/ Wait(t)
  PROVE  IInv'
<1>. USE DEF Stopping
<1>1. CASE Poll(t) /\ pid /\ child = "running"
  BY <1>1, StoppingStep DEF Poll, IInv, TypeOK
<1>2. CASE Poll(t) /\ ~(pid /\ child = "running")
  <2>1. child' = "gone"
    BY <1>2 DEF Poll, IInv, Reaped
  <2>. QED
    BY <1>2, <2>1, StoppedStep DEF Poll
<1>3. CASE Kill(t)
  <2>1. pid
    BY <1>3 DEF Kill, IInv, LockInv
  <2>. QED
    BY <1>3, <2>1, StoppingStep DEF Kill
<1>4. CASE Wait(t)
  BY <1>4, StoppedStep DEF Wait
<1>. QED
  BY <1>1, <1>2, <1>3, <1>4

-----------------------------------------------------------------------------
(* The child *)

\* A child that is at work works for the holder of the mutex.
LEMMA WorksFor ==
  ASSUME IInv, child = "running", loop.mode # "reading" \/ input # <<>>
  PROVE  \E t \in Threads :
           /\ mutex = t /\ Given(Mine(t)) /\ Mine(t) \in Requests /\ pc[t] \in Inside
           /\ pc[t] = "write" => Written(Mine(t))
           /\ pc[t] = "read" => Awaited(Mine(t))
<1>0. TypeOK /\ LockInv /\ StreamInv
  BY DEF IInv
<1>1. pid
  BY DEF IInv, Reaped
<1>2. mutex \in Threads
  BY <1>0, <1>1 DEF StreamInv, Quiet, TypeOK
<1>3. PICK t \in Threads : mutex = t
  BY <1>2
<1>4. Mine(t) \in Requests /\ pc[t] \in Inside
  BY <1>3, Holder
<1>5. /\ pc[t] = "write" => Written(Mine(t))
      /\ pc[t] = "read" => Awaited(Mine(t))
      /\ pc[t] \in Stopping => Given(Mine(t))
  BY <1>0, <1>3 DEF StreamInv
<1>6. Given(Mine(t))
  BY <1>4, <1>5 DEF Inside, Given, Written, Awaited
<1>. QED
  BY <1>3, <1>4, <1>5, <1>6

LEMMA ChildReadStep ==
  ASSUME IInv, ChildRead
  PROVE  IInv'
<1>0. TypeOK /\ LockInv /\ StreamInv /\ FreshInv
  BY DEF IInv
<1>1. PICK t \in Threads :
        /\ mutex = t /\ Given(Mine(t)) /\ Mine(t) \in Requests /\ pc[t] \in Inside
        /\ pc[t] = "write" => Written(Mine(t))
        /\ pc[t] = "read" => Awaited(Mine(t))
  BY WorksFor DEF ChildRead
<1>. DEFINE r == Mine(t)
<1>2. Asked(r)
  BY <1>1 DEF ChildRead, Given, Handling, Writing, Served
<1>3. /\ UNCHANGED <<pc, count, mutex, pid, destroyed, done, output, child, killed, handled,
                     answer>>
      /\ input # <<>> /\ input' = Tail(input) /\ r' = r
  BY DEF ChildRead, Mine
<1>4. /\ input' \in Seq(Pieces) /\ Len(input) \in Nat /\ Len(input) > 0
      /\ Len(input') = Len(input) - 1
      /\ \A i \in 1 .. Len(input) - 1 : input'[i] = input[i + 1]
      /\ Head(input) = input[1]
  <2>1. input \in Seq(Pieces)
    BY <1>0, Types
  <2>. QED
    BY <1>3, <2>1, TailFacts
<1>5. /\ loop.n \in Nat /\ FrameSize \in Nat /\ done \in Nat
      /\ loop.n < FrameSize /\ loop.n + Len(input) <= FrameSize
  BY <1>0, <1>2, Types DEF Asked
<1>6. (IF loop.n = 0 THEN Head(input)[1] ELSE loop.req) = r
  <2>1. CASE loop.n = 0
    <3>1. input[1] = Piece(r, loop.n + 1)
      BY <1>2, <1>4 DEF Asked
    <3>. QED
      BY <1>4, <2>1, <3>1 DEF Piece
  <2>2. CASE loop.n # 0
    BY <1>2, <1>5, <2>2 DEF Asked
  <2>. QED
    BY <2>1, <2>2
<1>7. /\ loop' = [mode |-> IF loop.n + 1 = FrameSize THEN "handling" ELSE "reading",
                  req |-> r, n |-> loop.n + 1]
  <2>. HIDE DEF r
  <2>. QED
    BY <1>6 DEF ChildRead
<1>8. /\ loop'.req = r /\ loop'.n = loop.n + 1
      /\ loop'.mode = IF loop.n + 1 = FrameSize THEN "handling" ELSE "reading"
  BY <1>7
<1>9. TypeOK'
  <2>1. loop' \in [mode : {"reading", "handling", "writing"},
                   req : Requests \cup {None}, n : 0 .. FrameSize]
    BY <1>1, <1>5, <1>7
  <2>. QED
    BY <1>0, <1>3, <1>4, <2>1 DEF TypeOK, Pieces
<1>10. LockInv'
  BY <1>0, <1>3 DEF LockInv
<1>11. CASE loop.n + 1 = FrameSize
  <2>1. Len(input) = 1
    BY <1>4, <1>5, <1>11
  <2>2. input' = <<>>
    BY <1>4, <2>1, EmptySeq
  <2>3. Handling(r)'
    BY <1>2, <1>3, <1>8, <1>11, <2>2 DEF Handling, Asked
  <2>4. pc[t] # "write"
    BY <1>1, <1>5, <1>11, <2>1 DEF Written
  <2>5. pc[t] = "read" => Awaited(r)'
    <3>. SUFFICES ASSUME pc[t] = "read" PROVE Awaited(r)'
      OBVIOUS
    <3>1. done < FrameSize /\ Answering(r, 0)
      <4>1. loop.mode = "reading"
        BY <1>2 DEF Asked
      <4>. QED
        BY <1>1, <1>3, <4>1, ByPlace DEF Awaited
    <3>2. Answering(r, 0)'
      BY <1>3, <3>1 DEF Answering
    <3>. QED
      BY <1>3, <2>3, <3>1, <3>2 DEF Awaited
  <2>6. StreamInv'
    BY <1>1, <1>3, <2>3, <2>4, <2>5, NativeProcessAssumption DEF StreamInv, Given
  <2>. QED
    BY <1>0, <1>3, <1>9, <1>10, <2>6
       DEF IInv, FreshInv, Mine, Reaped, OwnAnswer, HandledOnce
<1>12. CASE loop.n + 1 # FrameSize
  <2>1. Asked(r)'
    <3>1. /\ loop'.mode = "reading" /\ handled'[r] = 0 /\ loop'.n < FrameSize
          /\ loop'.n + Len(input') <= FrameSize /\ loop'.req = r
      <4>1. Len(input') = Len(input) - 1 /\ Len(input) \in Nat
        BY <1>4
      <4>2. handled'[r] = 0
        BY <1>2, <1>3 DEF Asked
      <4>. HIDE DEF r
      <4>. QED
        BY <1>5, <1>8, <1>12, <4>1, <4>2
    <3>2. ASSUME NEW i \in 1 .. Len(input') PROVE input'[i] = Piece(r, loop'.n + i)
      <4>1. i \in 1 .. Len(input) - 1 /\ i + 1 \in 1 .. Len(input)
        BY <1>4
      <4>2. input'[i] = Piece(r, loop.n + (i + 1))
        BY <1>2, <1>4, <4>1 DEF Asked
      <4>3. loop.n + (i + 1) = loop'.n + i
        BY <1>5, <1>8, <4>1
      <4>. QED
        BY <4>2, <4>3
    <3>. QED
      BY <1>3, <3>1, <3>2 DEF Asked
  <2>2. loop'.n + Len(input') = loop.n + Len(input)
    BY <1>4, <1>5, <1>8
  <2>3. pc[t] = "write" => Written(r)'
    BY <1>1, <1>3, <2>1, <2>2 DEF Written
  <2>4. pc[t] = "read" => Awaited(r)'
    <3>. SUFFICES ASSUME pc[t] = "read" PROVE Awaited(r)'
      OBVIOUS
    <3>1. /\ done < FrameSize /\ Answering(r, 0)
          /\ loop.n + Len(input) = FrameSize
      <4>1. loop.mode = "reading"
        BY <1>2 DEF Asked
      <4>. QED
        BY <1>1, <1>3, <4>1, ByPlace DEF Awaited
    <3>2. Answering(r, 0)'
      BY <1>3, <3>1 DEF Answering
    <3>. QED
      BY <1>3, <2>1, <2>2, <3>1, <3>2 DEF Awaited
  <2>5. StreamInv'
    BY <1>1, <1>3, <2>1, <2>3, <2>4, NativeProcessAssumption DEF StreamInv, Given
  <2>. QED
    BY <1>0, <1>3, <1>9, <1>10, <2>5
       DEF IInv, FreshInv, Mine, Reaped, OwnAnswer, HandledOnce
<1>. QED
  BY <1>11, <1>12

LEMMA ChildHandleStep ==
  ASSUME IInv, ChildHandle
  PROVE  IInv'
<1>0. TypeOK /\ LockInv /\ FreshInv /\ OwnAnswer /\ HandledOnce
  BY DEF IInv
<1>1. PICK t \in Threads :
        /\ mutex = t /\ Given(Mine(t)) /\ Mine(t) \in Requests /\ pc[t] \in Inside
        /\ pc[t] = "write" => Written(Mine(t))
        /\ pc[t] = "read" => Awaited(Mine(t))
  BY WorksFor DEF ChildHandle
<1>. DEFINE r == Mine(t)
<1>2. Handling(r)
  BY <1>1 DEF ChildHandle, Given, Asked, Handling, Writing, Served
<1>3. /\ UNCHANGED <<pc, count, mutex, pid, destroyed, done, input, output, child, killed,
                     answer>>
      /\ r' = r
  BY DEF ChildHandle, Mine
<1>4. loop' = [mode |-> "writing", req |-> r, n |-> 0]
  BY <1>2 DEF ChildHandle, Handling
<1>5. /\ handled' \in [Requests -> Nat] /\ handled'[r] = 1
      /\ \A q \in Requests \ {r} : handled'[q] = handled[q]
  <2>1. handled' = [handled EXCEPT ![r] = @ + 1]
    BY <1>2 DEF ChildHandle, Handling
  <2>2. handled[r] = 0 /\ r \in Requests
    BY <1>1, <1>2 DEF Handling
  <2>. HIDE DEF r
  <2>. QED
    BY <1>0, <2>1, <2>2 DEF TypeOK
<1>6. TypeOK'
  <2>1. loop' \in [mode : {"reading", "handling", "writing"},
                   req : Requests \cup {None}, n : 0 .. FrameSize]
    BY <1>1, <1>4, NativeProcessAssumption
  <2>. QED
    BY <1>0, <1>3, <1>5, <2>1 DEF TypeOK
<1>7. LockInv'
  BY <1>0, <1>3 DEF LockInv
<1>8. StreamInv'
  <2>1. Writing(r)'
    <3>1. loop'.mode = "writing" /\ loop'.req = r /\ loop'.n = 0
      BY <1>4
    <3>2. input' = <<>> /\ handled'[r] = 1
      BY <1>2, <1>3, <1>5 DEF Handling
    <3>3. loop'.n < FrameSize
      BY <3>1, NativeProcessAssumption
    <3>. QED
      BY <1>3, <3>1, <3>2, <3>3 DEF Writing
  <2>2. pc[t] # "write"
    BY <1>1, <1>2 DEF Written, Asked, Handling
  <2>3. pc[t] = "read" => Awaited(r)'
    <3>. SUFFICES ASSUME pc[t] = "read" PROVE Awaited(r)'
      OBVIOUS
    <3>1. done < FrameSize /\ Answering(r, 0)
      BY <1>1, <1>2, ByPlace DEF Awaited, Handling
    <3>2. Answering(r, loop.n)'
      BY <1>3, <1>4, <3>1 DEF Answering
    <3>. QED
      BY <1>3, <2>1, <3>1, <3>2 DEF Awaited
  <2>. QED
    BY <1>1, <1>3, <2>1, <2>2, <2>3, NativeProcessAssumption DEF StreamInv, Given
<1>9. FreshInv'
  <2>1. ASSUME NEW u \in Threads, NEW n \in 1 .. MaxRequests, n > count[u]
        PROVE  handled'[<<u, n>>] = 0
    <3>1. <<u, n>> \in Requests \ {r}
      BY <1>0, <2>1, Types DEF Requests, Mine
    <3>. QED
      BY <1>0, <1>5, <2>1, <3>1 DEF FreshInv
  <2>2. ASSUME NEW u \in Threads, pc[u] = "lock"
        PROVE  handled'[Mine(u)] = 0
    <3>1. u # t /\ count[u] >= 1
      BY <1>0, <1>1, <2>2 DEF LockInv, Inside, Stopping
    <3>2. Mine(u) \in Requests /\ Mine(u) # r
      BY <1>0, <3>1, MineIsRequest DEF Mine
    <3>. QED
      BY <1>0, <1>5, <2>2, <3>2 DEF FreshInv
  <2>. QED
    BY <1>3, <2>1, <2>2 DEF FreshInv, Mine
<1>10. (Reaped /\ OwnAnswer)'
  BY <1>3 DEF IInv, Reaped, OwnAnswer
<1>11. HandledOnce'
  <2>. SUFFICES ASSUME NEW q \in Requests
                PROVE  handled'[q] <= 1 /\ (answer[q] = "own" => handled'[q] = 1)
    BY <1>3 DEF HandledOnce
  <2>. QED
    BY <1>0, <1>5 DEF HandledOnce
<1>. QED
  BY <1>6, <1>7, <1>8, <1>9, <1>10, <1>11 DEF IInv

LEMMA ChildWriteStep ==
  ASSUME IInv, ChildWrite
  PROVE  IInv'
<1>0. TypeOK /\ LockInv /\ StreamInv /\ FreshInv
  BY DEF IInv
<1>1. PICK t \in Threads :
        /\ mutex = t /\ Given(Mine(t)) /\ Mine(t) \in Requests /\ pc[t] \in Inside
        /\ pc[t] = "write" => Written(Mine(t))
        /\ pc[t] = "read" => Awaited(Mine(t))
  BY WorksFor DEF ChildWrite
<1>. DEFINE r == Mine(t)
<1>2. Writing(r)
  BY <1>1 DEF ChildWrite, Given, Asked, Handling, Served
<1>3. /\ UNCHANGED <<pc, count, mutex, pid, destroyed, done, input, child, killed, handled,
                     answer>>
      /\ output' = Append(output, Piece(r, loop.n + 1)) /\ r' = r
  BY <1>2 DEF ChildWrite, Writing, Mine
<1>4. /\ loop.n \in Nat /\ FrameSize \in Nat /\ done \in Nat /\ loop.n < FrameSize
      /\ output \in Seq(Pieces)
  BY <1>0, <1>2, Types DEF Writing
<1>5. /\ output' \in Seq(Pieces) /\ Len(output') = Len(output) + 1 /\ Len(output) \in Nat
      /\ \A i \in 1 .. Len(output) : output'[i] = output[i]
      /\ output'[Len(output) + 1] = Piece(r, loop.n + 1)
  <2>1. Piece(r, loop.n + 1) \in Pieces
    BY <1>1, <1>4 DEF Piece, Pieces
  <2>2. output' = Append(output, Piece(r, loop.n + 1)) /\ output \in Seq(Pieces)
    BY <1>3, <1>4
  <2>3. Len(output) \in Nat
    BY <2>2, EmptySeq
  <2>. HIDE DEF r
  <2>. QED
    BY <2>1, <2>2, <2>3, AppendFacts
<1>6. loop' = IF loop.n + 1 = FrameSize THEN Reading ELSE [loop EXCEPT !.n = @ + 1]
  BY DEF ChildWrite
<1>7. /\ loop' \in [mode : {"reading", "handling", "writing"},
                    req : Requests \cup {None}, n : 0 .. FrameSize]
      /\ loop.n + 1 = FrameSize => loop'.mode = "reading" /\ loop'.n = 0
      /\ loop.n + 1 # FrameSize =>
           loop'.mode = loop.mode /\ loop'.req = loop.req /\ loop'.n = loop.n + 1
  <2>1. loop \in [mode : {"reading", "handling", "writing"},
                  req : Requests \cup {None}, n : 0 .. FrameSize]
    BY <1>0 DEF TypeOK
  <2>2. CASE loop.n + 1 = FrameSize
    BY <1>4, <1>6, <2>2 DEF Reading
  <2>3. CASE loop.n + 1 # FrameSize
    <3>1. loop' = [loop EXCEPT !.n = loop.n + 1] /\ loop.n + 1 \in 0 .. FrameSize
      BY <1>4, <1>6, <2>3
    <3>. QED
      BY <2>1, <2>3, <3>1
  <2>. QED
    BY <2>2, <2>3
<1>8. TypeOK'
  BY <1>0, <1>3, <1>5, <1>7 DEF TypeOK, Pieces
<1>9. LockInv'
  BY <1>0, <1>3 DEF LockInv
<1>10. StreamInv'
  <2>1. \/ loop.n + 1 = FrameSize /\ Served(r)'
        \/ loop.n + 1 # FrameSize /\ Writing(r)'
    <3>1. input' = <<>> /\ handled'[r] = 1 /\ loop.mode = "writing" /\ loop.req = r
      BY <1>2, <1>3 DEF Writing
    <3>2. CASE loop.n + 1 = FrameSize
      BY <1>3, <1>7, <3>1, <3>2 DEF Served
    <3>3. CASE loop.n + 1 # FrameSize
      <4>1. loop'.n < FrameSize
        BY <1>4, <1>7, <3>3
      <4>. QED
        BY <1>3, <1>7, <3>1, <3>3, <4>1 DEF Writing
    <3>. QED
      BY <3>2, <3>3
  <2>2. pc[t] # "write"
    BY <1>1, <1>2 DEF Written, Asked, Writing
  <2>3. pc[t] = "read" => Awaited(r)'
    <3>. SUFFICES ASSUME pc[t] = "read" PROVE Awaited(r)'
      OBVIOUS
    <3>1. done < FrameSize /\ Answering(r, loop.n)
      BY <1>1, <1>2, ByPlace DEF Awaited, Writing
    <3>2. done + Len(output) = loop.n
      BY <3>1 DEF Answering
    <3>0. Len(output') = Len(output) + 1 /\ Len(output) \in Nat
      BY <1>5
    <3>3. done + Len(output') = loop.n + 1
      BY <1>4, <3>0, <3>2
    <3>4. ASSUME NEW i \in 1 .. Len(output') PROVE output'[i] = Piece(r, done + i)
      <4>1. CASE i \in 1 .. Len(output)
        BY <1>5, <3>1, <4>1 DEF Answering
      <4>2. CASE i = Len(output) + 1
        <5>1. done + i = loop.n + 1
          BY <1>4, <3>0, <3>2, <4>2
        <5>. QED
          BY <1>5, <4>2, <5>1
      <4>. QED
        BY <3>0, <4>1, <4>2
    <3>5. CASE loop.n + 1 = FrameSize
      <4>1. Answering(r, FrameSize)'
        BY <1>3, <3>3, <3>4, <3>5 DEF Answering
      <4>. QED
        BY <1>3, <2>1, <3>1, <3>5, <4>1 DEF Awaited
    <3>6. CASE loop.n + 1 # FrameSize
      <4>1. Answering(r, loop.n)'
        <5>1. done' + Len(output') = loop'.n
          BY <1>3, <1>7, <3>3, <3>6
        <5>. QED
          BY <1>3, <3>4, <5>1 DEF Answering
      <4>. QED
        BY <1>3, <2>1, <3>1, <3>6, <4>1 DEF Awaited
    <3>. QED
      BY <3>5, <3>6
  <2>4. Given(r)'
    BY <2>1 DEF Given
  <2>. QED
    BY <1>1, <1>3, <2>2, <2>3, <2>4, NativeProcessAssumption DEF StreamInv
<1>. QED
  BY <1>0, <1>3, <1>8, <1>9, <1>10
     DEF IInv, FreshInv, Mine, Reaped, OwnAnswer, HandledOnce

LEMMA ChildEndStep ==
  ASSUME IInv, ChildExit \/ HostReaps
  PROVE  IInv'
<1>1. /\ UNCHANGED <<pc, count, mutex, pid, destroyed, done, input, output, killed, loop,
                     handled, answer>>
      /\ child' \in {"zombie", "gone"} /\ (child' = "gone" \/ child = "running")
  BY DEF ChildExit, HostReaps
<1>2. TypeOK' /\ LockInv' /\ FreshInv' /\ OwnAnswer' /\ HandledOnce'
  BY <1>1 DEF IInv, TypeOK, LockInv, FreshInv, OwnAnswer, HandledOnce, Mine
<1>3. StreamInv'
  <2>1. \A t \in Threads :
          /\ Written(Mine(t))' <=> Written(Mine(t))
          /\ Awaited(Mine(t))' <=> Awaited(Mine(t))
          /\ Given(Mine(t))' <=> Given(Mine(t))
    BY <1>1, Unmoved DEF Mine
  <2>. QED
    BY <1>1, <2>1 DEF IInv, StreamInv, Quiet
<1>4. Reaped'
  BY <1>1 DEF IInv, Reaped
<1>. QED
  BY <1>2, <1>3, <1>4 DEF IInv

-----------------------------------------------------------------------------
(* Theorems *)

LEMMA StutterStep ==
  ASSUME IInv, UNCHANGED vars
  PROVE  IInv'
<1>1. UNCHANGED <<pc, count, mutex, pid, destroyed, done, input, output, child, killed,
                  loop, handled, answer>>
  BY DEF vars
<1>2. TypeOK' /\ LockInv' /\ FreshInv' /\ OwnAnswer' /\ HandledOnce' /\ Reaped'
  BY <1>1 DEF IInv, TypeOK, LockInv, FreshInv, OwnAnswer, HandledOnce, Mine, Reaped
<1>3. StreamInv'
  <2>1. \A t \in Threads :
          /\ Written(Mine(t))' <=> Written(Mine(t))
          /\ Awaited(Mine(t))' <=> Awaited(Mine(t))
          /\ Given(Mine(t))' <=> Given(Mine(t))
    BY <1>1, Unmoved DEF Mine
  <2>. QED
    BY <1>1, <2>1 DEF IInv, StreamInv, Quiet
<1>. QED
  BY <1>2, <1>3 DEF IInv

\* Every step of a thread, the child or the host keeps the inductive invariant.
LEMMA NextIInv == IInv /\ [Next]_vars => IInv'
<1>. SUFFICES ASSUME IInv, [Next]_vars PROVE IInv'
  OBVIOUS
<1>1. ASSUME NEW t \in Threads, Step(t) PROVE IInv'
  <2>1. CASE Reject(t)
    BY <2>1, RefuseStep DEF Reject
  <2>2. CASE Lock(t)
    BY <2>2, LockStep
  <2>3. CASE Write(t)
    BY <2>3, WriteStep
  <2>4. CASE Read(t)
    BY <2>4, ReadMore, ReadLast
  <2>5. CASE GiveUp(t)
    BY <2>5, GiveUpStep
  <2>6. CASE Poll(t) \/ Kill(t) \/ Wait(t)
    BY <2>6, StopSteps
  <2>. QED
    BY <1>1, <2>1, <2>2, <2>3, <2>4, <2>5, <2>6 DEF Step
<1>2. ASSUME NEW t \in Threads, Request(t) \/ Destroy(t) PROVE IInv'
  BY <1>2, RequestStep, DestroyStep
<1>3. CASE ChildRead \/ ChildHandle \/ ChildWrite \/ ChildExit \/ HostReaps
  BY <1>3, ChildReadStep, ChildHandleStep, ChildWriteStep, ChildEndStep
<1>4. CASE UNCHANGED vars
  BY <1>4, StutterStep
<1>. QED
  BY <1>1, <1>2, <1>3, <1>4 DEF Next

\* The inductive invariant holds of every behaviour of the object and its child.
THEOREM Invariance == Spec => []IInv
<1>. QED
  BY InitIInv, NextIInv, PTL DEF Spec

\* Type correctness of the object, the pipes and the child.
THEOREM TypeCorrect == Spec => []TypeOK
<1>1. IInv => TypeOK
  BY DEF IInv
<1>. QED
  BY Invariance, <1>1, PTL

\* request() never returns another request's response, however many threads
\* share the object, whatever the frame and pipe sizes, and wherever a request
\* before it timed out or the child died.
THEOREM ResponsesMatch == Spec => []OwnAnswer
<1>1. IInv => OwnAnswer
  BY DEF IInv
<1>. QED
  BY Invariance, <1>1, PTL

\* The child handles a request at most once, and exactly once if its response
\* is returned.
THEOREM HandledAtMostOnce == Spec => []HandledOnce
<1>1. IInv => HandledOnce
  BY DEF IInv
<1>. QED
  BY Invariance, <1>1, PTL

\* stop() and the destructor leave neither a zombie nor a running child behind.
THEOREM NoChildLeft == Spec => []ChildReaped
<1>1. IInv => ChildReaped
  BY DEF IInv, LockInv, Stopping, Reaped, ChildReaped
<1>. QED
  BY Invariance, <1>1, PTL
=============================================================================
