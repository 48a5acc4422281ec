------------------------- MODULE NssfProcessProofs -------------------------
(***************************************************************************)
(* Proofs about NssfProcess: what a handler may free, and what the status  *)
(* file may say, wherever the signals find main() and the server's thread. *)
(***************************************************************************)
EXTENDS NssfProcess, SequenceTheorems, TLAPS

HandlerPlaces == {"shutdown", "wait", "delete", "forget", "exit"}

Handler == [signal : Signal, at : HandlerPlaces]

ValueTypes ==
  /\ http_version \in HttpVersions
  /\ main \in {"options", "configuration", "pid-file", "server", "thread",
               "join", "status", "pause"}
  /\ server \in {"none", "start", "starting", "listening", "stopped", "returned"}
  /\ {running_server, stop_asked, deleted, pointer} \subseteq BOOLEAN
  /\ status_file \in {"none", "STARTED"}
  /\ exit \in {"running", "failed", "exited", "killed", "crashed"}

\* No two handlers on the stack are the same signal's.
HandlersDiffer ==
  /\ handlers \in Seq(Handler)
  /\ \A i, j \in DOMAIN handlers : handlers[i].signal = handlers[j].signal => i = j

\* main() starts one thread, and is past join() only when it has ended.
Joined ==
  /\ main \notin {"join", "status", "pause"} => server = "none"
  /\ main \in {"status", "pause"} => server = "returned"
  /\ status_file = "STARTED" => main = "pause"

Innermost(place) == handlers # <<>> /\ Last(handlers).at = place

\* The flag is set while the server runs, and stop() waits for it.
Waited ==
  http_version = 2 =>
    /\ server \in {"starting", "listening", "stopped"} => running_server
    /\ server = "returned" => ~running_server
    /\ stop_asked => server \in {"listening", "stopped", "returned"}
    /\ stop_asked /\ (deleted \/ Innermost("delete")) => server = "returned"

\* Only stop() of the HTTP/2 server waits.
Http2Waits == Innermost("wait") => http_version = 2

IInv == ValueTypes /\ HandlersDiffer /\ Joined /\ Waited /\ Http2Waits

-----------------------------------------------------------------------------
(* The stack of handlers *)

LEMMA LastOfAppend ==
  ASSUME NEW S, NEW seq \in Seq(S), NEW e \in S
  PROVE  Last(Append(seq, e)) = e
  BY AppendProperties DEF Last

LEMMA CatchStack ==
  ASSUME HandlersDiffer, NEW signal \in Signal, Catch(signal)
  PROVE  HandlersDiffer' /\ ~Innermost("delete")' /\ ~Innermost("wait")'
<1> DEFINE h == [signal |-> signal, at |-> "shutdown"]
<1>1. h \in Handler /\ h.signal = signal /\ h.at = "shutdown"
  BY DEF Handler, HandlerPlaces
<1>2. /\ handlers' = Append(handlers, h)
      /\ \A i \in DOMAIN handlers : handlers[i].signal # signal
  BY DEF Catch
<1>3. handlers \in Seq(Handler)
  BY DEF HandlersDiffer
<1> HIDE DEF h
<1>4. handlers' \in Seq(Handler) /\ Last(handlers') = h
  BY <1>1, <1>2, <1>3, LastOfAppend
<1>5. ASSUME NEW i \in DOMAIN handlers', NEW j \in DOMAIN handlers',
             handlers'[i].signal = handlers'[j].signal
      PROVE  i = j
  <2>1. \A k \in DOMAIN handlers' :
          \/ k \in DOMAIN handlers /\ handlers'[k] = handlers[k]
          \/ k = Len(handlers) + 1 /\ handlers'[k] = h
    BY <1>1, <1>2, <1>3
  <2>2. CASE i \in DOMAIN handlers /\ handlers'[i] = handlers[i]
    BY <1>1, <1>2, <1>5, <2>1, <2>2 DEF HandlersDiffer
  <2>3. CASE i = Len(handlers) + 1 /\ handlers'[i] = h
    BY <1>1, <1>2, <1>5, <2>1, <2>3
  <2> QED
    BY <2>1, <2>2, <2>3
<1> QED
  BY <1>1, <1>4, <1>5 DEF HandlersDiffer, Innermost

LEMMA HandlerMoves ==
  ASSUME HandlersDiffer, NEW place \in HandlerPlaces, handlers # <<>>,
         HandlerGoesTo(place)
  PROVE  /\ HandlersDiffer'
         /\ Innermost("delete")' => place = "delete"
         /\ Innermost("wait")' => place = "wait"
<1> DEFINE n == Len(handlers)
<1>1. handlers \in Seq(Handler) /\ n \in 1 .. n
  BY EmptySeq DEF HandlersDiffer
<1>2. handlers' = [handlers EXCEPT ![n] = [@ EXCEPT !.at = place]]
  BY DEF HandlerGoesTo
<1>3. \A i \in DOMAIN handlers : handlers[i] \in Handler
  BY <1>1, ElementOfSeq
<1>4. [handlers[n] EXCEPT !.at = place] \in Handler
  BY <1>1, <1>3 DEF Handler
<1>5. handlers' \in Seq(Handler) /\ Len(handlers') = n
  BY <1>1, <1>2, <1>4, ExceptSeq
<1>6. /\ DOMAIN handlers' = DOMAIN handlers
      /\ \A i \in DOMAIN handlers : handlers'[i].signal = handlers[i].signal
      /\ handlers'[n].at = place
  BY <1>1, <1>2, <1>3, <1>5 DEF Handler
<1> QED
  BY <1>1, <1>5, <1>6 DEF HandlersDiffer, Innermost, Last

-----------------------------------------------------------------------------
(* Steps *)

\* What leaves the stack as it is, and does not start or stop anything.
LEMMA SameStack ==
  ASSUME HandlersDiffer, handlers' = handlers
  PROVE  /\ HandlersDiffer'
         /\ Innermost("delete")' <=> Innermost("delete")
         /\ Innermost("wait")' <=> Innermost("wait")
  BY DEF HandlersDiffer, Innermost

LEMMA MainStep ==
  ASSUME IInv,
         \/ ParseOptions \/ ReadConfiguration \/ LockPidFile
         \/ CreateServer \/ StartThread \/ Join \/ WriteStatus
  PROVE  IInv'
<1>1. handlers' = handlers
  BY DEF ParseOptions, ReadConfiguration, LockPidFile, CreateServer, StartThread,
         Join, WriteStatus, MainGoesTo, MainEnds
<1>2. CASE ParseOptions
  BY <1>1, <1>2, SameStack
  DEF IInv, ParseOptions, AtMain, MainGoesTo, MainEnds, ValueTypes, Joined, Waited, Http2Waits
<1>3. CASE ReadConfiguration \/ LockPidFile
  BY <1>1, <1>3, SameStack
  DEF IInv, ReadConfiguration, LockPidFile, AtMain, MainGoesTo, MainEnds,
      ValueTypes, Joined, Waited, Http2Waits
<1>4. CASE CreateServer
  BY <1>1, <1>4, SameStack
  DEF IInv, CreateServer, AtMain, ValueTypes, Joined, Waited, Http2Waits
<1>5. CASE StartThread
  <2>1. UNCHANGED <<http_version, running_server, stop_asked, deleted, status_file,
                    pointer, exit>>
        /\ main = "thread" /\ main' = "join" /\ server' = "start"
    BY <1>5 DEF StartThread, AtMain
  <2>2. server = "none"
    BY <2>1 DEF IInv, Joined
  <2> QED
    BY <1>1, <2>1, <2>2, SameStack DEF IInv, ValueTypes, Joined, Waited, Http2Waits
<1>6. CASE Join \/ WriteStatus
  BY <1>1, <1>6, SameStack
  DEF IInv, Join, WriteStatus, AtMain, MainGoesTo, ValueTypes, Joined, Waited, Http2Waits
<1> QED
  BY <1>2, <1>3, <1>4, <1>5, <1>6

\* The flag is set before the server listens, and reset when it has stopped.
LEMMA ServerStep ==
  ASSUME IInv, ServerThread
  PROVE  IInv'
<1>1. handlers' = handlers
  BY DEF ServerThread, SetRunning, Listen, PortTaken, Stop, Return, ServerGoesTo
<1>2. CASE SetRunning
  BY <1>1, <1>2, SameStack
  DEF IInv, SetRunning, ServerGoesTo, ValueTypes, Joined, Waited, Http2Waits
<1>3. CASE Listen
  BY <1>1, <1>3, SameStack
  DEF IInv, Listen, ServerGoesTo, ValueTypes, Joined, Waited, Http2Waits
<1>4. CASE PortTaken
  BY <1>1, <1>4, SameStack DEF IInv, PortTaken, ValueTypes, Joined, Waited, Http2Waits
<1>5. CASE Stop
  BY <1>1, <1>5, SameStack
  DEF IInv, Stop, ServerGoesTo, ValueTypes, Joined, Waited, Http2Waits
<1>6. CASE Return
  BY <1>1, <1>6, SameStack
  DEF IInv, Return, ServerGoesTo, ValueTypes, Joined, Waited, Http2Waits
<1> QED
  BY <1>2, <1>3, <1>4, <1>5, <1>6 DEF ServerThread

LEMMA SignalStep ==
  ASSUME IInv, Kill \/ \E signal \in Signal : Catch(signal)
  PROVE  IInv'
<1>1. CASE Kill
  BY <1>1, SameStack DEF IInv, Kill, ValueTypes, Joined, Waited, Http2Waits
<1>2. ASSUME NEW signal \in Signal, Catch(signal) PROVE IInv'
  <2>1. HandlersDiffer' /\ ~Innermost("delete")' /\ ~Innermost("wait")'
    BY <1>2, CatchStack DEF IInv
  <2> QED
    BY <1>2, <2>1 DEF IInv, Catch, ValueTypes, Joined, Waited, Http2Waits
<1> QED
  BY <1>1, <1>2

\* The innermost handler comes to "delete" past the wait for the flag.
LEMMA HandlerStep ==
  ASSUME IInv,
         NoServer \/ AskToStop \/ WaitUntilStopped \/ Delete \/ Forget \/ Exit
  PROVE  IInv'
<1>1. HandlersDiffer /\ handlers # <<>>
  BY DEF IInv, NoServer, AskToStop, WaitUntilStopped, Delete, Forget, Exit,
         AtHandler
<1>2. CASE NoServer
  <2>1. HandlersDiffer' /\ ~Innermost("delete")' /\ ~Innermost("wait")'
    BY <1>1, <1>2, HandlerMoves DEF NoServer, HandlerPlaces
  <2> QED
    BY <1>2, <2>1 DEF IInv, NoServer, ValueTypes, Joined, Waited, Http2Waits
<1>3. CASE AskToStop
  <2> DEFINE listens == ~deleted /\ server \in {"listening", "stopped", "returned"}
  <2>1. UNCHANGED <<http_version, main, server, running_server, deleted, pointer,
                    status_file>>
    BY <1>3 DEF AskToStop
  <2>2. CASE /\ stop_asked' = (stop_asked \/ listens)
             /\ HandlerGoesTo(IF http_version = 2 THEN "wait" ELSE "delete")
             /\ UNCHANGED exit
    <3>1. /\ HandlersDiffer'
          /\ http_version = 2 => ~Innermost("delete")'
          /\ Innermost("wait")' => http_version = 2
      BY <1>1, <2>2, HandlerMoves DEF HandlerPlaces
    <3> QED
      BY <2>1, <2>2, <3>1 DEF IInv, ValueTypes, Joined, Waited, Http2Waits
  <2>3. CASE ~listens /\ exit' = "crashed" /\ UNCHANGED <<stop_asked, handlers>>
    BY <1>1, <2>1, <2>3, SameStack DEF IInv, ValueTypes, Joined, Waited, Http2Waits
  <2> QED
    BY <1>3, <2>2, <2>3 DEF AskToStop
<1>4. CASE WaitUntilStopped
  <2>1. HandlersDiffer' /\ ~Innermost("wait")'
    BY <1>1, <1>4, HandlerMoves DEF WaitUntilStopped, HandlerPlaces
  <2> QED
    BY <1>4, <2>1 DEF IInv, WaitUntilStopped, ValueTypes, Joined, Waited, Http2Waits
<1>5. CASE Delete
  <2>1. /\ Innermost("delete")
        /\ UNCHANGED <<http_version, main, server, running_server, stop_asked,
                       pointer, status_file>>
    BY <1>5 DEF Delete, AtHandler, Innermost
  <2>2. CASE deleted' = TRUE /\ HandlerGoesTo("forget") /\ UNCHANGED exit
    <3>1. HandlersDiffer' /\ ~Innermost("wait")'
      BY <1>1, <2>2, HandlerMoves DEF HandlerPlaces
    <3> QED
      BY <2>1, <2>2, <3>1 DEF IInv, ValueTypes, Joined, Waited, Http2Waits
  <2>3. CASE deleted /\ exit' = "crashed" /\ UNCHANGED <<deleted, handlers>>
    BY <1>1, <2>1, <2>3, SameStack DEF IInv, ValueTypes, Joined, Waited, Http2Waits
  <2> QED
    BY <1>5, <2>2, <2>3 DEF Delete
<1>6. CASE Forget
  <2>1. HandlersDiffer' /\ ~Innermost("delete")' /\ ~Innermost("wait")'
    BY <1>1, <1>6, HandlerMoves DEF Forget, HandlerPlaces
  <2> QED
    BY <1>6, <2>1 DEF IInv, Forget, ValueTypes, Joined, Waited, Http2Waits
<1>7. CASE Exit
  BY <1>1, <1>7, SameStack DEF IInv, Exit, ValueTypes, Joined, Waited, Http2Waits
<1> QED
  BY <1>2, <1>3, <1>4, <1>5, <1>6, <1>7

LEMMA InitIInv == Init => IInv
<1> SUFFICES ASSUME Init PROVE IInv
  OBVIOUS
<1>1. ValueTypes /\ Joined
  BY DEF Init, ValueTypes, Joined
<1>2. HandlersDiffer
  BY DEF Init, HandlersDiffer
<1>3. Waited /\ Http2Waits
  BY DEF Init, Waited, Http2Waits, Innermost
<1> QED
  BY <1>1, <1>2, <1>3 DEF IInv

LEMMA Step == IInv /\ [Next]_process_vars => IInv'
<1>1. IInv /\ MainThread => IInv'
  BY MainStep, HandlerStep DEF MainThread
<1>2. IInv /\ UNCHANGED process_vars => IInv'
  BY SameStack DEF IInv, process_vars, ValueTypes, Joined, Waited, Http2Waits
<1> QED
  BY <1>1, <1>2, ServerStep, SignalStep DEF Next

THEOREM IInvIsInvariant == Spec => []IInv
  BY InitIInv, Step, PTL DEF Spec

-----------------------------------------------------------------------------
(* What the invariant gives *)

\* The variables keep their types, and no handler interrupts its own signal's.
THEOREM TypeCorrect == Spec => []TypeOK
<1>1. IInv => TypeOK
  <2> SUFFICES ASSUME IInv PROVE TypeOK
    OBVIOUS
  <2>1. handlers \in Seq(Handler) /\ Len(handlers) \in Nat
    BY DEF IInv, HandlersDiffer
  <2>2. \A i \in DOMAIN handlers : /\ handlers[i].signal \in Signal
                                   /\ handlers[i].at \in HandlerPlaces
    <3>1. \A i \in DOMAIN handlers : handlers[i] \in Handler
      BY <2>1, ElementOfSeq
    <3> QED
      BY <3>1 DEF Handler
  <2>3. Len(handlers) <= 2
    <3> SUFFICES ASSUME ~(Len(handlers) <= 2) PROVE FALSE
      OBVIOUS
    <3>1. 1 \in DOMAIN handlers /\ 2 \in DOMAIN handlers /\ 3 \in DOMAIN handlers
      BY <2>1
    <3>2. /\ handlers[1].signal # handlers[2].signal
          /\ handlers[1].signal # handlers[3].signal
          /\ handlers[2].signal # handlers[3].signal
      BY <3>1 DEF IInv, HandlersDiffer
    <3> QED
      BY <2>2, <3>1, <3>2, SignalAssumption
  <2> QED
    BY <2>2, <2>3 DEF IInv, ValueTypes, TypeOK, HandlerPlaces
<1> QED
  BY <1>1, IInvIsInvariant, PTL

(***************************************************************************)
(* An HTTP/2 server that was told to stop has stopped when it is deleted,  *)
(* also when the second signal interrupts the handler of the first.        *)
(***************************************************************************)
THEOREM WaitedFor == Spec => []Http2StoppedBeforeFreed
<1>1. IInv => Http2StoppedBeforeFreed
  BY DEF IInv, Waited, Http2StoppedBeforeFreed, StoppedBeforeFreed
<1> QED
  BY <1>1, IInvIsInvariant, PTL

\* "STARTED" is written when the server's thread has ended.
THEOREM StartedWhenEnded == Spec => []StartedMeansServed
<1>1. IInv => StartedMeansServed
  BY DEF IInv, Joined, StartedMeansServed
<1> QED
  BY <1>1, IInvIsInvariant, PTL

(***************************************************************************)
(* A handler in stop() is stuck in one way only: it asked an HTTP/2 server *)
(* to stop that did not listen yet.                                        *)
(***************************************************************************)
THEOREM StuckOnlyTooEarly == Spec => []OnlyTooEarlyIsStuck
<1>1. IInv => OnlyTooEarlyIsStuck
  BY DEF IInv, ValueTypes, Waited, Http2Waits, Innermost, OnlyTooEarlyIsStuck,
         StoppedTooEarly, AtHandler
<1> QED
  BY <1>1, IInvIsInvariant, PTL
=============================================================================
