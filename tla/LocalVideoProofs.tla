---------------------------- MODULE LocalVideoProofs ----------------------------
(***************************************************************************)
(* Proofs about LocalVideo, for any captures, sizes and faults.  The       *)
(* invariant IInv says, for each place of the UI thread, what there is of  *)
(* the capture and of the subscriber it works for; the properties follow   *)
(* from it at once.                                                        *)
(***************************************************************************)
EXTENDS LocalVideo, TLAPS

\* The window has a capture wherever a handler uses one, and has none to lose when
\* it makes another.
Place ==
    /\ step = "create" => capturer = None
    /\ step \in {"rejoin", "subscribe", "unsubscribe", "stop", "join"} => capturer # None
    /\ capturer # None => Made(capturer) /\ capturer \notin deleted
    /\ \A c \in deleted : Made(c)

\* Only that capture may run, and it does until it is told to stop.
Runs ==
    /\ OneCaptureRuns
    /\ capturer # None /\ step \notin {"rejoin", "join"} =>
          start_flag[capturer] /\ Running(capturer)

\* A broadcaster_ has no sink but the subscriber made with it, and no deleted one.
Sinks ==
    \A c \in Captures :
        /\ sinks[c] \subseteq {c}
        /\ c \in gone => sinks[c] = {} /\ Made(c)

\* The subscriber of the window is that of its capture, and is not deleted before it
\* has been removed.
Subscribed ==
    /\ capturer # None /\ step \in {"idle", "unsubscribe", "stop"} => videoSub = capturer
    /\ capturer # None /\ step \in {"idle", "unsubscribe"} => capturer \in sinks[capturer]
    /\ capturer # None /\ step # "join" => capturer \notin gone
    /\ step = "stop" => sinks[capturer] = {}

IInv == TypeOK /\ Place /\ Runs /\ Sinks /\ Subscribed

-----------------------------------------------------------------------------
(* One lemma for each handler of the UI thread, and for the capture thread. *)

\* Pressed while a capture runs, "begin" only lowers its flag.
LEMMA BeginKeeps == IInv /\ Begin => IInv'
<1> SUFFICES ASSUME IInv, Begin PROVE IInv'
  OBVIOUS
<1> USE DEF IInv, Begin, LowerFlag
<1>1. TypeOK'
  BY DEF TypeOK, Steps
<1>2. Place'
  BY DEF Place, Made
<1>3. Runs'
  BY DEF Runs, OneCaptureRuns, Running
<1>4. Sinks'
  BY DEF Sinks, Made
<1>5. Subscribed'
  BY DEF Subscribed
<1> QED
  BY <1>1, <1>2, <1>3, <1>4, <1>5

\* "end" begins with a capture, or does nothing.
LEMMA EndKeeps == IInv /\ End => IInv'
<1> SUFFICES ASSUME IInv, End PROVE IInv'
  OBVIOUS
<1> USE DEF IInv, End, captureVars
<1>1. TypeOK'
  BY DEF TypeOK, Steps
<1>2. Place'
  BY DEF Place, Made
<1>3. Runs'
  BY DEF Runs, OneCaptureRuns, Running
<1>4. Sinks'
  BY DEF Sinks, Made
<1>5. Subscribed'
  BY DEF Subscribed
<1> QED
  BY <1>1, <1>2, <1>3, <1>4, <1>5

\* The capture deleted has been joined, so nothing runs when the next is made.
LEMMA DeleteOldKeeps == IInv /\ DeleteOld => IInv'
<1> SUFFICES ASSUME IInv, DeleteOld PROVE IInv'
  OBVIOUS
<1> USE DEF IInv, DeleteOld, captureVars
<1>1. TypeOK'
  BY DEF TypeOK, Steps, Place
<1>2. Place'
  BY DEF Place, Made
<1>3. Runs'
  BY DEF Runs, OneCaptureRuns, Running, Joined, TypeOK
<1>4. Sinks'
  BY DEF Sinks, Made
<1>5. Subscribed'
  BY DEF Subscribed
<1> QED
  BY <1>1, <1>2, <1>3, <1>4, <1>5

\* A new capture was never deleted, has no sink, and is the only one that runs.
LEMMA CreateKeeps == IInv /\ Create => IInv'
<1> SUFFICES ASSUME IInv, Create PROVE IInv'
  OBVIOUS
<1> USE DEF IInv, Create
<1>1. CASE crashed'
  <2>1. UNCHANGED <<uiVars, captureVars>> /\ crashed' = TRUE
    BY <1>1 DEF uiVars, captureVars
  <2>2. TypeOK'
    BY <2>1 DEF TypeOK, uiVars, captureVars
  <2>3. Place' /\ Runs'
    BY <2>1 DEF Place, Made, Runs, OneCaptureRuns, Running, uiVars, captureVars
  <2>4. Sinks' /\ Subscribed'
    BY <2>1 DEF Sinks, Made, Subscribed, uiVars, captureVars
  <2> QED
    BY <2>2, <2>3, <2>4
<1>2. CASE ~crashed'
  <2>1. PICK c \in Captures : /\ ~Made(c)
                              /\ capturer' = c
                              /\ start_flag' = [start_flag EXCEPT ![c] = TRUE]
                              /\ thread' = [thread EXCEPT ![c] = "start"]
                              /\ step' = "subscribe"
    BY <1>2 DEF TypeOK
  <2>2. TypeOK'
    BY <2>1 DEF TypeOK, Steps, ThreadStates
  <2>3. Place'
    BY <2>1, NoneAssumption DEF Place, Made, TypeOK
  <2>4. Runs'
    BY <2>1, NoneAssumption DEF Place, Runs, OneCaptureRuns, Running, TypeOK
  <2>5. Sinks'
    BY <2>1 DEF Sinks, Made, TypeOK
  <2>6. Subscribed'
    BY <2>1 DEF Subscribed, Sinks
  <2> QED
    BY <2>2, <2>3, <2>4, <2>5, <2>6
<1> QED
  BY <1>1, <1>2

\* The subscriber added is new: no subscriber of that name has been deleted.
LEMMA SubscribeKeeps == IInv /\ Subscribe => IInv'
<1> SUFFICES ASSUME IInv, Subscribe PROVE IInv'
  OBVIOUS
<1> USE DEF IInv, Subscribe
<1>1. capturer \in Captures
  BY DEF Place, TypeOK
<1>2. TypeOK'
  BY <1>1 DEF TypeOK, Steps
<1>3. Place'
  BY DEF Place, Made
<1>4. Runs'
  BY DEF Runs, OneCaptureRuns, Running
<1>5. Sinks'
  BY <1>1 DEF Sinks, Subscribed, Place, Made, TypeOK
<1>6. Subscribed'
  BY <1>1 DEF Subscribed, Place, TypeOK
<1> QED
  BY <1>2, <1>3, <1>4, <1>5, <1>6

\* The sink removed is the only one there was.
LEMMA RemoveSinkKeeps == IInv /\ RemoveSink => IInv'
<1> SUFFICES ASSUME IInv, RemoveSink PROVE IInv'
  OBVIOUS
<1> USE DEF IInv, RemoveSink
<1>1. capturer \in Captures /\ videoSub = capturer
  BY DEF Place, TypeOK, Subscribed
<1>2. TypeOK'
  BY <1>1 DEF TypeOK, Steps
<1>3. Place'
  BY DEF Place, Made
<1>4. Runs'
  BY DEF Runs, OneCaptureRuns, Running
<1>5. Sinks'
  BY <1>1 DEF Sinks, Made, TypeOK
<1>6. Subscribed'
  BY <1>1 DEF Subscribed, Place, Sinks, TypeOK
<1> QED
  BY <1>2, <1>3, <1>4, <1>5, <1>6

\* The subscriber deleted is no longer a sink.
LEMMA StopKeeps == IInv /\ Stop => IInv'
<1> SUFFICES ASSUME IInv, Stop PROVE IInv'
  OBVIOUS
<1> USE DEF IInv, Stop, LowerFlag
<1>1. capturer \in Captures /\ videoSub = capturer /\ Made(capturer)
  BY DEF Place, TypeOK, Subscribed
<1>2. TypeOK'
  BY <1>1 DEF TypeOK, Steps
<1>3. Place'
  BY DEF Place, Made
<1>4. Runs'
  BY DEF Runs, OneCaptureRuns, Running
<1>5. Sinks'
  BY <1>1 DEF Sinks, Made, Subscribed
<1>6. Subscribed'
  BY DEF Subscribed
<1> QED
  BY <1>2, <1>3, <1>4, <1>5, <1>6

\* The capture forgotten has been joined.
LEMMA ForgetKeeps == IInv /\ Forget => IInv'
<1> SUFFICES ASSUME IInv, Forget PROVE IInv'
  OBVIOUS
<1> USE DEF IInv, Forget, captureVars
<1>1. TypeOK'
  BY DEF TypeOK, Steps
<1>2. Place'
  BY DEF Place, Made
<1>3. Runs'
  BY DEF Runs, OneCaptureRuns, Running, Joined, TypeOK
<1>4. Sinks'
  BY DEF Sinks, Made
<1>5. Subscribed'
  BY DEF Subscribed
<1> QED
  BY <1>1, <1>2, <1>3, <1>4, <1>5

\* What the capture thread does to thread: the capture has been made and runs, and
\* stops only when its flag is down.
LEMMA ThreadMoves ==
    ASSUME IInv, NEW c \in Captures, CaptureThread(c)
    PROVE  /\ thread' \in [Captures -> ThreadStates]
           /\ Running(c) /\ thread'[c] # "none"
           /\ \A d \in Captures \ {c} : thread'[d] = thread[d]
           /\ start_flag[c] => thread'[c] # "done"
           /\ UNCHANGED <<uiVars, start_flag, sinks>>
<1> USE DEF IInv, TypeOK, MoveTo, ThreadStates, Running
<1>1. CASE StartCapturer(c)
  BY <1>1 DEF StartCapturer
<1>2. CASE CheckFlag(c)
  BY <1>2 DEF CheckFlag
<1>3. CASE CaptureFrame(c)
  BY <1>3 DEF CaptureFrame
<1>4. CASE Deliver(c)
  BY <1>4 DEF Deliver
<1> QED
  BY <1>1, <1>2, <1>3, <1>4 DEF CaptureThread

\* The buffer has one of the sizes frames have.
LEMMA BufferType ==
    ASSUME TypeOK, NEW c \in Captures, CaptureThread(c)
    PROVE  /\ buffer' \in [Captures -> Sizes \cup {None}]
           /\ crashed' \in BOOLEAN
<1> USE DEF TypeOK
<1>1. CASE UNCHANGED <<buffer, crashed>>
  BY <1>1
<1>2. CASE CaptureFrame(c)
  <2>1. ASSUME NEW size \in Sizes PROVE BufferFor(c, size) \in Sizes \cup {None}
    BY DEF BufferFor
  <2>2. ASSUME NEW size \in Sizes, NEW b PROVE Overruns(size, b) \in BOOLEAN
    BY DEF Overruns
  <2> QED
    BY <1>2, <2>1, <2>2 DEF CaptureFrame
<1> QED
  BY <1>1, <1>2 DEF CaptureThread, StartCapturer, CheckFlag, Deliver

\* The capture thread changes nothing the UI thread relies on.
LEMMA CaptureThreadKeeps ==
    ASSUME IInv, NEW c \in Captures, CaptureThread(c)
    PROVE  IInv'
<1> USE ThreadMoves, BufferType DEF IInv, uiVars
<1>1. TypeOK'
  BY DEF TypeOK
<1>2. Place'
  BY DEF Place, Made, TypeOK
<1>3. Runs'
  BY DEF Runs, OneCaptureRuns, Running, TypeOK
<1>4. Sinks'
  BY DEF Sinks, Made
<1>5. Subscribed'
  BY DEF Subscribed
<1> QED
  BY <1>1, <1>2, <1>3, <1>4, <1>5

-----------------------------------------------------------------------------
(* The theorems.                                                           *)

\* IInv holds of a window just opened, and every step keeps it.
LEMMA Inductive == Spec => []IInv
<1>1. Init => IInv
  BY NoneAssumption
     DEF Init, IInv, TypeOK, Steps, ThreadStates, Place, Made, Runs, OneCaptureRuns,
         Running, Sinks, Subscribed
<1>2. IInv /\ [Next]_vars => IInv'
  <2> SUFFICES ASSUME IInv, [Next]_vars PROVE IInv'
    OBVIOUS
  <2>1. CASE UNCHANGED vars
    BY <2>1 DEF vars, uiVars, captureVars, IInv, TypeOK, Place, Made, Runs,
                OneCaptureRuns, Running, Sinks, Subscribed
  <2>2. CASE Begin \/ End
    BY <2>2, BeginKeeps, EndKeeps
  <2>3. CASE Handler
    BY <2>3, DeleteOldKeeps, CreateKeeps, SubscribeKeeps, RemoveSinkKeeps, StopKeeps,
       ForgetKeeps DEF Handler
  <2>4. ASSUME NEW c \in Captures, CaptureThread(c) PROVE IInv'
    BY <2>4, CaptureThreadKeeps
  <2> QED
    BY <2>1, <2>2, <2>3, <2>4 DEF Next, Halted
<1> QED
  BY <1>1, <1>2, PTL DEF Spec

\* The types of all variables: the handlers never use a capture they do not have,
\* and the buffer has the size of some frame.
THEOREM TypeCorrect == Spec => []TypeOK
<1>1. IInv => TypeOK
  BY DEF IInv
<1> QED
  BY <1>1, Inductive, PTL

\* No capture thread but that of the window's capture ever runs, however often and in
\* whatever order the two buttons are pressed.
THEOREM OneThread == Spec => []OneCaptureRuns
<1>1. IInv => OneCaptureRuns
  BY DEF IInv, Runs
<1> QED
  BY <1>1, Inductive, PTL

\* A capture is deleted only when its thread has ended: the one that runs is that of
\* the window, which is not deleted.
THEOREM NoThreadOfDeleted == Spec => []ThreadOwnsCapture
<1>1. IInv => ThreadOwnsCapture
  BY NoneAssumption DEF IInv, TypeOK, Runs, OneCaptureRuns, Place, ThreadOwnsCapture
<1> QED
  BY <1>1, Inductive, PTL

\* A subscriber is deleted only after its broadcaster_ has forgotten it, so no frame
\* reaches a deleted one.
THEOREM NoDeletedSink == Spec => []SinksAlive
<1>1. IInv => SinksAlive
  BY DEF IInv, Sinks, SinksAlive
<1> QED
  BY <1>1, Inductive, PTL

\* A window that has a capture between its handlers sees it.
THEOREM IdleSeesCapture == Spec => []CaptureIsSeen
<1>1. IInv => CaptureIsSeen
  BY DEF IInv, Runs, Subscribed, CaptureIsSeen
<1> QED
  BY <1>1, Inductive, PTL
=============================================================================
