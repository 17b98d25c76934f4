------------------------------- MODULE LocalVideo -------------------------------
(***************************************************************************)
(* The window of the Qt program that shows the local screen                *)
(* (QtWidgetsLocalVideo): its two buttons make and drop DesktopCapture     *)
(* objects, each with a capture thread of its own, and VideoSubscriber     *)
(* objects, to which that thread delivers the frames.                      *)
(*                                                                         *)
(* The UI thread runs the handler of one button at a time, the capture     *)
(* threads run beside it.  They meet in start_flag_ (atomic), in join(),   *)
(* and in the lock of the broadcaster_, which is held while a frame is     *)
(* delivered to the sinks and while the sinks are changed.                 *)
(***************************************************************************)
EXTENDS Naturals

CONSTANTS
    Captures,   \* the DesktopCapture objects there may ever be; each "begin" makes
                \* one of them and one VideoSubscriber, which goes by the same name
    None,       \* no object: a null pointer
    Sizes,      \* the sizes <<width, height>> a captured frame may have
    Faults      \* "fail": a capture may fail; "noscreen": no screen can be captured

ASSUME NoneAssumption == None \notin Captures
ASSUME SizesAssumption == Sizes \subseteq (Nat \ {0}) \X (Nat \ {0})
ASSUME FaultsAssumption == Faults \subseteq {"fail", "noscreen"}

VARIABLES
    capturer,   \* capturer
    videoSub,   \* videoSub
    step,       \* where the UI thread is: "idle" between the handlers
    thread,     \* where each capture_thread_ is: "none" before it is made
    start_flag, \* start_flag_ of each capture
    sinks,      \* the sinks of each broadcaster_
    buffer,     \* the size of each i420_buffer_, or None
    deleted,    \* the DesktopCapture objects deleted
    gone,       \* the VideoSubscriber objects deleted
    crashed     \* a null pointer was used, or memory after a buffer

uiVars == <<capturer, videoSub, step, deleted, gone>>
captureVars == <<thread, start_flag, sinks, buffer>>
vars == <<uiVars, captureVars, crashed>>

Steps == {"idle", "rejoin", "create", "subscribe", "unsubscribe", "stop", "join"}
ThreadStates == {"none", "start", "check", "capture", "deliver", "done"}

TypeOK ==
    /\ capturer \in Captures \cup {None}
    /\ videoSub \in Captures \cup {None}
    /\ step \in Steps
    /\ thread \in [Captures -> ThreadStates]
    /\ start_flag \in [Captures -> BOOLEAN]
    /\ sinks \in [Captures -> SUBSET Captures]
    /\ buffer \in [Captures -> Sizes \cup {None}]
    /\ deleted \subseteq Captures
    /\ gone \subseteq Captures
    /\ crashed \in BOOLEAN

Init ==
    /\ capturer = None
    /\ videoSub = None
    /\ step = "idle"
    /\ thread = [c \in Captures |-> "none"]
    /\ start_flag = [c \in Captures |-> FALSE]
    /\ sinks = [c \in Captures |-> {}]
    /\ buffer = [c \in Captures |-> None]
    /\ deleted = {}
    /\ gone = {}
    /\ crashed = FALSE

-----------------------------------------------------------------------------
(* What the handlers are built from.                                       *)

Made(c) == thread[c] # "none"
Running(c) == thread[c] \notin {"none", "done"}

\* The capture thread holds the lock of its broadcaster_ while it delivers.
Locked(c) == thread[c] = "deliver"

JoinedAtOnce(c) == TRUE     \* mutant of Joined: the thread is not waited for
Joined(c) == thread[c] = "done"

\* Mutant of LowerFlag: the flag stays up.
LowerNothing(c) == start_flag' = start_flag
LowerFlag(c) == start_flag' = [start_flag EXCEPT ![c] = FALSE]

Area(size) == size[1] * size[2]

\* Mutant of BufferFor: a buffer of the width of the chroma planes.
HalfBufferFor(c, size) ==
    IF buffer[c] = None \/ Area(buffer[c]) < Area(size)
      THEN <<(size[1] + 1) \div 2, size[2]>> ELSE buffer[c]

\* The size of i420_buffer_ after a frame of that size has come: an old buffer of
\* enough pixels is used again, whatever its shape.
BufferFor(c, size) ==
    IF buffer[c] = None \/ Area(buffer[c]) < Area(size) THEN size ELSE buffer[c]

\* The last row written by ConvertToI420() ends after the end of the buffer.
Overruns(size, into) == (size[2] - 1) * into[1] + size[1] > Area(into)

-----------------------------------------------------------------------------
(* The UI thread: on_pushButton_clicked_begin().                           *)

\* Mutant of Begin: what runs is not stopped.
BeginAnother ==
    /\ ~crashed
    /\ step = "idle"
    /\ \E c \in Captures : ~Made(c)
    /\ step' = "create"
    /\ UNCHANGED <<capturer, videoSub, deleted, gone, captureVars, crashed>>

\* A capture that runs is stopped first.
Begin ==
    /\ ~crashed
    /\ step = "idle"
    /\ \E c \in Captures : ~Made(c)     \* bound
    /\ IF capturer = None
         THEN step' = "create" /\ UNCHANGED start_flag
         ELSE step' = "rejoin" /\ LowerFlag(capturer)
    /\ UNCHANGED <<capturer, videoSub, deleted, gone, thread, sinks, buffer, crashed>>

\* join() returns, and the capture is deleted.  videoSub stays.
DeleteOld ==
    /\ ~crashed
    /\ step = "rejoin"
    /\ Joined(capturer)
    /\ deleted' = deleted \cup {capturer}
    /\ capturer' = None
    /\ step' = "create"
    /\ UNCHANGED <<videoSub, gone, captureVars, crashed>>

\* DesktopCapture::Create() and StartCapture(), which starts the thread.  Without a
\* screen there is no capture to start, or no source to select.
Create ==
    /\ ~crashed
    /\ step = "create"
    /\ \/ /\ \E c \in Captures :
               /\ ~Made(c)
               /\ capturer' = c
               /\ start_flag' = [start_flag EXCEPT ![c] = TRUE]
               /\ thread' = [thread EXCEPT ![c] = "start"]
          /\ step' = "subscribe"
          /\ UNCHANGED crashed
       \/ /\ "noscreen" \in Faults
          /\ crashed' = TRUE
          /\ UNCHANGED <<capturer, start_flag, thread, step>>
    /\ UNCHANGED <<videoSub, deleted, gone, sinks, buffer>>

\* Mutant of Subscribe: videoSub becomes a sink before it is the new one.
SubscribeTooSoon ==
    /\ ~crashed
    /\ step = "subscribe"
    /\ ~Locked(capturer)
    /\ videoSub' = capturer
    /\ sinks' = [sinks EXCEPT ![capturer] = @ \cup ({videoSub} \ {None})]
    /\ step' = "idle"
    /\ UNCHANGED <<capturer, deleted, gone, thread, start_flag, buffer, crashed>>

\* A new VideoSubscriber becomes a sink.
Subscribe ==
    /\ ~crashed
    /\ step = "subscribe"
    /\ ~Locked(capturer)
    /\ videoSub' = capturer
    /\ sinks' = [sinks EXCEPT ![capturer] = @ \cup {capturer}]
    /\ step' = "idle"
    /\ UNCHANGED <<capturer, deleted, gone, thread, start_flag, buffer, crashed>>

(* on_pushButton_clicked_end().                                            *)

End ==
    /\ ~crashed
    /\ step = "idle"
    /\ step' = (IF capturer = None THEN "idle" ELSE "unsubscribe")
    /\ UNCHANGED <<capturer, videoSub, deleted, gone, captureVars, crashed>>

\* Mutant of RemoveSink: another sink is removed than the one that was added.
RemoveOther ==
    /\ ~crashed
    /\ step = "unsubscribe"
    /\ ~Locked(capturer)
    /\ sinks' = [sinks EXCEPT ![capturer] = @ \ (Captures \ {videoSub})]
    /\ step' = "stop"
    /\ UNCHANGED <<capturer, videoSub, deleted, gone, thread, start_flag, buffer, crashed>>

RemoveSink ==
    /\ ~crashed
    /\ step = "unsubscribe"
    /\ ~Locked(capturer)
    /\ sinks' = [sinks EXCEPT ![capturer] = @ \ {videoSub}]
    /\ step' = "stop"
    /\ UNCHANGED <<capturer, videoSub, deleted, gone, thread, start_flag, buffer, crashed>>

\* The subscriber is deleted and the capture told to stop.
Stop ==
    /\ ~crashed
    /\ step = "stop"
    /\ gone' = gone \cup {videoSub}
    /\ videoSub' = None
    /\ LowerFlag(capturer)
    /\ step' = "join"
    /\ UNCHANGED <<capturer, deleted, thread, sinks, buffer, crashed>>

\* join() returns; the capture is forgotten, not deleted.
Forget ==
    /\ ~crashed
    /\ step = "join"
    /\ Joined(capturer)
    /\ capturer' = None
    /\ step' = "idle"
    /\ UNCHANGED <<videoSub, deleted, gone, captureVars, crashed>>

-----------------------------------------------------------------------------
(* The thread of capture c.                                                *)

MoveTo(c, s) == thread' = [thread EXCEPT ![c] = s]

\* dc_->Start()
StartCapturer(c) ==
    /\ ~crashed
    /\ thread[c] = "start"
    /\ MoveTo(c, "check")
    /\ UNCHANGED <<uiVars, start_flag, sinks, buffer, crashed>>

\* The condition of the loop, after it has slept.
CheckFlag(c) ==
    /\ ~crashed
    /\ thread[c] = "check"
    /\ MoveTo(c, IF start_flag[c] THEN "capture" ELSE "done")
    /\ UNCHANGED <<uiVars, start_flag, sinks, buffer, crashed>>

\* dc_->CaptureFrame(), and OnCaptureResult() up to the delivery: the video_adapter_
\* may drop the frame.  A failure is logged, and its null frame used.
CaptureFrame(c) ==
    /\ ~crashed
    /\ thread[c] = "capture"
    /\ \/ /\ \E size \in Sizes :
               /\ buffer' = [buffer EXCEPT ![c] = BufferFor(c, size)]
               /\ crashed' \in {FALSE, Overruns(size, BufferFor(c, size))}
          /\ MoveTo(c, "deliver") \/ MoveTo(c, "check")
       \/ /\ "fail" \in Faults
          /\ crashed' = TRUE
          /\ UNCHANGED <<buffer, thread>>
    /\ UNCHANGED <<uiVars, start_flag, sinks>>

\* broadcaster_.OnFrame(): every sink shows the frame, under the lock.
Deliver(c) ==
    /\ ~crashed
    /\ thread[c] = "deliver"
    /\ MoveTo(c, "check")
    /\ UNCHANGED <<uiVars, start_flag, sinks, buffer, crashed>>

-----------------------------------------------------------------------------
Halted == crashed /\ UNCHANGED vars

Handler == DeleteOld \/ Create \/ Subscribe \/ RemoveSink \/ Stop \/ Forget

CaptureThread(c) ==
    StartCapturer(c) \/ CheckFlag(c) \/ CaptureFrame(c) \/ Deliver(c)

Next ==
    \/ Begin \/ End
    \/ Handler
    \/ \E c \in Captures : CaptureThread(c)
    \/ Halted

Spec == Init /\ [][Next]_vars

\* Both threads go on; the UI thread gets the lock that the capture thread gives up
\* for the length of a sleep after every frame.
Fairness ==
    /\ WF_vars(Handler)
    /\ SF_vars(Subscribe)
    /\ SF_vars(RemoveSink)
    /\ \A c \in Captures : WF_vars(CaptureThread(c))

FairSpec == Spec /\ Fairness

-----------------------------------------------------------------------------
(* Properties.                                                             *)

\* A thread never works for a capture that has been deleted: the handlers wait for
\* it before they delete (StopCapture()).
ThreadOwnsCapture == \A c \in deleted : ~Running(c)

\* No frame is delivered to a subscriber that has been deleted: it was removed first,
\* and the lock made that wait for a delivery under way.
SinksAlive == \A c \in Captures : thread[c] = "deliver" => sinks[c] \cap gone = {}

\* Only the capture the window knows runs: none is left behind by "begin" pressed
\* again or by "end", so that two never paint the same label.
OneCaptureRuns == \A c \in Captures : Running(c) => c = capturer

\* Between the handlers, a window that has a capture sees it: its thread runs, is not
\* told to stop, and the subscriber that paints is its sink.
CaptureIsSeen ==
    step = "idle" /\ capturer # None =>
        /\ Running(capturer) /\ start_flag[capturer]
        /\ videoSub \in sinks[capturer] \ gone

\* Liveness.  Each handler returns: join() and the lock are waited for in vain never.
HandlersReturn == step # "idle" ~> step = "idle" \/ crashed

=============================================================================
