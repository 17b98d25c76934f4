-------------------------------- MODULE CallVideo --------------------------------
(***************************************************************************)
(* The video of a conversation in the Win32 program: the video tracks of   *)
(* the Conductor, the renderers of the window that are sinks of them, and  *)
(* OnPaint().                                                              *)
(*                                                                         *)
(* The UI thread runs one handler at a time; it makes and deletes          *)
(* renderers and paints.  Each track delivers its frames on a thread of    *)
(* WebRTC, to every sink, holding the lock of its broadcaster; a sink can  *)
(* only be added or removed while nobody holds that lock.  In a renderer,  *)
(* buffer_lock_ keeps OnFrame() and OnPaint() apart.  (SetSize() takes it  *)
(* again inside OnFrame(): a critical section lets its owner in.)          *)
(***************************************************************************)
EXTENDS Naturals, Sequences

CONSTANTS
    Renderers,  \* names for the VideoRenderer objects; a name is used again when
                \* its object is deleted and nothing refers to it
    Tracks,     \* names for the video tracks, likewise
    Sizes,      \* the sizes of the frames that may come
    OneByOne,   \* the size a renderer starts with
    None,       \* a null pointer; nobody
    MaxQueue    \* bound: thread messages that wait

ASSUME NoneAssumption ==
    None \notin Renderers \cup Tracks \cup Sizes \cup {OneByOne, "ui"}
ASSUME UIAssumption == "ui" \notin Tracks
ASSUME MaxQueueAssumption == MaxQueue \in Nat

VARIABLES
    window,     \* the window exists
    streaming,  \* ui_ is STREAMING
    box,        \* a message box is open: its loop throws thread messages away
    step,       \* where the UI thread is: "idle" between the handlers
    at,         \* the renderer being made or deleted, when step says so
    leaving,    \* what follows DeletePeerConnection() in the handler that calls it
    pc,         \* peer_connection_ and its factory are there
    live,       \* the tracks whose factory, and with it their threads, is there
    queue,      \* the thread messages that carry a track
    local_renderer,     \* local_renderer_
    remote_renderer,    \* remote_renderer_
    rendered,   \* rendered_track_ of each renderer; None: there is no such object
    bmi,        \* the size in bmi_ of each renderer
    image,      \* the size of the picture in image_ of each renderer; None: null
    owner,      \* who holds buffer_lock_ of each renderer: "ui", a track's thread, None
    sinks,      \* the renderers that are sinks of each track
    feed,       \* what the thread of each track does: see Feeds
    dirty,      \* part of the window has to be painted
    screen,     \* what OnPaint() painted last
    crashed     \* a thread that has been deleted was called

uiVars == <<window, streaming, box, step, at, leaving>>
callVars == <<pc, live, queue>>
rendererVars == <<local_renderer, remote_renderer, rendered, sinks>>
imageVars == <<bmi, image, owner>>
paintVars == <<dirty, screen>>
vars == <<uiVars, callVars, rendererVars, imageVars, feed, paintVars, crashed>>

Steps == {"idle", "startLocal", "startRemote", "deleteOld", "stopLocal", "stopRemote",
          "lockLocal", "lockRemote", "draw"}

\* The thread of a track: "idle" without a frame, else delivering one of that size to
\* sink `to`, with the sinks in `rest` to follow.  In OnFrame() it waits for the lock
\* ("enter"), has it and has written bmi_ ("resized"), or has released it ("drawn").
NoFrame == [at |-> "idle", size |-> None, to |-> None, rest |-> {}]
Feeds == {NoFrame} \cup [at : {"enter", "resized", "drawn"}, size : Sizes,
                        to : Renderers, rest : SUBSET Renderers]

Messages == [id : {"NEW_TRACK_ADDED", "TRACK_REMOVED"}, track : Tracks]

UITypes ==
    /\ window \in BOOLEAN /\ streaming \in BOOLEAN /\ box \in BOOLEAN
    /\ step \in Steps
    /\ at \in Renderers \cup {None}
    /\ leaving \in {"no", "page", "close"}

CallTypes ==
    /\ pc \in BOOLEAN
    /\ live \subseteq Tracks
    /\ queue \in Seq(Messages) /\ Len(queue) <= MaxQueue

RendererTypes ==
    /\ local_renderer \in Renderers \cup {None}
    /\ remote_renderer \in Renderers \cup {None}
    /\ rendered \in [Renderers -> Tracks \cup {None}]
    /\ sinks \in [Tracks -> SUBSET Renderers]

ImageTypes ==
    /\ bmi \in [Renderers -> Sizes \cup {OneByOne}]
    /\ image \in [Renderers -> Sizes \cup {None}]
    /\ owner \in [Renderers -> Tracks \cup {"ui", None}]

FeedTypes == feed \in [Tracks -> Feeds]

PaintTypes ==
    /\ dirty \in BOOLEAN
    /\ screen \in Sizes \cup {"plain", "connecting"}
    /\ crashed \in BOOLEAN

TypeOK == UITypes /\ CallTypes /\ RendererTypes /\ ImageTypes /\ FeedTypes /\ PaintTypes

Init ==
    /\ window = TRUE /\ streaming = FALSE /\ box = FALSE
    /\ pc = FALSE /\ dirty = TRUE /\ crashed = FALSE
    /\ step = "idle" /\ at = None /\ leaving = "no"
    /\ live = {} /\ queue = <<>>
    /\ local_renderer = None /\ remote_renderer = None
    /\ rendered = [r \in Renderers |-> None]
    /\ bmi = [r \in Renderers |-> OneByOne]
    /\ image = [r \in Renderers |-> None]
    /\ owner = [r \in Renderers |-> None]
    /\ sinks = [t \in Tracks |-> {}]
    /\ feed = [t \in Tracks |-> NoFrame]
    /\ screen = "plain"

-----------------------------------------------------------------------------
(* What the handlers are built from.                                       *)

Idle == step = "idle" /\ ~crashed

\* The lock of the track's broadcaster is held.
Delivering(t) == feed[t].at # "idle"

Queued(t) == \E i \in DOMAIN queue : queue[i].track = t

\* Names nothing refers to.
FreeTracks ==
    {t \in Tracks \ live : ~Queued(t) /\ \A r \in Renderers : rendered[r] # t}
FreeRenderers ==
    {r \in Renderers : rendered[r] = None /\ \A t \in Tracks : r \notin sinks[t]}

\* `new VideoRenderer(...)`, up to AddOrUpdateSink(): of size one by one, no picture.
NewRenderer(r, t) ==
    /\ rendered' = [rendered EXCEPT ![r] = t]
    /\ at' = r

\* AddOrUpdateSink(), which waits for the lock of the broadcaster.
AddSink(r) ==
    /\ ~Delivering(rendered[r])
    /\ sinks' = [sinks EXCEPT ![rendered[r]] = @ \cup {r}]

\* The object is no more: its name is as good as new.
Forget(r) ==
    /\ rendered' = [rendered EXCEPT ![r] = None]
    /\ bmi' = [bmi EXCEPT ![r] = OneByOne]
    /\ image' = [image EXCEPT ![r] = None]

\* Mutant of DeleteRenderer: the sink is removed beside a delivery.
DeleteAtOnce(r) ==
    /\ sinks' = [sinks EXCEPT ![rendered[r]] = @ \ {r}]
    /\ Forget(r)

\* The destructor: RemoveSink() waits for the lock of the broadcaster.
DeleteRenderer(r) ==
    /\ ~Delivering(rendered[r])
    /\ sinks' = [sinks EXCEPT ![rendered[r]] = @ \ {r}]
    /\ Forget(r)

-----------------------------------------------------------------------------
(* A conversation begins and its tracks come.                              *)

\* InitializePeerConnection() and AddTracks(), up to the constructor of the local
\* renderer.  Without a camera there is no video track and no local renderer.  A message
\* of another program begins a conversation also when the window is gone.
StartConversation ==
    /\ Idle /\ ~pc
    /\ pc' = TRUE
    /\ \/ \E t \in FreeTracks, r \in FreeRenderers :
            /\ live' = live \cup {t}
            /\ NewRenderer(r, t)
            /\ step' = "startLocal"
            /\ UNCHANGED <<streaming, dirty>>
       \/ /\ streaming' = TRUE
          /\ dirty' = TRUE
          /\ UNCHANGED <<live, step, at, rendered>>
    /\ UNCHANGED <<window, box, leaving, queue, local_renderer, remote_renderer, sinks,
                   imageVars, feed, screen, crashed>>

\* StartLocalRenderer() and SwitchToStreamingUI().  There is no older local renderer:
\* DeletePeerConnection() has deleted it.
StartLocalRenderer ==
    /\ ~crashed /\ step = "startLocal"
    /\ AddSink(at)
    /\ local_renderer' = at
    /\ streaming' = TRUE
    /\ dirty' = TRUE
    /\ step' = "idle" /\ at' = None
    /\ UNCHANGED <<window, box, leaving, callVars, remote_renderer, rendered, imageVars,
                   feed, screen, crashed>>

\* OnAddTrack(): a track of the other side, new or given up and taken again.
OnAddTrack ==
    /\ Idle /\ pc
    /\ Len(queue) < MaxQueue                        \* bound
    /\ \E t \in FreeTracks \cup live :
        /\ local_renderer # None => t # rendered[local_renderer]
        /\ live' = live \cup {t}
        /\ queue' = Append(queue, [id |-> "NEW_TRACK_ADDED", track |-> t])
    /\ UNCHANGED <<uiVars, pc, rendererVars, imageVars, feed, paintVars, crashed>>

\* OnRemoveTrack()
OnRemoveTrack ==
    /\ Idle /\ pc
    /\ Len(queue) < MaxQueue                        \* bound
    /\ \E t \in live :
        /\ local_renderer # None => t # rendered[local_renderer]
        /\ queue' = Append(queue, [id |-> "TRACK_REMOVED", track |-> t])
    /\ UNCHANGED <<uiVars, pc, live, rendererVars, imageVars, feed, paintVars, crashed>>

\* Mutant of UIThreadCallback: a second track does not get the renderer.
FirstTrackOnly ==
    /\ Idle /\ ~box /\ queue # <<>>
    /\ queue' = Tail(queue)
    /\ LET t == Head(queue).track IN
       \/ /\ Head(queue).id = "TRACK_REMOVED" \/ remote_renderer # None
          /\ UNCHANGED <<step, at, rendered, crashed>>
       \/ /\ Head(queue).id = "NEW_TRACK_ADDED" /\ remote_renderer = None
          /\ t \in live
          /\ \E r \in FreeRenderers : NewRenderer(r, t)
          /\ step' = "startRemote"
          /\ UNCHANGED crashed
    /\ UNCHANGED <<window, streaming, box, leaving, pc, live, local_renderer,
                   remote_renderer, sinks, imageVars, feed, paintVars>>

\* UIThreadCallback(): a track added gets a renderer, a track removed is released and
\* keeps its renderer.  (A message about an audio track does what the second does.)  A
\* track whose factory is gone calls its sink methods on a deleted thread.
UIThreadCallback ==
    /\ Idle /\ ~box /\ queue # <<>>
    /\ queue' = Tail(queue)
    /\ LET t == Head(queue).track IN
       \/ /\ Head(queue).id = "TRACK_REMOVED"
          /\ UNCHANGED <<step, at, rendered, crashed>>
       \/ /\ Head(queue).id = "NEW_TRACK_ADDED"
          /\ t \in live
          /\ \E r \in FreeRenderers : NewRenderer(r, t)
          /\ step' = "startRemote"
          /\ UNCHANGED crashed
       \/ /\ Head(queue).id = "NEW_TRACK_ADDED"
          /\ t \notin live
          /\ crashed' = TRUE
          /\ UNCHANGED <<step, at, rendered>>
    /\ UNCHANGED <<window, streaming, box, leaving, pc, live, local_renderer,
                   remote_renderer, sinks, imageVars, feed, paintVars>>

\* StartRemoteRenderer(): the new renderer is complete before the old one is deleted.
StartRemoteRenderer ==
    /\ ~crashed /\ step = "startRemote"
    /\ AddSink(at)
    /\ remote_renderer' = at
    /\ at' = remote_renderer
    /\ step' = IF remote_renderer = None THEN "idle" ELSE "deleteOld"
    /\ UNCHANGED <<window, streaming, box, leaving, callVars, local_renderer, rendered,
                   imageVars, feed, paintVars, crashed>>

DeleteOldRenderer ==
    /\ ~crashed /\ step = "deleteOld"
    /\ DeleteRenderer(at)
    /\ step' = "idle" /\ at' = None
    /\ UNCHANGED <<window, streaming, box, leaving, callVars, local_renderer,
                   remote_renderer, owner, feed, paintVars, crashed>>

-----------------------------------------------------------------------------
(* A conversation ends.                                                    *)

\* The handlers that call DeletePeerConnection(): those that show another page if there
\* is a window, the failed loopback test, which leaves the page alone, and Close().  A
\* window behind a message box takes no input.
EndConversation ==
    /\ Idle
    /\ \/ leaving' = "page"
       \/ leaving' = "no" /\ pc
       \/ leaving' = "close" /\ window /\ ~box
    /\ step' = "stopLocal"
    /\ UNCHANGED <<window, streaming, box, at, callVars, rendererVars, imageVars, feed,
                   paintVars, crashed>>

StopLocalRenderer ==
    /\ ~crashed /\ step = "stopLocal"
    /\ IF local_renderer = None THEN UNCHANGED <<sinks, rendered, bmi, image>>
                                ELSE DeleteRenderer(local_renderer)
    /\ local_renderer' = None
    /\ step' = "stopRemote"
    /\ UNCHANGED <<window, streaming, box, at, leaving, callVars, remote_renderer,
                   owner, feed, paintVars, crashed>>

\* Where the handler goes when the renderers are gone: the peer connection and the
\* factory with its threads are deleted, and the window goes or shows another page (the
\* connect dialog invalidates the window, the list of peers covers it).
Leave ==
    /\ pc' = FALSE /\ live' = {}
    /\ window' = (window /\ leaving # "close")
    /\ streaming' = (streaming /\ ~(leaving = "page" /\ window))
    /\ dirty' \in {dirty, dirty \/ (leaving = "page" /\ window)}
    /\ leaving' = "no"
    /\ step' = "idle"

\* Mutant of StopRemoteRenderer: only the local renderer is stopped.
KeepRemoteRenderer ==
    /\ ~crashed /\ step = "stopRemote"
    /\ Leave
    /\ UNCHANGED <<box, at, queue, rendererVars, imageVars, feed, screen, crashed>>

StopRemoteRenderer ==
    /\ ~crashed /\ step = "stopRemote"
    /\ IF remote_renderer = None THEN UNCHANGED <<sinks, rendered, bmi, image>>
                                 ELSE DeleteRenderer(remote_renderer)
    /\ remote_renderer' = None
    /\ Leave
    /\ UNCHANGED <<box, at, queue, local_renderer, owner, feed, screen, crashed>>

-----------------------------------------------------------------------------
(* Message boxes.                                                          *)

\* Return pressed while streaming.
OnDefaultAction ==
    /\ Idle /\ window /\ streaming /\ ~box
    /\ box' = TRUE
    /\ UNCHANGED <<window, streaming, step, at, leaving, callVars, rendererVars, imageVars,
                   feed, paintVars, crashed>>

DismissBox ==
    /\ Idle /\ box
    /\ box' = FALSE
    /\ UNCHANGED <<window, streaming, step, at, leaving, callVars, rendererVars, imageVars,
                   feed, paintVars, crashed>>

\* The loop of the box dispatches to windows only; the track is never released.
LoseThreadMessage ==
    /\ Idle /\ box /\ queue # <<>>
    /\ queue' = Tail(queue)
    /\ UNCHANGED <<uiVars, pc, live, rendererVars, imageVars, feed, paintVars, crashed>>

-----------------------------------------------------------------------------
(* OnPaint().                                                              *)

Lock(r, who) == owner' = [owner EXCEPT ![r] = who]

\* BeginPaint() declares the window painted, before anything is read.
BeginPaint ==
    /\ Idle /\ window /\ dirty
    /\ dirty' = FALSE
    /\ IF streaming /\ local_renderer # None /\ remote_renderer # None
         THEN step' = "lockLocal" /\ UNCHANGED screen
         ELSE screen' = "plain" /\ UNCHANGED step
    /\ UNCHANGED <<window, streaming, box, at, leaving, callVars, rendererVars, imageVars,
                   feed, crashed>>

LockLocal ==
    /\ ~crashed /\ step = "lockLocal"
    /\ owner[local_renderer] = None
    /\ Lock(local_renderer, "ui")
    /\ step' = "lockRemote"
    /\ UNCHANGED <<window, streaming, box, at, leaving, callVars, rendererVars, bmi, image,
                   feed, paintVars, crashed>>

LockRemote ==
    /\ ~crashed /\ step = "lockRemote"
    /\ owner[remote_renderer] = None
    /\ Lock(remote_renderer, "ui")
    /\ step' = "draw"
    /\ UNCHANGED <<window, streaming, box, at, leaving, callVars, rendererVars, bmi, image,
                   feed, paintVars, crashed>>

\* Mutant of Draw: one lock is kept.
DrawLocked ==
    /\ ~crashed /\ step = "draw"
    /\ screen' = IF image[remote_renderer] = None THEN "connecting"
                                                  ELSE image[remote_renderer]
    /\ owner' = [owner EXCEPT ![remote_renderer] = None]
    /\ step' = "idle"
    /\ UNCHANGED <<window, streaming, box, at, leaving, callVars, rendererVars, bmi, image,
                   feed, dirty, crashed>>

\* The pictures are drawn and both locks released.
Draw ==
    /\ ~crashed /\ step = "draw"
    /\ screen' = IF image[remote_renderer] = None THEN "connecting"
                                                  ELSE image[remote_renderer]
    /\ owner' = [owner EXCEPT ![local_renderer] = None, ![remote_renderer] = None]
    /\ step' = "idle"
    /\ UNCHANGED <<window, streaming, box, at, leaving, callVars, rendererVars, bmi, image,
                   feed, dirty, crashed>>

-----------------------------------------------------------------------------
(* The thread of track t.                                                  *)

\* The broadcaster delivers a frame, under its lock, to one sink after the other.
DeliverFrame(t) ==
    /\ ~crashed
    /\ t \in live /\ ~Delivering(t)
    /\ \E size \in Sizes, r \in sinks[t] :
        feed' = [feed EXCEPT ![t] = [at |-> "enter", size |-> size, to |-> r,
                                     rest |-> sinks[t] \ {r}]]
    /\ UNCHANGED <<uiVars, callVars, rendererVars, imageVars, paintVars, crashed>>

\* Mutant of LockAndSetSize: the lock is not waited for.
SetSizeUnlocked(t) ==
    /\ ~crashed
    /\ feed[t].at = "enter"
    /\ LET r == feed[t].to IN
        /\ Lock(r, t)
        /\ bmi' = [bmi EXCEPT ![r] = feed[t].size]
    /\ feed' = [feed EXCEPT ![t].at = "resized"]
    /\ UNCHANGED <<uiVars, callVars, rendererVars, image, paintVars, crashed>>

\* OnFrame() and SetSize() up to the new bmi_.  SetSize() never returns early: bmi_ holds
\* the height negated, so that it never equals the height of a frame.
LockAndSetSize(t) ==
    /\ ~crashed
    /\ feed[t].at = "enter"
    /\ LET r == feed[t].to IN
        /\ owner[r] = None
        /\ Lock(r, t)
        /\ bmi' = [bmi EXCEPT ![r] = feed[t].size]
    /\ feed' = [feed EXCEPT ![t].at = "resized"]
    /\ UNCHANGED <<uiVars, callVars, rendererVars, image, paintVars, crashed>>

\* The new image_ of every frame, the picture in it, and the end of the lock.
Convert(t) ==
    /\ ~crashed
    /\ feed[t].at = "resized"
    /\ LET r == feed[t].to IN
        /\ image' = [image EXCEPT ![r] = feed[t].size]
        /\ Lock(r, None)
    /\ feed' = [feed EXCEPT ![t].at = "drawn"]
    /\ UNCHANGED <<uiVars, callVars, rendererVars, bmi, paintVars, crashed>>

\* Mutant of Invalidate: the frame is kept when it has been delivered.
KeepFrame(t) ==
    /\ ~crashed
    /\ feed[t].at = "drawn"
    /\ dirty' = TRUE
    /\ feed' = [feed EXCEPT ![t].at = "idle"]
    /\ UNCHANGED <<uiVars, callVars, rendererVars, imageVars, screen, crashed>>

\* Mutant of Invalidate: only the first picture asks for painting, as if SetSize() did it.
InvalidateOnce(t) ==
    /\ ~crashed
    /\ feed[t].at = "drawn"
    /\ dirty' = (dirty \/ screen \in {"plain", "connecting"})
    /\ \/ feed[t].rest = {} /\ feed' = [feed EXCEPT ![t] = NoFrame]
       \/ \E r \in feed[t].rest :
            feed' = [feed EXCEPT ![t].at = "enter", ![t].to = r, ![t].rest = @ \ {r}]
    /\ UNCHANGED <<uiVars, callVars, rendererVars, imageVars, screen, crashed>>

\* InvalidateRect(), and on to the next sink.
Invalidate(t) ==
    /\ ~crashed
    /\ feed[t].at = "drawn"
    /\ dirty' = TRUE
    /\ \/ feed[t].rest = {} /\ feed' = [feed EXCEPT ![t] = NoFrame]
       \/ \E r \in feed[t].rest :
            feed' = [feed EXCEPT ![t].at = "enter", ![t].to = r, ![t].rest = @ \ {r}]
    /\ UNCHANGED <<uiVars, callVars, rendererVars, imageVars, screen, crashed>>

-----------------------------------------------------------------------------
Halted == crashed /\ UNCHANGED vars

Handler ==
    \/ StartLocalRenderer \/ StartRemoteRenderer \/ DeleteOldRenderer
    \/ StopLocalRenderer \/ StopRemoteRenderer
    \/ LockLocal \/ LockRemote \/ Draw

Event ==
    \/ StartConversation \/ OnAddTrack \/ OnRemoveTrack \/ UIThreadCallback
    \/ EndConversation
    \/ OnDefaultAction \/ DismissBox \/ LoseThreadMessage
    \/ BeginPaint

OnFrame(t) == LockAndSetSize(t) \/ Convert(t) \/ Invalidate(t)

Next ==
    \/ Handler
    \/ Event
    \/ \E t \in Tracks : DeliverFrame(t) \/ OnFrame(t)
    \/ Halted

Spec == Init /\ [][Next]_vars

\* All threads go on.  A frame comes now and then only, so that the UI thread gets the
\* locks; it takes every message in the end.
Fairness ==
    /\ SF_vars(Handler)
    /\ SF_vars(UIThreadCallback)
    /\ \A t \in Tracks : WF_vars(OnFrame(t))

FairSpec == Spec /\ Fairness

-----------------------------------------------------------------------------
(* Properties.                                                             *)

\* A frame is delivered only to a renderer that exists, is complete and renders that
\* track: its destructor waits for a delivery under way.
FramesReachRenderers ==
    \A t \in Tracks : Delivering(t) => rendered[feed[t].to] = t

\* A renderer never outlives the factory of its track, whose thread its destructor calls,
\* whichever handler ends the conversation and whatever messages are left behind.
RendererOfLiveTrack == \A r \in Renderers : rendered[r] # None => rendered[r] \in live

\* While OnPaint() draws, every bmi_ it reads is that of the picture it reads; a picture
\* that is not there has the size one by one, of which no pixel is drawn.
PaintReadsPictures ==
    step = "draw" =>
        \A r \in {local_renderer, remote_renderer} :
            IF image[r] = None THEN bmi[r] = OneByOne ELSE bmi[r] = image[r]

\* A window that streams and need not be painted shows the last picture of the other
\* side: no frame gets lost between BeginPaint() and the lock.
ShownIsCurrent ==
    /\ step = "idle" /\ window /\ streaming /\ ~dirty
    /\ local_renderer # None /\ remote_renderer # None
    /\ image[remote_renderer] # None
    /\ feed[rendered[remote_renderer]].at # "drawn"
    => screen = image[remote_renderer]

\* Liveness.  No handler waits for ever, neither for the frame threads nor for a lock it
\* holds itself.
HandlersReturn == step # "idle" ~> step = "idle" \/ crashed

\* Liveness.  A video track that is announced gets the renderer of the other side, unless
\* the conversation ends or a message box throws the message away.
AnnouncedIsRendered ==
    \A t \in Tracks :
        (\E i \in DOMAIN queue : queue[i] = [id |-> "NEW_TRACK_ADDED", track |-> t])
          ~> \/ remote_renderer # None /\ rendered[remote_renderer] = t
             \/ box \/ ~pc \/ crashed
=============================================================================
