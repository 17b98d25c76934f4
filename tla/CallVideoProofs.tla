---------------------------- MODULE CallVideoProofs ----------------------------
(***************************************************************************)
(* Proofs about CallVideo, for any renderers, tracks, sizes and bound.     *)
(* The invariant IInv says whose each renderer is, who is served and who   *)
(* holds which lock; the safety properties follow from it.                 *)
(***************************************************************************)
EXTENDS CallVideo, TLAPS

-----------------------------------------------------------------------------
(* The invariant.                                                          *)

\* OnPaint() is between BeginPaint() and its end.
Painting == step \in {"lockLocal", "lockRemote", "draw"}

\* A renderer is being made that is no sink yet.
Making == step \in {"startLocal", "startRemote"}

\* The renderers that exist are those of the window and the one under way, all different.
Objects ==
    /\ at # None <=> Making \/ step = "deleteOld"
    /\ at # None => at # local_renderer /\ at # remote_renderer
    /\ local_renderer # None => local_renderer # remote_renderer
    /\ \A r \in Renderers :
        rendered[r] # None <=> r \in {local_renderer, remote_renderer, at}
    /\ step \in {"startLocal", "stopRemote"} => local_renderer = None
    /\ Painting => local_renderer # None /\ remote_renderer # None

\* Without a conversation no track is alive.
Alive == RendererOfLiveTrack /\ (~pc => live = {})

\* A sink is a sink of the track it renders, complete, and stays while it is served.
Served ==
    /\ \A t \in Tracks : \A r \in sinks[t] : rendered[r] = t
    /\ Making => \A t \in Tracks : at \notin sinks[t]
    /\ \A t \in Tracks : Delivering(t) =>
          feed[t].to \in sinks[t] /\ feed[t].rest \subseteq sinks[t]

\* Who holds the lock of a renderer.
Locks ==
    /\ \A r \in Renderers, t \in Tracks :
        owner[r] = t <=> feed[t].at = "resized" /\ feed[t].to = r
    /\ \A r \in Renderers :
        owner[r] = "ui" <=> \/ step \in {"lockRemote", "draw"} /\ r = local_renderer
                            \/ step = "draw" /\ r = remote_renderer

\* Unless a frame is being written, bmi_ is that of the picture.
Pictures ==
    /\ \A t \in Tracks : feed[t].at = "resized" => bmi[feed[t].to] = feed[t].size
    /\ \A r \in Renderers : owner[r] \notin Tracks =>
        bmi[r] = IF image[r] = None THEN OneByOne ELSE image[r]
    /\ \A r \in Renderers : rendered[r] = None => image[r] = None
    /\ Making => image[at] = None

\* ShownIsCurrent, at every place but between BeginPaint() and the end of OnPaint().
Shown ==
    /\ ~Painting /\ window /\ streaming /\ ~dirty
    /\ local_renderer # None /\ remote_renderer # None
    /\ image[remote_renderer] # None
    /\ feed[rendered[remote_renderer]].at # "drawn"
    => screen = image[remote_renderer]

IInv == TypeOK /\ Objects /\ Alive /\ Served /\ Locks /\ Pictures /\ Shown

-----------------------------------------------------------------------------
(* What the steps have in common.                                          *)

\* A message more, and one less, in a queue.
LEMMA Appended ==
  ASSUME NEW q \in Seq(Messages), NEW m \in Messages, Len(q) < MaxQueue
  PROVE  Append(q, m) \in Seq(Messages) /\ Len(Append(q, m)) <= MaxQueue
  BY MaxQueueAssumption

LEMMA Taken ==
  ASSUME NEW q \in Seq(Messages), q # <<>>, Len(q) <= MaxQueue
  PROVE  Tail(q) \in Seq(Messages) /\ Len(Tail(q)) <= MaxQueue
  BY MaxQueueAssumption

\* Between the handlers a free name is nobody's.
LEMMA Free ==
  ASSUME IInv, Idle, NEW r \in FreeRenderers
  PROVE  r \in Renderers /\ at = None /\ r # local_renderer /\ r # remote_renderer
  BY NoneAssumption DEF IInv, Idle, FreeRenderers, Objects, Making

\* A renderer under construction is one more object, and the only one under way.
LEMMA RendererMade ==
  ASSUME IInv, Idle, NEW r \in FreeRenderers, NEW t \in Tracks, NewRenderer(r, t),
         step' \in {"startLocal", "startRemote"}, step' = "startLocal" => ~pc,
         UNCHANGED <<local_renderer, remote_renderer>>
  PROVE  Objects'
<1>1. /\ rendered'[r] = t /\ at' = r
      /\ \A s \in Renderers \ {r} : rendered'[s] = rendered[s]
  BY Free DEF NewRenderer, IInv, TypeOK, RendererTypes
<1>2. ~pc => local_renderer = None
  BY NoneAssumption DEF IInv, Objects, Alive, RendererOfLiveTrack, TypeOK, RendererTypes
<1> QED
  BY <1>1, <1>2, Free, NoneAssumption
     DEF IInv, Objects, Making, Painting, TypeOK, RendererTypes, Idle

\* A delivery under way has a frame and its sinks.
LEMMA Frame ==
  ASSUME FeedTypes, NEW t \in Tracks, Delivering(t)
  PROVE  feed[t] \in [at : {"enter", "resized", "drawn"}, size : Sizes,
                      to : Renderers, rest : SUBSET Renderers]
  BY DEF FeedTypes, Feeds, NoFrame, Delivering

-----------------------------------------------------------------------------
(* One lemma for each handler of the UI thread and each step of a frame.    *)

\* With a camera the constructor of the local renderer is under way.
LEMMA StartConversationKeeps == IInv /\ StartConversation => IInv'
<1> SUFFICES ASSUME IInv, StartConversation PROVE IInv'
  OBVIOUS
<1> USE DEF IInv, TypeOK, StartConversation, Idle, imageVars, NewRenderer
<1>1. ASSUME NEW t \in FreeTracks, NEW r \in FreeRenderers, live' = live \cup {t},
            NewRenderer(r, t), step' = "startLocal", UNCHANGED <<streaming, dirty>>
     PROVE  IInv'
  <2>1. TypeOK'
    <3>1. UITypes'
      BY <1>1 DEF UITypes, Steps, FreeRenderers
    <3>2. CallTypes'
      BY <1>1 DEF CallTypes, FreeTracks
    <3>3. RendererTypes'
      BY <1>1 DEF RendererTypes, FreeTracks
    <3> QED
      BY <1>1, <3>1, <3>2, <3>3 DEF ImageTypes, FeedTypes, PaintTypes
  <2>2. Objects'
    BY <1>1, RendererMade DEF FreeTracks, Idle
  <2>3. Alive'
    BY <1>1 DEF Alive, RendererOfLiveTrack
  <2>4. Served'
    BY <1>1 DEF Served, Delivering, FreeRenderers
  <2>5. Locks'
    BY <1>1 DEF Locks
  <2>6. Pictures'
    BY <1>1 DEF Pictures, FreeRenderers
  <2>7. Shown'
    BY <1>1 DEF Objects, Shown, Painting, FreeRenderers
  <2> QED
    BY <2>1, <2>2, <2>3, <2>4, <2>5, <2>6, <2>7
<1>2. ASSUME streaming' = TRUE, dirty' = TRUE, UNCHANGED <<live, step, at, rendered>>
     PROVE  IInv'
  <2>1. TypeOK'
    <3>1. UITypes'
      BY <1>2 DEF UITypes
    <3>2. CallTypes'
      BY <1>2 DEF CallTypes
    <3>3. PaintTypes'
      BY <1>2 DEF PaintTypes
    <3> QED
      BY <1>2, <3>1, <3>2, <3>3 DEF RendererTypes, ImageTypes, FeedTypes
  <2>2. Alive'
    BY <1>2 DEF Alive, RendererOfLiveTrack
  <2>3. Shown'
    BY <1>2 DEF Shown
  <2>4. Objects' /\ Served' /\ Locks' /\ Pictures'
    BY <1>2 DEF Objects, Making, Painting, Served, Delivering, Locks, Pictures
  <2> QED
    BY <2>1, <2>2, <2>3, <2>4
<1> QED
  BY <1>1, <1>2

\* It becomes a sink of the camera's track and the window's local renderer.
LEMMA StartLocalRendererKeeps == IInv /\ StartLocalRenderer => IInv'
<1> SUFFICES ASSUME IInv, StartLocalRenderer PROVE IInv'
  OBVIOUS
<1> USE DEF IInv, TypeOK, StartLocalRenderer, callVars, imageVars, AddSink
<1>1. TypeOK'
  <2>1. UITypes'
    BY DEF UITypes, Steps
  <2>2. RendererTypes'
    BY DEF RendererTypes, UITypes, Objects, Making
  <2>3. PaintTypes'
    BY DEF PaintTypes
  <2> QED
    BY <2>1, <2>2, <2>3 DEF CallTypes, ImageTypes, FeedTypes
<1>2. Objects'
  BY DEF Objects, Painting, Making
<1>3. Served'
  BY DEF Served, Making, Delivering
<1>4. Locks'
  BY DEF Locks
<1>5. Pictures'
  BY DEF Pictures, Making
<1>6. Shown'
  BY DEF Shown
<1>7. Alive'
  BY DEF Alive, RendererOfLiveTrack
<1> QED
  BY <1>1, <1>2, <1>3, <1>4, <1>5, <1>6, <1>7

\* The message that carries the track is one more.
LEMMA OnAddTrackKeeps == IInv /\ OnAddTrack => IInv'
<1> SUFFICES ASSUME IInv, OnAddTrack PROVE IInv'
  OBVIOUS
<1> USE DEF IInv, TypeOK, OnAddTrack, Idle, uiVars, rendererVars, imageVars,
           paintVars
<1>1. TypeOK'
  <2>1. CallTypes'
    BY Appended DEF CallTypes, Messages, FreeTracks
  <2> QED
    BY <2>1 DEF UITypes, RendererTypes, ImageTypes, FeedTypes, PaintTypes
<1>2. Alive'
  BY DEF Alive, RendererOfLiveTrack
<1>3. Objects' /\ Served' /\ Locks' /\ Pictures' /\ Shown'
  BY DEF Objects, Making, Painting, Served, Delivering, Locks, Pictures, Shown
<1> QED
  BY <1>1, <1>2, <1>3

\* Likewise.
LEMMA OnRemoveTrackKeeps == IInv /\ OnRemoveTrack => IInv'
<1> SUFFICES ASSUME IInv, OnRemoveTrack PROVE IInv'
  OBVIOUS
<1> USE DEF IInv, TypeOK, OnRemoveTrack, Idle, uiVars, rendererVars, imageVars,
           paintVars
<1>1. TypeOK'
  <2>1. CallTypes'
    BY Appended DEF CallTypes, Messages
  <2> QED
    BY <2>1 DEF UITypes, RendererTypes, ImageTypes, FeedTypes, PaintTypes
<1>2. Objects' /\ Alive' /\ Served' /\ Locks' /\ Pictures' /\ Shown'
  BY DEF Objects, Making, Painting, Alive, RendererOfLiveTrack, Served, Delivering,
     Locks, Pictures, Shown
<1> QED
  BY <1>1, <1>2

\* A track that is alive gets a renderer; other messages change nothing else.
LEMMA UIThreadCallbackKeeps == IInv /\ UIThreadCallback => IInv'
<1> SUFFICES ASSUME IInv, UIThreadCallback PROVE IInv'
  OBVIOUS
<1> USE DEF IInv, TypeOK, UIThreadCallback, Idle, imageVars, paintVars, NewRenderer
<1>1. CASE UNCHANGED <<step, at, rendered>>
  <2>1. TypeOK'
    <3>1. CallTypes'
      BY <1>1, Taken DEF CallTypes
    <3>2. PaintTypes'
      BY <1>1 DEF PaintTypes
    <3> QED
      BY <1>1, <3>1, <3>2 DEF UITypes, RendererTypes, ImageTypes, FeedTypes
  <2>2. Objects' /\ Alive' /\ Served' /\ Locks' /\ Pictures' /\ Shown'
    BY <1>1 DEF Objects, Making, Painting, Alive, RendererOfLiveTrack, Served,
       Delivering, Locks, Pictures, Shown
  <2> QED
    BY <2>1, <2>2
<1>2. ASSUME Head(queue).track \in live, NEW r \in FreeRenderers,
            NewRenderer(r, Head(queue).track), step' = "startRemote", UNCHANGED crashed
     PROVE  IInv'
  <2>1. TypeOK'
    <3>1. UITypes'
      BY <1>2 DEF UITypes, Steps, FreeRenderers
    <3>2. CallTypes'
      BY <1>2, Taken DEF CallTypes
    <3>3. RendererTypes'
      BY <1>2 DEF RendererTypes, CallTypes
    <3> QED
      BY <1>2, <3>1, <3>2, <3>3 DEF ImageTypes, FeedTypes, PaintTypes
  <2>2. Objects'
    BY <1>2, RendererMade DEF CallTypes, Idle
  <2>3. Alive'
    BY <1>2 DEF Alive, RendererOfLiveTrack
  <2>4. Served'
    BY <1>2 DEF Served, Delivering, FreeRenderers
  <2>5. Locks'
    BY <1>2 DEF Locks
  <2>6. Pictures'
    BY <1>2 DEF Pictures, FreeRenderers
  <2>7. Shown'
    BY <1>2 DEF Objects, Shown, Painting, FreeRenderers
  <2> QED
    BY <2>1, <2>2, <2>3, <2>4, <2>5, <2>6, <2>7
<1> QED
  BY <1>1, <1>2

\* The new renderer takes the place of the old one, which nobody else knows.
LEMMA StartRemoteRendererKeeps == IInv /\ StartRemoteRenderer => IInv'
<1> SUFFICES ASSUME IInv, StartRemoteRenderer PROVE IInv'
  OBVIOUS
<1> USE DEF IInv, TypeOK, StartRemoteRenderer, callVars, imageVars, paintVars, AddSink
<1>1. TypeOK'
  <2>1. UITypes'
    BY DEF UITypes, Steps, RendererTypes
  <2>2. RendererTypes'
    BY DEF RendererTypes, UITypes, Objects, Making
  <2> QED
    BY <2>1, <2>2 DEF CallTypes, ImageTypes, FeedTypes, PaintTypes
<1>2. Objects'
  BY DEF Objects, Painting, Making
<1>3. Served'
  BY DEF Served, Making, Delivering
<1>4. Locks'
  BY DEF Locks
<1>5. Pictures'
  BY DEF Pictures, Making
<1>6. Shown'
  BY DEF Objects, Pictures, Shown
<1>7. Alive'
  BY DEF Alive, RendererOfLiveTrack
<1> QED
  BY <1>1, <1>2, <1>3, <1>4, <1>5, <1>6, <1>7

\* Nothing is delivered to the old renderer, and nobody holds its lock.
LEMMA DeleteOldRendererKeeps == IInv /\ DeleteOldRenderer => IInv'
<1> SUFFICES ASSUME IInv, DeleteOldRenderer PROVE IInv'
  OBVIOUS
<1> USE DEF IInv, TypeOK, DeleteOldRenderer, callVars, paintVars, DeleteRenderer, Forget
<1>1. TypeOK'
  <2>1. UITypes'
    BY DEF UITypes, Steps
  <2>2. RendererTypes'
    BY DEF RendererTypes
  <2>3. ImageTypes'
    BY DEF ImageTypes
  <2> QED
    BY <2>1, <2>2, <2>3 DEF CallTypes, FeedTypes, PaintTypes
<1>2. Objects'
  BY NoneAssumption DEF RendererTypes, Objects, Painting, Making
<1>3. Alive'
  BY DEF Alive, RendererOfLiveTrack
<1>4. Served'
  BY NoneAssumption DEF RendererTypes, Served, Delivering
<1>5. Locks'
  BY DEF Locks
<1>6. Pictures'
  BY DEF ImageTypes, Served, Pictures, Making, Delivering
<1>7. Shown'
  BY DEF RendererTypes, ImageTypes, Shown, Painting
<1> QED
  BY <1>1, <1>2, <1>3, <1>4, <1>5, <1>6, <1>7

\* Only the place of the UI thread changes.
LEMMA EndConversationKeeps == IInv /\ EndConversation => IInv'
<1> SUFFICES ASSUME IInv, EndConversation PROVE IInv'
  OBVIOUS
<1> USE DEF IInv, TypeOK, EndConversation, Idle, callVars, rendererVars, imageVars,
           paintVars
<1>1. TypeOK'
  <2>1. UITypes'
    BY DEF UITypes, Steps
  <2> QED
    BY <2>1 DEF CallTypes, RendererTypes, ImageTypes, FeedTypes, PaintTypes
<1>2. Objects'
  BY DEF Objects, Painting, Making
<1>3. Served'
  BY DEF Served, Making, Delivering
<1>4. Locks'
  BY DEF Locks
<1>5. Pictures'
  BY DEF Pictures, Making
<1>6. Shown'
  BY DEF Shown, Painting
<1>7. Alive'
  BY DEF Alive, RendererOfLiveTrack
<1> QED
  BY <1>1, <1>2, <1>3, <1>4, <1>5, <1>6, <1>7

\* The local renderer goes, if there is one.
LEMMA StopLocalRendererKeeps == IInv /\ StopLocalRenderer => IInv'
<1> SUFFICES ASSUME IInv, StopLocalRenderer PROVE IInv'
  OBVIOUS
<1> USE DEF IInv, TypeOK, StopLocalRenderer, callVars, paintVars, DeleteRenderer, Forget
<1>1. CASE local_renderer = None
  <2>1. TypeOK'
    <3>1. UITypes'
      BY <1>1 DEF UITypes, Steps
    <3>2. RendererTypes'
      BY <1>1 DEF RendererTypes
    <3> QED
      BY <1>1, <3>1, <3>2 DEF CallTypes, ImageTypes, FeedTypes, PaintTypes
  <2>2. Objects'
    BY <1>1 DEF Objects, Painting, Making
  <2>3. Served'
    BY <1>1 DEF Served, Making, Delivering
  <2>4. Locks'
    BY <1>1 DEF Locks
  <2>5. Pictures'
    BY <1>1 DEF Pictures, Making
  <2>6. Shown'
    BY <1>1 DEF Shown
  <2>7. Alive'
    BY <1>1 DEF Alive, RendererOfLiveTrack
  <2> QED
    BY <2>1, <2>2, <2>3, <2>4, <2>5, <2>6, <2>7
<1>2. CASE local_renderer # None
  <2>1. TypeOK'
    <3>1. UITypes'
      BY <1>2 DEF UITypes, Steps
    <3>2. RendererTypes'
      BY <1>2 DEF RendererTypes
    <3>3. ImageTypes'
      BY <1>2 DEF ImageTypes
    <3> QED
      BY <1>2, <3>1, <3>2, <3>3 DEF CallTypes, FeedTypes, PaintTypes
  <2>2. Objects'
    BY <1>2 DEF RendererTypes, Objects, Painting, Making
  <2>3. Alive'
    BY <1>2 DEF RendererTypes, Alive, RendererOfLiveTrack
  <2>4. Served'
    BY <1>2 DEF RendererTypes, Served, Making, Delivering
  <2>5. Locks'
    BY <1>2 DEF Locks
  <2>6. Pictures'
    BY <1>2 DEF RendererTypes, ImageTypes, Served, Pictures, Making, Delivering
  <2>7. Shown'
    BY <1>2 DEF Shown
  <2> QED
    BY <2>1, <2>2, <2>3, <2>4, <2>5, <2>6, <2>7
<1> QED
  BY <1>1, <1>2

\* The remote renderer goes, and with it the last renderer, before the tracks.
LEMMA StopRemoteRendererKeeps == IInv /\ StopRemoteRenderer => IInv'
<1> SUFFICES ASSUME IInv, StopRemoteRenderer PROVE IInv'
  OBVIOUS
<1> USE DEF IInv, TypeOK, StopRemoteRenderer, DeleteRenderer, Forget, Leave
<1>1. CASE remote_renderer = None
  <2>1. TypeOK'
    <3>1. UITypes'
      BY <1>1 DEF UITypes, Steps
    <3>2. CallTypes'
      BY <1>1 DEF CallTypes
    <3>3. RendererTypes'
      BY <1>1 DEF RendererTypes
    <3>4. PaintTypes'
      BY <1>1 DEF PaintTypes
    <3> QED
      BY <1>1, <3>1, <3>2, <3>3, <3>4 DEF ImageTypes, FeedTypes
  <2>2. Objects'
    BY <1>1 DEF Objects, Painting, Making
  <2>3. Alive'
    BY <1>1, NoneAssumption DEF Objects, Alive, RendererOfLiveTrack, Making
  <2>4. Served'
    BY <1>1 DEF Served, Making, Delivering
  <2>5. Locks'
    BY <1>1 DEF Locks
  <2>6. Pictures'
    BY <1>1 DEF Pictures, Making
  <2>7. Shown'
    BY <1>1 DEF Shown
  <2> QED
    BY <2>1, <2>2, <2>3, <2>4, <2>5, <2>6, <2>7
<1>2. CASE remote_renderer # None
  <2>1. TypeOK'
    <3>1. UITypes'
      BY <1>2 DEF UITypes, Steps
    <3>2. CallTypes'
      BY <1>2 DEF CallTypes
    <3>3. RendererTypes'
      BY <1>2 DEF RendererTypes
    <3>4. ImageTypes'
      BY <1>2 DEF ImageTypes
    <3>5. PaintTypes'
      BY <1>2 DEF PaintTypes
    <3> QED
      BY <1>2, <3>1, <3>2, <3>3, <3>4, <3>5 DEF FeedTypes
  <2>2. Objects'
    BY <1>2 DEF RendererTypes, Objects, Painting, Making
  <2>3. Alive'
    BY <1>2, NoneAssumption DEF RendererTypes, Objects, Alive, RendererOfLiveTrack,
       Making
  <2>4. Served'
    BY <1>2 DEF RendererTypes, Served, Making, Delivering
  <2>5. Locks'
    BY <1>2 DEF Locks
  <2>6. Pictures'
    BY <1>2 DEF RendererTypes, ImageTypes, Served, Pictures, Making, Delivering
  <2>7. Shown'
    BY <1>2 DEF Shown
  <2> QED
    BY <2>1, <2>2, <2>3, <2>4, <2>5, <2>6, <2>7
<1> QED
  BY <1>1, <1>2

\* Message boxes change nothing that the invariant is about.
LEMMA OnDefaultActionKeeps == IInv /\ OnDefaultAction => IInv'
<1> SUFFICES ASSUME IInv, OnDefaultAction PROVE IInv'
  OBVIOUS
<1> USE DEF IInv, TypeOK, OnDefaultAction, Idle, callVars, rendererVars, imageVars,
           paintVars
<1>1. TypeOK'
  <2>1. UITypes'
    BY DEF UITypes
  <2> QED
    BY <2>1 DEF CallTypes, RendererTypes, ImageTypes, FeedTypes, PaintTypes
<1>2. Objects' /\ Alive' /\ Served' /\ Locks' /\ Pictures' /\ Shown'
  BY DEF Objects, Making, Painting, Alive, RendererOfLiveTrack, Served, Delivering,
     Locks, Pictures, Shown
<1> QED
  BY <1>1, <1>2

\* Likewise.
LEMMA DismissBoxKeeps == IInv /\ DismissBox => IInv'
<1> SUFFICES ASSUME IInv, DismissBox PROVE IInv'
  OBVIOUS
<1> USE DEF IInv, TypeOK, DismissBox, Idle, callVars, rendererVars, imageVars,
           paintVars
<1>1. TypeOK'
  <2>1. UITypes'
    BY DEF UITypes
  <2> QED
    BY <2>1 DEF CallTypes, RendererTypes, ImageTypes, FeedTypes, PaintTypes
<1>2. Objects' /\ Alive' /\ Served' /\ Locks' /\ Pictures' /\ Shown'
  BY DEF Objects, Making, Painting, Alive, RendererOfLiveTrack, Served, Delivering,
     Locks, Pictures, Shown
<1> QED
  BY <1>1, <1>2

\* One message less.
LEMMA LoseThreadMessageKeeps == IInv /\ LoseThreadMessage => IInv'
<1> SUFFICES ASSUME IInv, LoseThreadMessage PROVE IInv'
  OBVIOUS
<1> USE DEF IInv, TypeOK, LoseThreadMessage, Idle, uiVars, rendererVars, imageVars,
           paintVars
<1>1. TypeOK'
  <2>1. CallTypes'
    BY Taken DEF CallTypes
  <2> QED
    BY <2>1 DEF UITypes, RendererTypes, ImageTypes, FeedTypes, PaintTypes
<1>2. Objects' /\ Alive' /\ Served' /\ Locks' /\ Pictures' /\ Shown'
  BY DEF Objects, Making, Painting, Alive, RendererOfLiveTrack, Served, Delivering,
     Locks, Pictures, Shown
<1> QED
  BY <1>1, <1>2

\* Only a window that streams with two renderers has to show a picture.
LEMMA BeginPaintKeeps == IInv /\ BeginPaint => IInv'
<1> SUFFICES ASSUME IInv, BeginPaint PROVE IInv'
  OBVIOUS
<1> USE DEF IInv, TypeOK, BeginPaint, Idle, callVars, rendererVars, imageVars
<1>1. CASE streaming /\ local_renderer # None /\ remote_renderer # None
  <2>1. TypeOK'
    <3>1. UITypes'
      BY <1>1 DEF UITypes, Steps
    <3>2. PaintTypes'
      BY <1>1 DEF PaintTypes
    <3> QED
      BY <1>1, <3>1, <3>2 DEF CallTypes, RendererTypes, ImageTypes, FeedTypes
  <2>2. Objects'
    BY <1>1 DEF Objects, Making
  <2>3. Served'
    BY <1>1 DEF Served, Making, Delivering
  <2>4. Locks'
    BY <1>1 DEF Locks
  <2>5. Pictures'
    BY <1>1 DEF Pictures, Making
  <2>6. Shown'
    BY <1>1 DEF Shown, Painting
  <2>7. Alive'
    BY <1>1 DEF Alive, RendererOfLiveTrack
  <2> QED
    BY <2>1, <2>2, <2>3, <2>4, <2>5, <2>6, <2>7
<1>2. CASE ~(streaming /\ local_renderer # None /\ remote_renderer # None)
  <2>1. TypeOK'
    <3>1. PaintTypes'
      BY <1>2 DEF PaintTypes
    <3> QED
      BY <1>2, <3>1 DEF UITypes, CallTypes, RendererTypes, ImageTypes, FeedTypes
  <2>2. Shown'
    BY <1>2 DEF Shown
  <2>3. Objects' /\ Alive' /\ Served' /\ Locks' /\ Pictures'
    BY <1>2 DEF Objects, Making, Painting, Alive, RendererOfLiveTrack, Served,
       Delivering, Locks, Pictures
  <2> QED
    BY <2>1, <2>2, <2>3
<1> QED
  BY <1>1, <1>2

\* A lock that is free is taken by the UI thread.
LEMMA LockLocalKeeps == IInv /\ LockLocal => IInv'
<1> SUFFICES ASSUME IInv, LockLocal PROVE IInv'
  OBVIOUS
<1> USE DEF IInv, TypeOK, LockLocal, callVars, rendererVars, paintVars, Lock
<1>1. TypeOK'
  <2>1. UITypes'
    BY DEF UITypes, Steps
  <2>2. ImageTypes'
    BY DEF ImageTypes
  <2> QED
    BY <2>1, <2>2 DEF CallTypes, RendererTypes, FeedTypes, PaintTypes
<1>2. Objects'
  BY DEF Objects, Painting, Making
<1>3. Served'
  BY DEF Served, Making, Delivering
<1>4. Locks'
  BY NoneAssumption, UIAssumption DEF ImageTypes, Locks
<1>5. Pictures'
  BY NoneAssumption DEF Pictures, Making
<1>6. Shown'
  BY DEF Shown, Painting
<1>7. Alive'
  BY DEF Alive, RendererOfLiveTrack
<1> QED
  BY <1>1, <1>2, <1>3, <1>4, <1>5, <1>6, <1>7

\* Likewise; then neither renderer is being written.
LEMMA LockRemoteKeeps == IInv /\ LockRemote => IInv'
<1> SUFFICES ASSUME IInv, LockRemote PROVE IInv'
  OBVIOUS
<1> USE DEF IInv, TypeOK, LockRemote, callVars, rendererVars, paintVars, Lock
<1>1. TypeOK'
  <2>1. UITypes'
    BY DEF UITypes, Steps
  <2>2. ImageTypes'
    BY DEF ImageTypes
  <2> QED
    BY <2>1, <2>2 DEF CallTypes, RendererTypes, FeedTypes, PaintTypes
<1>2. Objects'
  BY DEF Objects, Painting, Making
<1>3. Served'
  BY DEF Served, Making, Delivering
<1>4. Locks'
  BY NoneAssumption, UIAssumption DEF ImageTypes, Locks
<1>5. Pictures'
  BY NoneAssumption DEF Pictures, Making
<1>6. Shown'
  BY DEF Shown, Painting
<1>7. Alive'
  BY DEF Alive, RendererOfLiveTrack
<1> QED
  BY <1>1, <1>2, <1>3, <1>4, <1>5, <1>6, <1>7

\* What is painted is the picture of the remote renderer.
LEMMA DrawKeeps == IInv /\ Draw => IInv'
<1> SUFFICES ASSUME IInv, Draw PROVE IInv'
  OBVIOUS
<1> USE DEF IInv, TypeOK, Draw, callVars, rendererVars
<1>1. TypeOK'
  <2>1. UITypes'
    BY DEF UITypes, Steps
  <2>2. ImageTypes'
    BY DEF ImageTypes
  <2>3. PaintTypes'
    BY DEF PaintTypes, ImageTypes, RendererTypes, Objects, Painting
  <2> QED
    BY <2>1, <2>2, <2>3 DEF CallTypes, RendererTypes, FeedTypes
<1>2. Objects'
  BY DEF Objects, Painting, Making
<1>3. Served'
  BY DEF Served, Making, Delivering
<1>4. Locks'
  BY NoneAssumption, UIAssumption DEF ImageTypes, Locks
<1>5. Pictures'
  BY UIAssumption DEF ImageTypes, Locks, Pictures, Making
<1>6. Shown'
  BY DEF Shown
<1>7. Alive'
  BY DEF Alive, RendererOfLiveTrack
<1> QED
  BY <1>1, <1>2, <1>3, <1>4, <1>5, <1>6, <1>7

\* A delivery begins with the sinks there are.
LEMMA DeliverFrameKeeps == IInv /\ (\E t \in Tracks : DeliverFrame(t)) => IInv'
<1> SUFFICES ASSUME IInv, NEW t \in Tracks, DeliverFrame(t) PROVE IInv'
  OBVIOUS
<1> USE DEF IInv, TypeOK, DeliverFrame, uiVars, callVars, rendererVars, imageVars, paintVars
<1>1. TypeOK'
  <2>1. FeedTypes'
    BY DEF FeedTypes, Feeds, RendererTypes
  <2> QED
    BY <2>1 DEF UITypes, CallTypes, RendererTypes, ImageTypes, PaintTypes
<1>2. Served'
  BY DEF Served, Making, Delivering
<1>3. Locks'
  BY DEF Locks, Delivering
<1>4. Pictures'
  BY DEF Pictures, Making
<1>5. Shown'
  BY DEF Shown, Painting, Delivering
<1>6. Objects' /\ Alive'
  BY DEF Objects, Making, Painting, Alive, RendererOfLiveTrack
<1> QED
  BY <1>1, <1>2, <1>3, <1>4, <1>5, <1>6

\* The thread of the track takes the lock and writes bmi_.
LEMMA LockAndSetSizeKeeps == IInv /\ (\E t \in Tracks : LockAndSetSize(t)) => IInv'
<1> SUFFICES ASSUME IInv, NEW t \in Tracks, LockAndSetSize(t) PROVE IInv'
  OBVIOUS
<1> USE DEF IInv, TypeOK, LockAndSetSize, uiVars, callVars, rendererVars, paintVars, Lock
<1>1. TypeOK'
  <2>1. ImageTypes'
    BY DEF ImageTypes, Feeds, NoFrame, FeedTypes
  <2>2. FeedTypes'
    BY DEF FeedTypes, Feeds, NoFrame
  <2> QED
    BY <2>1, <2>2 DEF UITypes, CallTypes, RendererTypes, PaintTypes
<1>2. Served'
  BY DEF Served, Making, Delivering
<1>3. Locks'
  BY NoneAssumption, UIAssumption DEF ImageTypes, FeedTypes, Locks
<1>4. Pictures'
  BY DEF RendererTypes, ImageTypes, Served, Pictures, Making, Delivering
<1>5. Shown'
  BY DEF Shown, Painting
<1>6. Objects' /\ Alive'
  BY DEF Objects, Making, Painting, Alive, RendererOfLiveTrack
<1> QED
  BY <1>1, <1>2, <1>3, <1>4, <1>5, <1>6

\* It writes image_ to fit and releases the lock.
LEMMA ConvertKeeps == IInv /\ (\E t \in Tracks : Convert(t)) => IInv'
<1> SUFFICES ASSUME IInv, NEW t \in Tracks, Convert(t) PROVE IInv'
  OBVIOUS
<1> USE DEF IInv, TypeOK, Convert, uiVars, callVars, rendererVars, paintVars, Lock
<1>1. TypeOK'
  <2>1. ImageTypes'
    BY DEF ImageTypes, Feeds, NoFrame, FeedTypes
  <2>2. FeedTypes'
    BY DEF FeedTypes, Feeds, NoFrame
  <2> QED
    BY <2>1, <2>2 DEF UITypes, CallTypes, RendererTypes, PaintTypes
<1>2. Served'
  BY DEF Served, Making, Delivering
<1>3. Locks'
  BY NoneAssumption, UIAssumption DEF ImageTypes, FeedTypes, Locks
<1>4. Pictures'
  BY NoneAssumption DEF ImageTypes, Served, Pictures, Making, Delivering
<1>5. Shown'
  BY DEF FeedTypes, Served, Shown, Painting, Delivering
<1>6. Objects' /\ Alive'
  BY DEF Objects, Making, Painting, Alive, RendererOfLiveTrack
<1> QED
  BY <1>1, <1>2, <1>3, <1>4, <1>5, <1>6

\* The next sink of the same frame, or the end of the delivery.
LEMMA InvalidateKeeps == IInv /\ (\E t \in Tracks : Invalidate(t)) => IInv'
<1> SUFFICES ASSUME IInv, NEW t \in Tracks, Invalidate(t) PROVE IInv'
  OBVIOUS
<1> USE NoneAssumption, UIAssumption
<1>1. feed[t].at = "drawn" /\ feed[t].to \in sinks[t] /\ feed[t].rest \subseteq sinks[t]
  BY DEF Invalidate, Delivering, IInv, Served
<1>2. feed[t] \in [at : {"enter", "resized", "drawn"}, size : Sizes,
                      to : Renderers, rest : SUBSET Renderers]
  BY <1>1, Frame DEF IInv, TypeOK, Delivering
<1>3. PICK f \in Feeds : /\ feed' = [feed EXCEPT ![t] = f]
                         /\ f.at \in {"idle", "enter"}
                         /\ f.at = "enter" => f.to \in sinks[t] /\ f.rest \subseteq sinks[t]
  <2>1. CASE feed' = [feed EXCEPT ![t] = NoFrame]
    <3>1. NoFrame \in Feeds /\ NoFrame.at = "idle"
      BY DEF Feeds, NoFrame
    <3> QED
      BY <2>1, <3>1
  <2>2. ASSUME NEW r \in feed[t].rest,
               feed' = [feed EXCEPT ![t].at = "enter", ![t].to = r, ![t].rest = @ \ {r}]
        PROVE  \E f \in Feeds :
                 /\ feed' = [feed EXCEPT ![t] = f]
                 /\ f.at \in {"idle", "enter"}
                 /\ f.at = "enter" => f.to \in sinks[t] /\ f.rest \subseteq sinks[t]
    <3> DEFINE next == [feed[t] EXCEPT !.at = "enter", !.to = r, !.rest = @ \ {r}]
    <3>1. feed' = [feed EXCEPT ![t] = next]
      BY <1>2, <2>2 DEF IInv, TypeOK, FeedTypes
    <3>2. next \in Feeds
      BY <1>2 DEF Feeds
    <3>3. next.at = "enter" /\ next.to \in sinks[t] /\ next.rest \subseteq sinks[t]
      BY <1>1, <1>2
    <3> HIDE DEF next
    <3> QED
      BY <3>1, <3>2, <3>3
  <2> QED
    BY <2>1, <2>2 DEF Invalidate
<1>4. feed'[t] = f /\ \A u \in Tracks \ {t} : feed'[u] = feed[u]
  BY <1>3 DEF IInv, TypeOK, FeedTypes
<1> USE DEF Invalidate, uiVars, callVars, rendererVars, imageVars
<1>5. TypeOK'
  BY <1>3 DEF IInv, TypeOK, UITypes, CallTypes, RendererTypes, ImageTypes, FeedTypes,
              PaintTypes
<1>6. Objects' /\ Alive'
  BY DEF IInv, Objects, Alive, RendererOfLiveTrack, Making, Painting
<1>7. Served'
  BY <1>3, <1>4 DEF IInv, Served, Making, Delivering
<1>8. Locks'
  <2>1. ASSUME NEW r \in Renderers, NEW u \in Tracks
        PROVE  owner'[r] = u <=> feed'[u].at = "resized" /\ feed'[u].to = r
    <3>1. owner[r] = u <=> feed[u].at = "resized" /\ feed[u].to = r
      BY DEF IInv, Locks
    <3>3. owner' = owner
      OBVIOUS
    <3>2. feed'[t].at # "resized"
      BY <1>3, <1>4
    <3> QED
      BY <1>1, <1>4, <3>1, <3>2, <3>3
  <2> QED
    BY <2>1 DEF IInv, Locks
<1>9. Pictures' /\ Shown'
  BY <1>3, <1>4 DEF IInv, Pictures, Shown, Making
<1> QED
  BY <1>5, <1>6, <1>7, <1>8, <1>9 DEF IInv

-----------------------------------------------------------------------------
(* The invariant holds.                                                    *)

LEMMA Begins == Init => IInv
<1> SUFFICES ASSUME Init PROVE IInv
  OBVIOUS
<1> USE NoneAssumption, UIAssumption, MaxQueueAssumption DEF Init
<1>1. TypeOK
  <2>1. CallTypes
    <3>1. queue \in Seq(Messages)
      OBVIOUS
    <3>2. Len(queue) <= MaxQueue
      OBVIOUS
    <3>3. live \subseteq Tracks
      OBVIOUS
    <3> QED
      BY <3>1, <3>2, <3>3 DEF CallTypes
  <2>2. FeedTypes
    BY DEF FeedTypes, Feeds
  <2> QED
    BY <2>1, <2>2 DEF TypeOK, UITypes, Steps, RendererTypes, ImageTypes, PaintTypes
<1>2. Objects /\ Alive
  BY DEF Objects, Making, Painting, Alive, RendererOfLiveTrack
<1>3. Served
  BY DEF Served, Making, Delivering, NoFrame
<1>4. Locks
  <2>1. \A t \in Tracks : feed[t].at = "idle"
    BY DEF NoFrame
  <2> QED
    BY <2>1 DEF Locks
<1>5. Pictures /\ Shown
  BY DEF Pictures, Shown, Making, NoFrame
<1> QED
  BY <1>1, <1>2, <1>3, <1>4, <1>5 DEF IInv

LEMMA Stutters == IInv /\ UNCHANGED vars => IInv'
  BY DEF IInv, vars, uiVars, callVars, rendererVars, imageVars, paintVars, TypeOK, UITypes,
         CallTypes, RendererTypes, ImageTypes, FeedTypes, PaintTypes, Objects, Alive,
         RendererOfLiveTrack, Served, Locks, Pictures, Shown, Making, Painting, Delivering

LEMMA Keeps == IInv /\ [Next]_vars => IInv'
<1>1. IInv /\ Handler => IInv'
  BY StartLocalRendererKeeps, StartRemoteRendererKeeps, DeleteOldRendererKeeps,
     StopLocalRendererKeeps, StopRemoteRendererKeeps, LockLocalKeeps, LockRemoteKeeps,
     DrawKeeps DEF Handler
<1>2. IInv /\ Event => IInv'
  BY StartConversationKeeps, OnAddTrackKeeps, OnRemoveTrackKeeps, UIThreadCallbackKeeps,
     EndConversationKeeps, OnDefaultActionKeeps, DismissBoxKeeps, LoseThreadMessageKeeps,
     BeginPaintKeeps DEF Event
<1>3. IInv /\ (\E t \in Tracks : DeliverFrame(t) \/ OnFrame(t)) => IInv'
  BY DeliverFrameKeeps, LockAndSetSizeKeeps, ConvertKeeps, InvalidateKeeps DEF OnFrame
<1> QED
  BY <1>1, <1>2, <1>3, Stutters DEF Next, Halted

THEOREM Invariant == Spec => []IInv
  BY Begins, Keeps, PTL DEF Spec

-----------------------------------------------------------------------------
(* What follows from it.                                                   *)

\* Type correctness of the video of a conversation: every variable keeps its type, so
\* that no handler uses a renderer that is not there.
THEOREM TypeCorrect == Spec => []TypeOK
<1>1. IInv => TypeOK
  BY DEF IInv
<1> QED
  BY <1>1, Invariant, PTL

\* ~VideoRenderer(): a delivery reaches a renderer that exists, is complete and renders
\* that track.
THEOREM DeliveredToRenderers == Spec => []FramesReachRenderers
<1>1. IInv => FramesReachRenderers
  BY DEF IInv, Served, FramesReachRenderers
<1> QED
  BY <1>1, Invariant, PTL

\* DeletePeerConnection(): no renderer outlives the factory of its track.
THEOREM NoRendererLeft == Spec => []RendererOfLiveTrack
<1>1. IInv => RendererOfLiveTrack
  BY DEF IInv, Alive
<1> QED
  BY <1>1, Invariant, PTL

\* OnPaint(): a picture is read whole, with the size it was written with.
THEOREM WholePictures == Spec => []PaintReadsPictures
<1>1. IInv => PaintReadsPictures
  <2> SUFFICES ASSUME IInv, step = "draw", NEW r \in {local_renderer, remote_renderer}
               PROVE  bmi[r] = IF image[r] = None THEN OneByOne ELSE image[r]
    BY DEF PaintReadsPictures
  <2>1. r \in Renderers
    BY DEF IInv, TypeOK, RendererTypes, Objects, Painting
  <2>2. owner[r] = "ui"
    BY <2>1 DEF IInv, Locks
  <2> QED
    BY <2>1, <2>2, UIAssumption DEF IInv, Pictures
<1> QED
  BY <1>1, Invariant, PTL

\* OnPaint() and InvalidateRect(): a window that need not be painted shows the last
\* picture of the other side.
THEOREM LastPictureShown == Spec => []ShownIsCurrent
<1>1. IInv => ShownIsCurrent
  BY DEF IInv, Shown, Painting, ShownIsCurrent
<1> QED
  BY <1>1, Invariant, PTL
=============================================================================
