# A TLA+ specification of PjWebrtc

PjWebrtc is a pair of Windows programs built on WebRTC. The Win32 program
(`src/PjWebrtc`) is the *peerconnection client*: it signs in to a signalling
server over HTTP, shows the other members, and holds a conversation with one of
them. The Qt program (`src/QtWebrtc`) has windows that show the screen or a
camera and exchange session descriptions by hand. Both share no code, except
that some files of the second were copied from the first.

This directory holds the models of those programs, the instances checked with
TLC, and the proofs checked with TLAPS. `PROJECT.json` lists, for every
definition, the lines it stands for.

| module | models | checked by | proved in |
|---|---|---|---|
| `PeerConnectionClient` | the signalling client, `peer_connection_client.cc` | `MCPeerConnectionClient` | `PeerConnectionClientProofs` |
| `SignallingSession` | what that client promises the program that uses it | implemented by `PeerConnectionClient` | `PeerConnectionClientProofs` |
| `HttpResponse` | how that client finds answers in the bytes it receives | `MCHttpResponse` | `HttpResponseProofs` |
| `Conductor` | the whole Win32 program around it: `conductor.cc`, `main_wnd.cc`, `main.cc` | `MCConductor` | `ConductorProofs` |
| `Call` | several such programs that call each other through the server | `MCCall` | `CallProofs`, `CallAgreementProofs` |
| `CallAgreement` | no code: the inductive invariant of `Call` | `MCCall` | `CallAgreementProofs` |
| `CallVideo` | the video of a conversation: tracks, `VideoRenderer`, `OnPaint` | `MCCallVideo` | `CallVideoProofs` |
| `LocalVideo` | the Qt window of the local screen and its capture thread | `MCLocalVideo` | `LocalVideoProofs` |


## 1. Inventory

### 1.1 Signalling client (`PjWebrtc/peer_connection_client.cc`, `.h`)

*State.* `state_` (six values), `my_id_`, `peers_`, `resolver_`, the two sockets
`control_socket_` and `hanging_get_`, the buffers `onconnect_data_`,
`control_data_`, `notification_data_`, and the retry messages posted with
`PostDelayed`.

*Operations.* `Connect`, `SendToPeer`, `SendHangUp`, `SignOut`,
`IsSendingMessage`; the socket events `OnConnect`, `OnRead`, `OnClose`,
`OnHangingGetConnect`, `OnHangingGetRead`; `OnResolveResult`; `OnMessage` (the
retry).

*Interaction.* It calls seven methods of `PeerConnectionClientObserver`, which
the Conductor implements, and talks to the server: requests `sign_in`,
`message`, `sign_out` on the control connection, one at a time, and the long
poll `wait` on the other.

*What is hard.* One thread, but every event may come at any time: a refusal
posts a retry that nothing cancels; `Close()` is called in the middle of other
handlers; a sign-out waits for whatever is on the control connection;
`OnResolveResult` calls an observer that runs a message loop; what was read of
an answer survives the connection it came on.

*Framing.* `ReadIntoBuffer`, `GetHeaderValue`, `GetResponseStatus` and
`ParseServerResponse` find the end of an answer, its length, its status and an id in
whatever the buffer of the connection holds: part of an answer, a body that looks like a
header, or more than one answer. *Correct when* each answer is taken once, whole, in
order and as it was meant, and nothing of it stays for the next.

*Correct when* the poll is open exactly while the client is connected, with an id, the list of peers is that of the session, sign-ins are
retried, and the application hears of the end of its session.

### 1.2 Conductor, main window and message loop (`conductor.cc`, `main_wnd.cc`, `main.cc`)

*State.* `peer_id_`, `peer_connection_`, `loopback_`, `pending_messages_`; the
page shown (`ui_`), the list box, whether the window exists; the queue of thread
messages of the UI thread; which of the two loops of `main()` runs.

*Operations.* The commands of the user (`StartLogin`, `ConnectToPeer`, Escape,
Return, closing the window), the callbacks of the client, the callbacks of the
peer connection (`OnSuccess`, `OnFailure`, `OnIceCandidate`, `OnAddTrack`,
`OnRemoveTrack`), and `UIThreadCallback` for messages posted with
`QueueUIThreadCallback`.

*Interaction.* Calls in both directions with the client and the window, on one
thread. Calls of WebRTC arrive on that thread or are posted to it.

*What is hard.* Three parties end a conversation (the user, the peer, the
server) while messages for it are queued; one message at a time may be sent and
the rest wait for a wake-up; a `MessageBox` runs a loop of its own, under which other
events come and show boxes over it, and which drops the thread messages; closing the window starts a sign-out that has to finish
without it.

*Correct when* a conversation has a peer and is on the screen, the list shown is
the client's, no message waits without a wake-up coming, sending never costs the
session, messages go to the peer they were made for, and a closed program ends.

*Between programs.* Each holds one conversation; what it signals waits in the program and
then at the server. Any message begins a conversation, one of the peer belongs to whatever
conversation there is, a third party is ignored. Two users may call each other at once;
hang-ups overtake what waits. *Correct when*, all being said, a program's peer is in
conversation with it and each has the other's description; a call is answered or ends;
candidates come after their description; nobody stays in a conversation alone.

### 1.3 Video renderers (`main_wnd.cc`, `VideoRenderer`, `OnPaint`; tracks in `conductor.cc`)

*State.* `local_renderer_`, `remote_renderer_`; per renderer `bmi_`, `image_`,
`buffer_lock_` and the track it renders; per track the sinks of its broadcaster;
the thread messages that carry a track.

*Operations.* `StartLocalRenderer`, `StopLocalRenderer`, `StartRemoteRenderer`,
`StopRemoteRenderer`, `OnPaint` on the UI thread; `OnFrame` on a thread of WebRTC;
`OnAddTrack`, `OnRemoveTrack` and the messages they post.

*What is hard.* A renderer is deleted while a frame may be on its way to it; a picture is
replaced while another may be painted; the UI thread takes the locks of two
renderers, the frame threads that of a broadcaster and then that of a renderer; the
message that announces a track may come after the conversation has ended.

*Correct when* frames reach complete renderers only, no renderer outlives the threads of
its track, a picture is read with its own size, the window shows the last picture that
came, and no handler waits for ever.

### 1.4 Screen capture of the Win32 program (`MyCapturer.cc`), and its copy (`QtWebrtc/localCapturer.cpp`)

A `DesktopCapturer`, a frame buffer, and a message that posts itself again every
33 ms. The first is compiled but its only use is commented out
(`conductor.cc:457`); the second is started by the offer page and nothing stops it. Not
modelled; the buffer code is the one of 1.5.

### 1.5 Local video window (`QtWidgetsLocalVideo`, `demo_desktop_capture`, `desktop_capture_source`)

*State.* The capture and the subscriber of the window; per capture a thread, the
atomic `start_flag_`, the sinks of `broadcaster_`, the I420 buffer.

*Operations.* The buttons "begin" and "end" on the UI thread; the loop of the
capture thread with `OnCaptureResult` and `OnFrame`.

*What is hard.* Objects used by one thread are deleted by the other; the UI
thread waits for the capture thread with `join()` and with the lock of the
broadcaster.

*Correct when* a deleted capture has no thread, a deleted subscriber gets no
frame, one capture at a time paints, the handlers return, and a frame arrives in
its own size.

### 1.6 The rest of the Qt program

The camera window (`QtWidgetsCamera`, `VcmCapturerTest`). The offer pages
(`QtWidgetsTest`, `QtWidgetsSdp`): they make a peer connection and an offer, show the
description and the last candidate that `ConductorCallback` was given, and load those
the user has carried over from the other side; `main.cpp` makes the UI thread an
`rtc::Thread`, so that the callbacks come on it. A copy of the conductor that nothing
instantiates, and the main window with its buttons. See section 6.

### 1.7 Left aside

`QtWebrtcOffer` and `QtWebrtcAnswer` (a window each that makes a factory and
drops it), `defaults.cc` and `flag_defs.h` (constants, environment variables),
`webrtc/include` (third-party headers), project files.


## 2. The models

### 2.1 `PeerConnectionClient`

One action is one handler up to its return to the message loop, with every call
it makes: `OnRead`, for instance, includes `ReadIntoBuffer`, the `OnClose` it
calls, the parsing of the answer, the callbacks, and the `SignOut` or the dialling
of the poll at its end. The variables are the members of the class; a string
buffer is the request it holds (`request`), or whose answer its first bytes
belong to (`control_data`). `told` is what the last step told the application:
callbacks, and `FALSE` returned. `DoConnect`, `CloseSession`, `Dial`,
`SignOutStarts` are the functions the handlers share; they take the state of the
control socket as an argument where a handler has changed it before.

Only one handler is cut in two: `OnResolveResult` with an error, because its
observer shows a `MessageBox`, during whose loop other events run (`modal`).

The network, the server and the system are chosen with `Faults`:
connections refused or lost, answers in pieces, error answers, connections kept
open, `Connect` failing at once, names that do not resolve. A property that
needs one of them ruled out says so in its comment.

`crashed` is a null pointer used: `SignOut` before the first `DoConnect`
(`hanging_get_` at line 184), and `resolver_` destroyed under the `MessageBox`.

`RTC_DCHECK`s are no-ops in the model, as in a release build; they are among the
properties.

### 2.2 `SignallingSession`, and the refinement

An abstract specification without sockets, retries, resolvers and buffers: a session is
sought, joined, left and ended, it has an id and a list of members, and `told` is what
the observer hears. `PeerConnectionClient` implements it (`ImplementsSession`) with the
mapping `Phase`: NOT_CONNECTED is "out", both signing-out states are "leaving", and the
rest is "seeking" without an id and "in" with one. It says, for instance, that other
members are heard of inside a session only, that the id of a session does not change, and
that its members are those the observer was told of. Two things in it are the code's
doing and not what one would ask for: a client that is leaving may be admitted, and a
retry brings it back into its session (`Seek`).

### 2.3 `HttpResponse`

One connection, over any number of answers. The bytes are lines of a kind: the status,
the three fields the client looks for, the blank line, text. `Find` is `std::string::find`
over the whole buffer, `HeaderValue` compares the place with the end of the header,
`SizeT` and `Sum` wrap as a `size_t` does. `Read` takes any piece of what is on the way;
an answer that is whole is taken with everything behind it, and the buffer cleared. A
connection lost leaves the buffer as it is, for the next one to append to.

`clean` is history: so far every length was right, no answer was cut off, and none was sent
before the last had been received. The server of this program keeps to the first and the
last on the control connection; a poll that is kept open need not. Outside of it the
parser does what the code does (the status of a buffer that does not begin with a status
line is any), and the properties say nothing but the types.

Left out: `ParseEntry`, a pure function of one line (name, id, flag; a comma in the name
moves both numbers), and pieces that end inside a line, which differ from those here only
in a buffer that begins with the rest of another answer.

### 2.4 `Conductor`

It INSTANCEs `PeerConnectionClient` over its own variables. A step is what the
program does for one message of the loop: an event of the client conjoined with
what the Conductor makes of the callbacks in `told`, a command of the user
together with the call of the client it makes, an event of the peer connection,
or one thread message.

Messages are "fresh" while the conversation that signalled them lasts and
"stale" afterwards: `DeletePeerConnection` leaves the queue and
`pending_messages_` alone, so in the model it only changes their age.
`offers` counts descriptions being created, `gathering` says that candidates
may come. Contents of descriptions are left out: `Handle` has every outcome a
message can have (answer it, hand it to WebRTC, start the loopback test, ignore
it).

A `MessageBox` disables the window and runs its own loop inside the handler that shows
it: client events go on, and thread messages are thrown away (`LoseThreadMessage`).
`boxes` is the stack of them, the one on top first, each with what its handler goes on
to do when it is dismissed: "nothing"; "lookup", to finish `OnResolveResult` of a name
that did not resolve; "message", to give up the conversation that `OnMessageFromPeer`
could not open and to sign out; "call", to give up the one `ConnectToPeer` could not open
and to show another box; "connection", to go on without the peer connection that
`CreatePeerConnection` did not make. Only the box on top can be dismissed (`DismissBox`).
Meanwhile conversations begin under it and are deleted with it, sessions end, and other
boxes come. Under "message" and "connection" (`Failing`) `peer_id_` is set without a peer
connection: the assertion at `conductor.cc:297` does not hold there, and
`ConversationHasPeer` says that it is so nowhere else. `UserMay` is without any box.

`Upsets` adds what else may happen: Return pressed while streaming, and peer
connections that cannot be made. `died` is the null `peer_connection_` in
`AddTracks` after `CreatePeerConnection` failed (`conductor.cc:151` goes on).

`Quit` and `Exit` are the two loops of `main()`.

That the list of peers of the client is that of its session is proved (5.1) and has no
run of its own.

Left out: tracks, renderers and painting, which `CallVideo` models (their messages go
through the same thread queue but touch nothing the Conductor's properties are about),
and layout. `auto_connect_` and `auto_call_` post the same commands a user gives.

### 2.5 `Call`

Programs at a server, each with what matters of its Conductor to the others: `peer_id_`,
the peer connection (its signalling state, its chain of operations, whose description it
has), what it has signalled and not sent, what the server holds for it. It abstracts from
`Conductor`: thread messages and `pending_messages_` are one queue, sending is one step,
a program that loses its session is gone (it would come back with another id), and an
operation that only sets a description, which WebRTC does without being asked again, is
done before the next message is heard. `Transitions` are the signalling states of WebRTC;
a description that is not accepted fails, which the code only logs.

`Plan` bounds who may call whom in the calls that users make, `Gathering` who gathers a
candidate, `MaxMishaps` sessions lost and descriptions that could not be created.

`disturbed` is history: a message has been sent in, or taken for one of, a conversation it
is not of, or ignored because of a third party, or a description could not be created.
The properties are about what happens otherwise. They do not hold beyond it, and that is
the program's behaviour: messages carry no mark of their call (section 4).

### 2.6 `CallVideo`

The handlers of the UI thread are cut where it can be overtaken: at the lock of a
broadcaster (`AddSink`, `DeleteRenderer`) and at the locks of the two renderers
(`LockLocal`, `LockRemote`). `step` is where it is, `at` the renderer under way that no
member points to yet or any more: `reset(new VideoRenderer(...))` completes the new
one, assigns it, and deletes the old one, in this order. `feed[t]` is what the thread of
track `t` does: it holds the lock of the broadcaster while it goes through the sinks
(`Delivering`), and the lock of the renderer from the new `bmi_` (`LockAndSetSize`) to
the filled `image_` (`Convert`).

Everything that decides when a conversation begins and ends is in `Conductor`; here it
may begin whenever there is none (`StartConversation`) and end at any time
(`EndConversation`), with the three things that follow `DeletePeerConnection`: another
page, the same page, the window closed. So what holds here holds whatever the session
does.

Renderers and tracks are names; one that nothing refers to is used again. A picture is its
size, which is all that painting could get wrong. A message about an audio track is
only released, like `TRACK_REMOVED`. `SetSize` never returns early, because `bmi_` holds
the height negated: each frame gets an image of its own.

`crashed` is a sink added to a track whose factory, and with it the worker thread the
call goes through, has been deleted: `NEW_TRACK_ADDED` handled after
`DeletePeerConnection`.

Left out: colour conversion, rotation, the arithmetic of the layout, and the area less
than 200 pixels wide in which the local picture is not painted.

### 2.7 `LocalVideo`

The handlers of the two buttons are cut where the UI thread can be overtaken: at
`join()`, at the lock of the broadcaster, and between the assignments the capture
thread sees. `step` is where the UI thread is, `thread[c]` where each capture
thread is. The capture thread holds the broadcaster's lock while it delivers
(`Locked`). Objects have identities (`Captures`), so that deletion can be told
from forgetting: "end" forgets its capture, "begin" deletes it and forgets the
subscriber.

Sizes are pairs. `BufferFor` is the decision of `OnCaptureResult` to keep or
replace the I420 buffer, `Overruns` says whether the rows written by
`ConvertToI420` end after the buffer. Memory after a buffer may or may not be
noticed: `crashed` is a nondeterministic choice then.

Left out: colour conversion, scaling, the label, the counters of frames per
second. Closing the window only hides it in Qt, so it is not an action. Windows
share nothing, so one is enough.

### 2.8 What is assumed of code outside the repository

- `rtc::Win32Socket`: `Connect` fails on a socket that is not closed; a local
  `Close` raises no event; events come in the order connect, reads, close.
- The server sends a `Pragma` header with the answers to `sign_in` and `wait`
  (notifications have the client's own id there, messages the peer's). An answer
  comes after its request; a kept-open poll may bring further answers.
- `rtc::VideoBroadcaster` holds its lock during `OnFrame` and while sinks change.
- Messages for a member wait at the server, in order, until its poll takes them; a member
  that leaves is reported to the others behind what it has sent.
- The operations of a peer connection are chained (`rtc::OperationsChain`): one is begun
  when the one before has completed. What `CreateOffer`, `CreateAnswer` and the
  `Set...Description` calls then do (`Creations`, `Settings`, `SetDescription`, `Done`) is
  taken from their documentation and from how the Conductor uses them.
- A peer connection that was deleted answers no `CreateOffer` any more.
- The loop of a Win32 `MessageBox` dispatches to windows only.


## 3. Runs

Twelve runs, one for each question. Ids are interchangeable, so the safety runs of client
and Conductor use their symmetry; runs with liveness use none. "Violated" runs show a statement of the
repository about itself that the code does not keep.

| run | question | result |
|---|---|---|
| `client_faults` | every fault there is: assertions on the sockets, ownership of the resolver, what the control connection carries without an id (a `sign_in` or nothing), the end of a session reported | holds |
| `client_session` | refused, lost, kept-open connections and error answers: does the client implement the abstract session; is the poll open exactly while CONNECTED, with an id; does a sign-in that is refused have a retry pending, and complete? | holds |
| `http` | three answers of nine kinds in any pieces: each taken once, whole, in order, as it was meant | holds |
| `client_split_answer` | is a CONNECTED client sure to have an id when answers come in pieces? | violated |
| `conductor_safety` | three ids, lost connections, error answers, names that do not resolve, peer connections that cannot be made, one message box over another: a conversation has its peer and is on the screen, the list is current, no wake-up is lost, sending keeps the session | holds |
| `conductor_exit` | connections lost or kept open, `Connect` failing at once, Return pressed while streaming: does a program closed while it has an id sign out and end, unless the connection it waits for is lost or kept open? | holds |
| `conductor_hangup` | is the control socket idle when the user hangs up? | violated |
| `conductor_stale_message` | is a message sent to the peer it was made for? | violated |
| `conductor_close` | does a program closed at any time end? | violated |
| `call` | three programs, two calls, one mishap: do both sides agree, is a call answered, are candidates expected, is nobody left alone? | holds |
| `call_video` | frames, renderers coming and going, painting: complete renderers, live tracks, whole and current pictures; no handler waits for ever, announced tracks are rendered | holds |
| `local_video` | both buttons against the capture threads, with three captures | holds |

### 3.1 Bounds

*Client.* Two ids: one is the client's and one a peer's, and which is which may
change at every sign-in; a second peer does not change what the client does, as
`peers_` is only added to, removed from and cleared. `MaxRetries = 2` lets a
retry come due while another is pending, and twice for one sign-in.

*HTTP.* Three answers: one, the next, and one after a connection that was lost. The nine
kinds are those of `MCHttpResponse`: among them bodies with each line the client looks
for, an answer without a length whose body has one, a negative length, one too short and
one too long. `SizeRange` is 1024, far from any sum but that with a negative length.

*Call.* The first call is of `p1` to `p2`, the second again, or of `p2` to `p1` (before,
while or after the first), or of a third program to `p1`. One candidate, of the program
that is called first. One mishap: a session lost, or a description that fails.

*Conductor.* Three ids in the safety run: a third party may interrupt a
conversation. `MaxBoxes = 2` there: one message box over another, each with whatever
its handler goes on to do; one box in the other runs. `MaxQueue = 2` and `MaxPending = 1` let one message wait, and
another in the queue with a wake-up before or after it. A step that would exceed a bound is not
taken: in the code it is taken, and the model says nothing of longer queues.
`MaxRetries = 0`: without refusals nothing is retried. With refusals
`NoLostWakeup` does not hold, and that is the program's behaviour: a refused
message is replaced by a sign-in, and nothing wakes the ones that wait. It does not hold with Return pressed either: the box it
shows swallows wake-ups.

`conductor_exit` is about sign-outs, for which two ids, one message waiting and one box
are enough. The connection may be lost or kept open at any time in it, and `Connect` may
fail at once. What then ends in vain is part of the property
(`SignOutLost`): when the connection is lost, or kept open until the server closes it,
`OnClose` reports a message sent (`peer_connection_client.cc:490`), nothing signs out
any more, and the second loop of `main()` runs for ever. `Connect` that fails in the
sign-out made by `OnRead` does not keep the program: it closes the session. Refusals are
excluded, for a refused `sign_out` signs in again (`:495`, `:506`); so are names that do not
resolve, whose box waits for the user, and peer connections that cannot be made, after
which the program has died. Answers in parts are left out for the size of the run.

*Call video.* Two renderers: the local and a remote one, or a remote one and the one that
replaces it. Two tracks: the camera and one of the other side, or two of the other side,
of which one may be left over from the conversation before. Two sizes, of which one is
that of an empty renderer. One message may wait (`MaxQueue = 1`), which is enough for it
to be lost or late. A local renderer while a remote one is replaced needs three; the
proofs of 5.3 are for any number.

*Local video.* Three captures: one running, one just deleted or forgotten, and a
third to begin again. The three sizes are a screen, the same screen turned, and
a smaller one, in units small enough for the arithmetic to be seen.

### 3.2 Fairness

*Client.* Weak fairness on each event that stays possible: the message loop
delivers it. Strong fairness on `OnConnect`: `refuse` is a race between
acceptance and refusal at every attempt, and the property is about a server that
is back now and then.

*Conductor.* Weak fairness on the events of the client, the thread messages and
the two loops; none on the user, nor on WebRTC.

*HTTP.* Weak fairness on `Read`: bytes sent arrive, unless the connection is lost.

*Call.* Weak fairness on what a program hears, on the operations of its connection, and on
sending what a conversation has to say, which is what `NoLostWakeup` of `Conductor` is
for; none on the user, on candidates, or on what waits without a conversation.

*Call video.* Strong fairness on the handlers under way and the thread messages, weak
fairness on `OnFrame`, none on anything else, painting included. Strong, because a frame
thread takes the lock that a handler waits for again and again, and handlers and
messages wait for each other: between two frames the locks are free for most of the
time, and the loop takes every message in the end.

*Local video.* Weak fairness on the handlers under way and on every capture
thread. Strong fairness on `Subscribe` and `RemoveSink`, which wait for the lock
that the capture thread takes and gives up again for every frame: it sleeps
66 ms between two (1000 / `fps_`, which is 15), with the lock free. None on the buttons.

### 3.3 Deadlock

TLC checks it in the runs of the client, of `CallVideo` and of `LocalVideo`, where a
program that has crashed only stutters, in `http`, where a connection can always be lost
and made, and in `call`, where programs rest only when nobody is in a conversation
and nothing waits (`Idle`). In the Conductor runs it is off: a program that
has ended stutters, but one closed in the wrong moment stands still in its second
loop, which `conductor_close` shows as a violation of its own.


## 4. Findings

1. **Bytes of a dead session** (`client_split_answer`). `Close()` does not clear
   `control_data_`. The first part of an answer that was cut off is taken for the
   beginning of the next answer: without a `Pragma` header in it the client
   becomes CONNECTED with id -1 and polls as peer -1.
2. **Hanging up closes the session** (`conductor_hangup`).
   `DisconnectFromCurrentPeer` does not ask `IsSendingMessage`; with a message on
   its way `Connect` fails, and the client closes the session behind a list of
   peers that stays on the screen.
3. **Messages of an ended conversation** (`conductor_stale_message`) are sent to
   the peer of the next one.
4. **A window closed during sign-in** (`conductor_close`): the id arrives
   afterwards, nobody signs out, and the second loop of `main()` waits for ever.

The models contain more behaviour of this kind that no run is about, since no statement
in the repository contradicts it or an invariant shows no more than the action does:

- the retry after a refusal is always a sign-in (`OnMessage`), so that a refused `message` is
  lost and a refused `sign_out` signs in again;
- a screen that is turned or made smaller keeps its I420 buffer (`BufferFor`, `Overruns`);
- a track announced after its conversation has ended (`UIThreadCallback` of `CallVideo`);
- the null pointers behind `crashed` and `died`;
- messages of a third peer that arrive in a conversation and are ignored behind an
  assertion (`HearThird`): the caller hears nothing and waits;
- any message opens a conversation (`HearFirst`), so that a candidate or an answer that
  comes after a hang-up makes one that its sender is not in;
- an answer to an earlier call is applied to the next one with the same peer (`HearPeer`),
  and a late BYE ends it (`HearNews`);
- two users who call each other at once both keep their offer, and neither is answered
  (`Crossed`);
- a second notification in the same read of a poll is taken for the body of the first
  (`TakeAnswer`).


## 5. Proofs

Proved with TLAPS for every set of ids, captures, renderers, tracks and sizes, every bound and every
choice of faults, from the ASSUMEs of the modules only.

### 5.1 `PeerConnectionClientProofs`

`TypeCorrect` first; then the inductive invariant `IInv`, in six parts. `AnyFaults`
holds whatever happens. The others are implications from the absence of one fault,
because the facts they state depend on each other only within such a part:

- `WholeAnswers` ("part" excluded): nothing is left in `control_data`, so the
  first answer of a session is the one to its `sign_in`, so that a connected client has an id,
  and polls with it. `ConnectedHasId` alone is not inductive: it needs the empty
  buffer, and `PeerListOfSession` needs that the poll, from which peers come, has
  an id.
- `SureDials` ("fail" excluded): every handler that closes the poll dials it again.
- `SureLookups` ("lookup" excluded): no message box, so nothing writes `state_`
  from behind.
- `SureConnections` ("drop" excluded): a connection stays until its answer is read,
  so a sign-in without one was refused and has its retry.
- `SureAttempts` ("refuse" and "lookup" excluded): nothing is retried, so a sign-in is
  asked for by a client without an id and starts with an idle control socket. The
  client's own theorems do not need it; the Conductor's do.

From it follow `SocketsInOrder`, `SignInFindsPollClosed`, `NoResolverLost`, `NobodyAsks`,
`SessionHasId`, `PeersOfSession`, `PollNeverStops`, `PollEndsWithSession`,
`RefusedSignInIsRetried`. `NobodyAsks` speaks of the control connection only: that the poll
goes out with an id is `SessionHasId` with `PollEndsWithSession`, where answers arrive whole,
and section 4 shows that it does not where they do not. `EndIsReported` (an action property) needs no invariant: it is a
case split on `Next`.

`SessionRefined` is the refinement, where answers arrive whole and names resolve: the
initial states map to initial states, and `SessionStep` takes each action of the client
to a step of the session or a stutter. It uses `WholeAnswers`, for the id that the first
answer brings, and `SureLookups`, for the state that a message box would overwrite.

### 5.2 `ConductorProofs`

`UsesClient` first: `Spec => Client!Spec`. Every action of the Conductor contains at
most one action of the client and leaves its variables alone otherwise. So the
client's invariants, cited through an instance of `PeerConnectionClientProofs` in
the program's variables, hold of the client inside the program
(`ClientInvariants`), and nothing about sockets has to be proved again.

Then come the lemmas about message queues (what `Append`, `Tail`, `\o` and `Outdated`
do to the messages that are fresh and to those that wake the Conductor),
`TypeCorrect`, and the inductive invariant in three parts:

- `Own`, in every environment: `ConversationHasPeer`, with the exception it states for the
  box of a message that could not open a conversation, and a message that is
  fresh belongs to the conversation there is. It has to hold at every place where a
  handler is suspended in a box: `ShownBox` and `DismissedBox` say what showing and
  dismissing one does to `Failing`.
- `Page`, where connections are not refused, answers arrive whole, names resolve and
  Connect does not fail at once (`Reliable`), while the window exists: a session is sought
  from the connect dialog only, and not under a box of `Failing`; a client that signs out
  has an id, a conversation is shown, the list is current (`ListIsCurrent` excepts the
  time under such a box). The first two are what the last two need: `OnSignedIn` fills
  the list and shows it, and must not find a conversation; it comes of a client
  without an id, which only the connect dialog shows.
- `Wake`, where moreover nobody presses Return while streaming: no box is open while a
  message waits, and no wake-up is lost.

What the client does in one of its events is one lemma, `Events`: a list of facts
about the session before and after, and about what was told. `PageStep` and `WakeStep`
use these facts only and never open an action of the client's sockets. The
theorems are `PeerOfConversation`, `WindowTells`, `ListTells` and `MessagesAreWoken`, and
`SendingIsSafe`, an action property that needs no invariant. Excluding "refuse" is not
an artefact: a retry may connect with an id, and the
`sign_in` it sends then leaves its page. The run `conductor_safety` has names that do not
resolve too; the proofs exclude them because a message box would overwrite `state_` from
behind. `SessionsOfProgram` carries the refinement over, where answers arrive whole and
names resolve: the client inside the program implements the session.

### 5.3 `CallVideoProofs`

The properties rest on each other through facts that none of them states, so that
`IInv` has, beside the types,

- `Objects`: the renderers that exist are the two of the window and the one under
  way, all different, and where a handler needs one there is one. So a renderer that is
  being made is nobody else's, and none is left when both have been stopped;
- `Alive`: `RendererOfLiveTrack`, and no track is alive without a peer connection;
- `Served`: a sink of a track renders that track, and stays a sink while a delivery has it
  before it. This is what the lock of the broadcaster is for, and what
  `FramesReachRenderers` follows from;
- `Locks`: who holds `buffer_lock_` of which renderer, by where its thread is;
- `Pictures`: `bmi_` is that of the picture unless a frame thread holds the lock; a
  renderer that is no sink yet has no picture;
- `Shown`: `ShownIsCurrent` at every place outside `OnPaint`, not only between handlers.

There is one lemma for each handler and each step of a frame, with one step for each
part it can disturb. The theorems are `TypeCorrect`, `DeliveredToRenderers`,
`NoRendererLeft`, `WholePictures` and `LastPictureShown`.

### 5.4 `LocalVideoProofs`

None of the properties, nor the type invariant, is inductive by itself: `Stop`
deletes the subscriber and lowers the flag of `capturer`, which must be there.
`IInv` states what there is at each place of the UI thread:

- `Place`: where a handler uses a capture there is one, it has been made, and it is
  not deleted;
- `Runs`: only it may run, and does until it is told to stop;
- `Sinks`: a broadcaster has no sink but its own subscriber, and none when that has
  been deleted;
- `Subscribed`: the subscriber of the window is that of its capture, and has been
  removed before it is deleted.

There is one lemma for each handler and one for the capture thread, which rests
on `ThreadMoves` (what a capture thread can do to the state of threads) and
`BufferType`. The theorems are `TypeCorrect`, `OneThread`, `NoThreadOfDeleted`,
`NoDeletedSink`, `IdleSeesCapture`. `NoThreadOfDeleted` is a consequence of the
others: the only thread that runs is that of the window's capture, which is not
deleted.

### 5.5 `HttpResponseProofs`

First the lemmas about sequences received in pieces (`Joined`, `Rest`, `Pieces`, `ReadOn`)
and about an answer on the wire (`BytesOf`): with k of its lines received, its header is
found exactly when k has reached its end (`HeaderEnd`), only its own fields are found in
it (`FieldsOf`), it is whole exactly when k is all of it (`WholeOf`, where the length is
right), and then it is parsed as it was meant (`StatusOf`, `ParseOf`). Then the types; and
`TakenInOrder`, for which `TakenAsMeant` is too weak: `IInv` adds that the buffer and the
wire are, together, the answer given last, or that both are empty.

### 5.6 `CallProofs` and `CallAgreementProofs`

`TypeCorrect`, for any number of programs and calls; the heads and tails of queues and
chains need their own lemmas.

`PeersAgree` speaks of the moment when nothing is under way, and `CandidateIsExpected` of
the moment when a candidate is taken. Neither says anything of the steps before: a
`BYE`, an offer and its candidates may all be in the same queue, of three calls of the
same two programs. The invariant they need says of every message, waiting in a program or
at the server, which connection it is of and what has gone before it. It is `Agreement`
of `CallAgreement`: as long as nothing has `disturbed` a conversation,

- *each program* (`Each`): without a session it has nothing, without a peer no connection
  (`Presence`); its connection is at one of six stages, each with the operations that
  its chain may hold (`Staged`); what it has signalled agrees with that stage (`Speaks`);
  and what waits is in the order of its connections, of each first the offer, the answer
  before anything that is meant for a connection of the peer, the `BYE` last
  (`InboxInOrder`, `OutboxInOrder`);
- *each two programs* (`Pair`): what one is to hear is of no later connection than the
  last of the other (`Posted`), and one learns of a connection only after hearing all
  that came before (`HeardFirst`). A description that a program has, or is to take, is of
  a connection that is in conversation with it, or of whose end it is to hear
  (`KnownIsLive`, `OfferIsLive`, `AnswerIsLive`). A `BYE` is not of a connection that knows
  the one it ends (`ByeIsPast`). A program that waits for an answer has still to make its
  offer, or the offer is on its way, or it has come (`OfferIsHeard`, `CalleeHeard`);
  one that has come and been applied has its answer on the way (`AnswerIsDue`,
  `AnswererKnows`), and candidates behind it (`CandidateFollows`).

The parts rest on each other: a description is live because the `BYE` that ends its
connection comes behind it, which is `InboxInOrder`; that a `BYE` ends the conversation it
was sent in is `ByeIsPast`, which needs `HeardFirst`; and an answer belongs to the call
there is because of `KnownIsLive`.

Every part is written in views of the state: `Mail(p, q)`, what `q` is to hear of `p`;
`Said(p)`, what `p` has still to send for its last connection; `Known(p)` and `Due(p)`, the
descriptions it has and the answers it is to apply. The proof has, below the actions,

- lemmas about queues, and about what taking, posting and saying a message does to the
  views (`TakeMail`, `PostMail`, `SayMore`, `SayLess`);
- one program alone: what each operation that completes, and each message that is heard,
  does to the stage of its connection and to its views (`SetStage`, `SuccessStage`,
  `HearOfferViews`, `HearAnswerViews`, ...);
- two programs: one lemma for each kind of step (`OwnStep`, `ByeStep`, `LeaveStep`,
  `NewsStep`, `BeginStep`, `FirstStep`, `SendStep`, `HearStep`), which states what the
  step does in terms of the views and never opens an action;
- one lemma for each action (`ByeAgreed`, ..., `SendAgreed`), which shows that it is such
  a step for the programs that take part and none for the others (`SamePair`).

`ConversationsAgree` is `[]Agreement`. From it come `PeersDoAgree`: when nothing is under
way, the stages that are left are a connection that waits and one that is settled
(`QuietStage`), and `AnswerIsDue` excludes one of each; and `CandidatesAreExpected`, from
`HeardIsPast` when there is a description, and from `CandidateFollows` when there is none.

`disturbed` is not an assumption about the environment but part of both properties (2.5):
what they say is that only the events it records make two programs disagree.

Every part of the invariant was checked with TLC before it was proved, and
`call_agreement.cfg` checks it on the instance of the run `call`
(`tlc -config call_agreement.cfg MCCall`, 380,358 states).

### 5.7 Only model-checked

Liveness (`SignInCompletes`, `SignedOutExits`, `AnswerIsTaken`, `CallIsAnswered`, `NobodyIsLeftAlone`, `HandlersReturn` of both video modules,
`AnnouncedIsRendered`): it rests on fairness and ENABLED, which the
prover does not handle.


## 6. Not modelled

- **The offer pages** (`QtWidgetsTest`, `QtWidgetsSdp`). Their state is a text field or
  two; the steps between them are the user's. Every description that is loaded is taken
  for an answer (`QtWidgetsTest.cpp:514`) and no page makes one, so that two pages never
  connect, and no text in the repository says what they are to do. What can go wrong in
  them is among the hazards.
- **The camera window**: one button, which opens the camera with index 2 and forgets the
  capturer it gets.
- **The desktop track** (`localCapturer`) **and `MyCapturer`**: a message that posts itself
  again; the buffer is the one of `LocalVideo`. The second is not used.
- **The copy of the conductor in the Qt program**: nothing instantiates it. **The main
  window** of the Qt program and **`QtWebrtcOffer`, `QtWebrtcAnswer`**: no state.
- **`defaults.cc`, `flag_defs.h`, `ParseEntry`**: pure functions, or constants.
- **The contents of descriptions**, colour conversion, layout, focus.
- **`src/webrtc`**: headers of WebRTC and of what it uses, nearly all of the lines of the
  repository, and no implementation among them. What the modelled code relies on is
  listed in 2.8; only the operations chain is mapped to its headers.

The programs keep nothing on disk, so there is no crash and restart to model: a program
that starts again is a new member.
