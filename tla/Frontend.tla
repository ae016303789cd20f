------------------------------- MODULE Frontend -------------------------------
(***************************************************************************)
(* What the window shows (frontend/src): tunnelStore is the state of the      *)
(* button, connectionStore the dashboard.  Both follow the events of the         *)
(* Bridge, which come in the order they were sent, and the answers of the calls   *)
(* Connect and Disconnect, which come when they come.  Progress and the          *)
(* success wait in a queue, so that each is seen for 260 ms.                        *)
(*                                                                           *)
(* The Bridge is what it may send: a session can start once the one before it      *)
(* has ended, and the 'disconnected' of that one may still be on its way            *)
(* (backend/bridge.go, forwardEvents; in detail in Bridge).                          *)
(***************************************************************************)
EXTENDS Naturals, Sequences

CONSTANTS
    Stages,     \* the stages of the progress, those whose presentation is queued
    MaxRuns,    \* bound: sessions
    MaxClicks   \* bound: clicks on the button

ASSUME WindowAssumption ==
    {MaxRuns, MaxClicks} \subseteq Nat /\ Stages \cap {"connecting", "connected", "disconnected"} = {}

Runs == 1..MaxRuns
Clicks == 1..MaxClicks

VARIABLES
    view,       \* tunnelStore
    dash,       \* connectionStore's state
    connectingRef, \* of the page that is mounted: the click whose WailsConnect it waits for, or 0
    waiting,    \* presentationQueue
    seen,       \* seenPresentationKeys
    timer,      \* presentationTimer runs
    inbox,      \* the events on their way
    calls,      \* [Clicks -> App.Connect called by this click: "none", at work, or its result]
    stops,      \* calls of Disconnect without an answer
    runs,       \* the sessions that started
    life,       \* [Runs -> how far the session is]
    sent,       \* [Runs -> the events it sent]
    heard,      \* history: [Runs -> the events the window got]
    unwanted,   \* history: the sessions that met a Disconnect, in their life or at their start
    overtaken,  \* history: the sessions that sent something before the 'disconnected' of the one before
    clicks

shownVars == <<view, dash, waiting, seen, timer>>
windowVars == <<shownVars, connectingRef, inbox, calls, stops, runs, life, sent, heard, unwanted, overtaken, clicks>>

WindowInit ==
    /\ view = "idle" /\ dash = "idle" /\ connectingRef = 0
    /\ waiting = <<>> /\ seen = {} /\ timer = FALSE
    /\ inbox = <<>> /\ calls = [c \in Clicks |-> "none"] /\ stops = 0
    /\ runs = 0 /\ life = [r \in Runs |-> "none"]
    /\ sent = [r \in Runs |-> {}] /\ heard = [r \in Runs |-> {}]
    /\ unwanted = {} /\ overtaken = {} /\ clicks = 0
-----------------------------------------------------------------------------
(***************************************************************************)
(* The button.                                                              *)
(***************************************************************************)
Click == clicks < MaxClicks /\ clicks' = clicks + 1

(* doConnect. *)
ClickConnect ==
    /\ Click /\ view = "idle" /\ connectingRef = 0
    /\ connectingRef' = clicks' /\ view' = "connecting" /\ dash' = "connecting"
    /\ calls' = [calls EXCEPT ![clicks'] = "working"]
    /\ UNCHANGED <<waiting, seen, timer, inbox, stops, runs, life, sent, heard, unwanted, overtaken>>

(* The router unmounts the page of the button for another one; when it is mounted again its *)
(* connectingRef is a new one, and the old page's call goes on.                                *)
Navigate ==
    /\ connectingRef # 0 /\ connectingRef' = 0
    /\ UNCHANGED <<shownVars, inbox, calls, stops, runs, life, sent, heard, unwanted, overtaken, clicks>>

(* WailsConnect returns, to the page that called it: an error resets what is still connecting, *)
(* be it for a later call.                                                                       *)
AnswerConnect(c) ==
    /\ calls[c] \in {"ok", "failed"}
    /\ calls' = [calls EXCEPT ![c] = "none"]
    /\ connectingRef' = IF connectingRef = c THEN 0 ELSE connectingRef
    /\ IF calls[c] = "failed" /\ view = "connecting"
       THEN view' = "idle" /\ dash' = "idle"
       ELSE UNCHANGED <<view, dash>>
    /\ UNCHANGED <<waiting, seen, timer, inbox, stops, runs, life, sent, heard, unwanted, overtaken, clicks>>

(* handleTunnel on a tunnel that is up or coming up. *)
ClickDisconnect ==
    /\ Click /\ view \in {"connected", "connecting"}
    /\ view' = "disconnecting" /\ dash' = "disconnecting"
    /\ stops' = stops + 1
    /\ unwanted' = unwanted \cup {r \in Runs : life[r] = "live"}
    /\ UNCHANGED <<connectingRef, waiting, seen, timer, inbox, calls, runs, life, sent, heard, overtaken>>

(* WailsDisconnect returns: the presentation queue is left as it is. *)
AnswerDisconnect ==
    /\ stops > 0 /\ stops' = stops - 1
    /\ view' = "idle" /\ dash' = "idle"
    /\ UNCHANGED <<connectingRef, waiting, seen, timer, inbox, calls, runs, life, sent, heard, unwanted, overtaken, clicks>>
-----------------------------------------------------------------------------
(***************************************************************************)
(* The events.                                                              *)
(***************************************************************************)
Shown(item, before) == IF item = "connected" THEN "connected" ELSE before

(* enqueuePresentation, and drainPresentationQueue when no timer runs. *)
Enqueue(item) ==
    IF item \in seen THEN UNCHANGED <<waiting, seen, timer, dash>>
    ELSE /\ seen' = seen \cup {item} /\ timer' = TRUE
         /\ IF timer THEN waiting' = Append(waiting, item) /\ UNCHANGED dash
            ELSE dash' = Shown(item, dash) /\ UNCHANGED waiting

TimerFires ==
    /\ timer
    /\ IF waiting = <<>> THEN timer' = FALSE /\ UNCHANGED <<waiting, dash>>
       ELSE waiting' = Tail(waiting) /\ dash' = Shown(Head(waiting), dash) /\ UNCHANGED timer
    /\ UNCHANGED <<view, connectingRef, seen, inbox, calls, stops, runs, life, sent, heard, unwanted, overtaken, clicks>>

(* Mutant: the keys are forgotten, the items are not. *)
ForgetKeys == seen' = {} /\ UNCHANGED <<waiting, timer>>

(* Mutant: the keys stay, so that a success is presented once. *)
ClearItems == waiting' = <<>> /\ timer' = FALSE /\ UNCHANGED seen

(* clearPresentationQueue. *)
ClearQueue == waiting' = <<>> /\ seen' = {} /\ timer' = FALSE

(* state_changed and connection_progress. *)
Hear(event) ==
    \/ /\ event = "connecting"
       /\ view' = "connecting" /\ dash' = "connecting" /\ UNCHANGED <<waiting, seen, timer>>
    \/ event \in Stages /\ Enqueue(event) /\ UNCHANGED view
    \/ event = "connected" /\ view' = "connected" /\ Enqueue(event)
    \/ event = "disconnected" /\ view' = "idle" /\ dash' = "idle" /\ ClearQueue

HearNext ==
    /\ inbox # <<>> /\ inbox' = Tail(inbox)
    /\ Hear(Head(inbox).event)
    /\ heard' = [heard EXCEPT ![Head(inbox).of] = @ \cup {Head(inbox).event}]
    /\ UNCHANGED <<connectingRef, calls, stops, runs, life, sent, unwanted, overtaken, clicks>>
-----------------------------------------------------------------------------
(***************************************************************************)
(* The Bridge.                                                              *)
(***************************************************************************)
Live(r) == life[r] = "live"

(* App.Connect is refused while another one is at work, Bridge.Connect while a session runs; *)
(* they may fail for other reasons: no usable hash, a Disconnect during the preflight.          *)
ConnectFails(c) ==
    /\ calls[c] = "working" /\ calls' = [calls EXCEPT ![c] = "failed"]
    /\ UNCHANGED <<shownVars, connectingRef, inbox, stops, runs, life, sent, heard, unwanted, overtaken, clicks>>

(* Of two calls either may come first. *)
ConnectStarts(c) ==
    /\ calls[c] = "working" /\ calls' = [calls EXCEPT ![c] = "ok"]
    /\ runs < MaxRuns /\ runs' = runs + 1 /\ \A r \in Runs : ~Live(r)
    /\ life' = [life EXCEPT ![runs'] = "live"]
    /\ unwanted' = IF stops > 0 THEN unwanted \cup {runs'} ELSE unwanted
    /\ UNCHANGED <<shownVars, connectingRef, inbox, stops, sent, heard, overtaken, clicks>>

Send(r, event) ==
    /\ event \notin sent[r]
    /\ sent' = [sent EXCEPT ![r] = @ \cup {event}]
    /\ inbox' = Append(inbox, [event |-> event, of |-> r])
    /\ UNCHANGED <<shownVars, connectingRef, calls, stops, runs, heard, unwanted, clicks>>

(* forwardEvents: 'connecting' before anything else. *)
Publish(r, event) ==
    /\ Live(r) /\ (event = "connecting" \/ "connecting" \in sent[r])
    /\ Send(r, event)
    /\ overtaken' = IF \E before \in Runs : life[before] = "ended" THEN overtaken \cup {r} ELSE overtaken
    /\ UNCHANGED life

(* The session ends by itself or because it was told to, and its events are read; the Bridge *)
(* is free.                                                                                  *)
Ends(r) ==
    /\ Live(r) /\ "connecting" \in sent[r] /\ life' = [life EXCEPT ![r] = "ended"]
    /\ UNCHANGED <<shownVars, connectingRef, inbox, calls, stops, runs, sent, heard, unwanted, overtaken, clicks>>

(* The last event of a session is sent after that. *)
PublishEnd(r) ==
    /\ life[r] = "ended" /\ life' = [life EXCEPT ![r] = "over"]
    /\ Send(r, "disconnected")
    /\ UNCHANGED overtaken

WindowNext ==
    \/ ClickConnect \/ Navigate \/ ClickDisconnect \/ AnswerDisconnect
    \/ TimerFires \/ HearNext
    \/ \E c \in Clicks : AnswerConnect(c) \/ ConnectFails(c) \/ ConnectStarts(c)
    \/ \E r \in Runs : (\E event \in Stages \cup {"connecting", "connected"} : Publish(r, event)) \/ Ends(r) \/ PublishEnd(r)

WindowSpec == WindowInit /\ [][WindowNext]_windowVars
-----------------------------------------------------------------------------
(* The window shows a connection only for a session whose success it heard of and whose end   *)
(* it did not: neither a success that waits in the presentation queue nor the answer of a late  *)
(* call shows it for one that is over (README.md, "ложное состояние VPN").                       *)
NoFalseConnection ==
    "connected" \in {view, dash} =>
        \E r \in Runs : "connected" \in heard[r] /\ "disconnected" \notin heard[r]

Quiet == inbox = <<>> /\ ~timer /\ stops = 0 /\ \A c \in Clicks : calls[c] = "none"

(* When nothing is on its way the window is right: idle without a session, and connected with  *)
(* one that published its success, also after a call that was still at work when its page was     *)
(* left.  Excepted are a session that met a Disconnect, also one whose answer is that late, and    *)
(* one that was overtaken by the 'disconnected' of the one before it.     *)
WindowIsRight ==
    Quiet =>
        /\ (\A r \in Runs : life[r] \in {"none", "over"}) => view = "idle" /\ dash = "idle"
        /\ \A r \in Runs \ (unwanted \cup overtaken) :
             Live(r) /\ "connected" \in sent[r] => view = "connected" /\ dash = "connected"
=============================================================================
