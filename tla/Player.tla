------------------------------- MODULE Player -------------------------------
(***************************************************************************)
(* The video and audio players: the state of the page beside the state of  *)
(* the media element (lib/useMediaPlayer.ts), and the controls that hide   *)
(* while a video plays (viewers/VideoPlayer.tsx).                          *)
(*                                                                         *)
(* The element tells of its changes by events, in order and some time      *)
(* later; what is shown follows the events, what the buttons do goes by    *)
(* the element.  Time is counted in parts of the delay after which the     *)
(* controls hide.                                                          *)
(***************************************************************************)
EXTENDS Naturals, Sequences

CONSTANTS
    Delay,     \* HIDE_DELAY_MS
    MaxVolume, \* the volume, in steps
    MaxEvents, \* bound: events on their way
    Enabled,   \* which of "swap", "broken" happen
    MaxActs    \* bound of what the reader and the network do

PlayerBounds == {Delay, MaxVolume, MaxEvents, MaxActs} \subseteq Nat

VARIABLES
    el,      \* the element
    events,  \* the events it has not told of yet
    state,   \* the state of useMediaPlayer
    visible, \* uiVisible
    held,    \* the timer in hideTimer: the time it has left, or Off
    loose,   \* the timers nobody can clear any more
    still,   \* history: the time since the controls were last asked for
    leaked,  \* history: a timer was lost as a video began to play, and may hide what Wake shows
    swapped, \* history: another source was given, and nothing was played since
    acts

timers == <<visible, held, loose, still, leaked>>
vars == <<el, events, state, visible, held, loose, still, leaked, swapped, acts>>

Off == Delay + 1
Volume == 0 .. MaxVolume

Act == acts < MaxActs /\ acts' = acts + 1

-----------------------------------------------------------------------------
(* The element *)

Stopped == [paused |-> TRUE, broken |-> FALSE, volume |-> MaxVolume, muted |-> FALSE]

\* The element changes and has something to tell.
Tells(e, es) ==
    /\ Len(events) + Len(es) <= MaxEvents
    /\ el' = e
    /\ events' = events \o es

\* HTMLMediaElement.play: rejected for a source that cannot be played.
ElementPlays ==
    IF el.broken THEN Tells(el, <<>>) ELSE Tells([el EXCEPT !.paused = FALSE], <<"play">>)

ElementPauses == Tells([el EXCEPT !.paused = TRUE], <<"pause">>)

-----------------------------------------------------------------------------
(* The controls *)

\* A pointer or a key: the controls are shown, for the delay.
Wake ==
    /\ visible' = TRUE
    /\ held' = Delay /\ still' = 0
    /\ leaked' = (leaked /\ loose # {})
    /\ UNCHANGED loose

\* The effect on `playing': a new timer, put over the one that wake() may have set, and
\* cleared when the playing ends.
Effect(playing) ==
    /\ held' = IF playing = state.playing THEN held ELSE IF playing THEN Delay ELSE Off
    /\ loose' = IF playing /\ ~state.playing /\ held # Off THEN loose \cup {held} ELSE loose
    /\ leaked' = (leaked \/ loose' # loose)
    /\ UNCHANGED <<visible, still>>

\* Timers have run out.  One that wake() set looks whether anything plays.
Due(t) == t = 0

HideTimer ==
    /\ Due(held)
    /\ visible' = (visible /\ ~state.playing)
    /\ held' = Off
    /\ UNCHANGED <<el, events, state, loose, still, leaked, swapped, acts>>

LooseTimer ==
    /\ \E t \in loose : Due(t)
    /\ visible' = (visible /\ ~state.playing)
    /\ loose' = {t \in loose : ~Due(t)}
    /\ UNCHANGED <<el, events, state, held, still, leaked, swapped, acts>>

\* No timer is late, and no event later than a part of the delay.
Tick ==
    /\ ~Due(held) /\ (\A t \in loose : ~Due(t)) /\ events = <<>>
    /\ held # Off \/ loose # {} \/ still < Delay
    /\ held' = IF held = Off THEN Off ELSE held - 1
    /\ loose' = {t - 1 : t \in loose}
    /\ still' = IF still < Delay THEN still + 1 ELSE still
    /\ UNCHANGED <<el, events, state, visible, leaked, swapped, acts>>

-----------------------------------------------------------------------------
(* What the events do to the state *)

\* Slip for ControlsAreTrue: the end of playing is told by "ended" alone.
SlipPatch(e) ==
    CASE e = "play" -> [state EXCEPT !.playing = TRUE, !.ended = FALSE, !.error = FALSE]
      [] e = "waiting" -> [state EXCEPT !.waiting = TRUE]
      [] e = "ended" -> [state EXCEPT !.playing = FALSE, !.ended = TRUE]
      [] e = "canplay" -> [state EXCEPT !.waiting = FALSE]
      [] e = "error" -> [state EXCEPT !.error = TRUE, !.playing = FALSE, !.waiting = FALSE]
      [] e = "volumechange" -> [state EXCEPT !.volume = el.volume, !.muted = el.muted]
      [] OTHER -> state

Patch(e) ==
    CASE e = "play" -> [state EXCEPT !.playing = TRUE, !.ended = FALSE, !.error = FALSE]
      [] e = "pause" -> [state EXCEPT !.playing = FALSE]
      [] e = "waiting" -> [state EXCEPT !.waiting = TRUE]
      [] e = "canplay" -> [state EXCEPT !.waiting = FALSE]
      [] e = "ended" -> [state EXCEPT !.playing = FALSE, !.ended = TRUE]
      [] e = "error" -> [state EXCEPT !.error = TRUE, !.playing = FALSE, !.waiting = FALSE]
      [] e = "volumechange" -> [state EXCEPT !.volume = el.volume, !.muted = el.muted]

\* A listener runs, the page is rendered, and the effects of it run.
Listener ==
    /\ events # <<>>
    /\ state' = Patch(Head(events))
    /\ events' = Tail(events)
    /\ Effect(state'.playing)
    /\ swapped' = (swapped /\ Head(events) # "play")
    /\ UNCHANGED <<el, acts>>

-----------------------------------------------------------------------------
(* What the reader does *)

\* Goes by the element, not by what is shown.
TogglePlay == IF el.paused THEN ElementPlays ELSE ElementPauses

SetVolume(v) ==
    Tells([el EXCEPT !.volume = v, !.muted = @ /\ v = 0], <<"volumechange">>)

ToggleMute == Tells([el EXCEPT !.muted = ~@], <<"volumechange">>)

Control == TogglePlay \/ ToggleMute \/ \E v \in Volume \ {el.volume} : SetVolume(v)

\* The slider shows the volume, or nothing while muted, and the keys step from the volume.
Level == IF state.muted THEN 0 ELSE state.volume
KeySteps == {v \in Volume : v = el.volume + 1 \/ v + 1 = el.volume}

\* A click or a drag: the pointer goes down on the surface as well.
Click == Act /\ Control /\ Wake /\ UNCHANGED <<state, swapped>>

HandleMediaKey ==
    /\ Act
    /\ TogglePlay \/ ToggleMute \/ \E v \in KeySteps : SetVolume(v)
    /\ Wake
    /\ UNCHANGED <<state, swapped>>

PointerMoves ==
    /\ still > 0 /\ Act
    /\ Wake
    /\ UNCHANGED <<el, events, state, swapped>>

\* The keys of the keyboard and of the headset that the browser serves by itself.
MediaSession == Act /\ TogglePlay /\ UNCHANGED <<state, timers, swapped>>

-----------------------------------------------------------------------------
(* What the network and the browser do *)

\* The element stalls, goes on, ends, or gives its source up.
Buffers ==
    /\ ~el.paused /\ Act
    /\ Tells(el, <<IF state.waiting THEN "canplay" ELSE "waiting">>)
    /\ UNCHANGED <<state, timers, swapped>>

Ends ==
    /\ ~el.paused /\ Act
    /\ Tells([el EXCEPT !.paused = TRUE], <<"pause", "ended">>)
    /\ UNCHANGED <<state, timers, swapped>>

Breaks ==
    /\ "broken" \in Enabled /\ ~el.broken /\ Act
    /\ Tells([el EXCEPT !.broken = TRUE], <<"error">>)
    /\ UNCHANGED <<state, timers, swapped>>

\* Another video is opened over this one: the element stays, loads the other source and
\* is paused without an event.  Events are told before the other one is rendered.
Swap ==
    /\ "swap" \in Enabled /\ events = <<>> /\ Act
    /\ el' = [el EXCEPT !.paused = TRUE, !.broken = FALSE]
    /\ swapped' = TRUE
    /\ UNCHANGED <<events, state, timers>>

-----------------------------------------------------------------------------
Init ==
    /\ el = Stopped
    /\ events = <<>>
    /\ state = [playing |-> FALSE, waiting |-> FALSE, ended |-> FALSE, error |-> FALSE,
                volume |-> el.volume, muted |-> el.muted]
    /\ visible = TRUE
    /\ held = Off /\ loose = {}
    /\ still = Delay
    /\ leaked = FALSE /\ swapped = FALSE
    /\ acts = 0

Next ==
    \/ Listener
    \/ HideTimer \/ LooseTimer \/ Tick
    \/ Click \/ HandleMediaKey \/ PointerMoves \/ MediaSession
    \/ Buffers \/ Ends \/ Breaks \/ Swap

Spec == Init /\ [][Next]_vars

\* Events are told and timers run.
Fairness == WF_vars(Listener) /\ WF_vars(HideTimer) /\ WF_vars(LooseTimer) /\ WF_vars(Tick)

FairSpec == Spec /\ Fairness

-----------------------------------------------------------------------------
(* Properties *)

\* What VideoPlayer renders: the bar with the controls.
Chrome == ~state.error /\ (~state.playing \/ visible)

\* VideoPlayer.tsx:24: the controls stay for the whole delay after a touch, whatever
\* starts, stops and stalls meanwhile, but for the timer that is lost when a video begins
\* to play.
ShownWhileTouched == ~state.error /\ still < Delay /\ ~leaked => Chrome

\* VideoPlayer.tsx:39: a video that plays on untouched is shown without controls in the end.
HidesInTheEnd == []<>~(state.playing /\ Chrome)

\* useMediaPlayer.ts:59: when every event has been told, the buttons show what the element
\* does, and the next click does what its button says; not after another source was given.
QuietPlayerShowsElement ==
    events = <<>> /\ ~swapped /\ ~el.broken =>
        /\ state.playing = ~el.paused
        /\ Level = (IF el.muted THEN 0 ELSE el.volume)
=============================================================================
