------------------------------ MODULE AutoMix ------------------------------
(***************************************************************************)
(* The auto-DJ (htl/automix/autoMixer.ts) at the two decks of a browser:   *)
(* its phases, its loads with the queue they come from (queue.ts), what it *)
(* borrows for a transition and gives back, the user who may reach over at *)
(* any time, and the quiet window it asks of the stem separation           *)
(* (htl/stems/gpuQueue.ts).                                                *)
(*                                                                         *)
(* Positions are the four that the code compares: the body of a track, its *)
(* last stretch before the exit, past the exit, past the musical end.  A   *)
(* tick comes every 150 ms: a deck gets no further than the next position  *)
(* between two, and React has rendered what happened before the last.      *)
(***************************************************************************)
EXTENDS Naturals, Sequences, FiniteSets

CONSTANTS Tracks, None,
          Playlist,  \* the queue at first,
          Wanted,    \* and the tracks the user may queue
          Ramp,      \* ticks of a blend
          Start,     \* what the decks may hold when AUTO is switched on
          Kinds,     \* which of the Events may happen,
          Total      \* and how many in all, those that undo a toggle aside

Events == {"play", "pause", "put", "grab", "pick", "skip", "skipmix", "hold",
           "toggle", "now"}

ASSUME AutoMixAssumption ==
    /\ None \notin Tracks \cup {"A", "B"} /\ Kinds \subseteq Events
    /\ Total \in Nat /\ Ramp \in Nat \ {0}

ASSUME StartAssumption ==
    /\ Playlist \in Seq(Tracks) /\ Wanted \subseteq Tracks
    /\ Start \subseteq [{"A", "B"} -> Tracks \cup {None}]

VARIABLES
    track,    \* deck -> what is on it: its buffer, and deckTrack once rendered
    playing,  \* the decks that play
    at,       \* deck -> its position
    looping,  \* the decks in a loop
    grabbed,  \* the crossfader is not where AUTO left it
    auto,     \* the mixer, see Mixer
    spent     \* how many of the Events have happened

decks == <<track, playing, at, looping>>
vars == <<decks, grabbed, auto, spent>>

Decks == {"A", "B"}
Other(d) == IF d = "A" THEN "B" ELSE "A"

\* A load in flight.  A later load of its deck supersedes it (newest); a skip,
\* a cancel or an adoption makes AUTO forget why it asked (fresh, gen).
Load == [by : {"user", "eager", "cue", "advance", "kickoff"},
         deck : Decks, track : Tracks, fresh : BOOLEAN, newest : BOOLEAN]

Mixer ==
    [on : BOOLEAN,
     phase : {"idle", "armed", "preload", "cueing", "mixing", "manual"},
     live : Decks \cup {None}, vid : Tracks \cup {None},
     cued : Decks \cup {None},
     preloading : BOOLEAN, eagerLoading : BOOLEAN,
     preloaded : (Decks \X Tracks) \cup {<<>>},
     next : Tracks \cup {None},
     plan : {"none", "plain", "extend"},      \* extend: with a loop hold
     exit : {"none", "planned", "now"},       \* mixOutTime
     elapsed : 0 .. Ramp,
     missed : SUBSET Tracks,                  \* loadFails, of MAX_LOAD_FAILS 2
     was : SUBSET Decks,                      \* wasPlaying
     lent : SUBSET {"fx", "glide", "quiet"},  \* borrowed and not given back
     dull : SUBSET Decks,                     \* decks with AUTO's EQ, filter, lock
     holdLoop : Decks \cup {None},
     queue : Seq(Tracks), loads : SUBSET Load]

TypeOK ==
    /\ track \in [Decks -> Tracks \cup {None}]
    /\ playing \subseteq Decks /\ looping \subseteq Decks
    /\ at \in [Decks -> 0 .. 3]
    /\ grabbed \in BOOLEAN
    /\ auto \in Mixer /\ spent \in 0 .. Total

Happens(kind) == kind \in Kinds /\ spent < Total /\ spent' = spent + 1

-----------------------------------------------------------------------------
(* The mixer's own bookkeeping.                                            *)

ResetArm(m) ==
    [m EXCEPT !.preloading = FALSE, !.elapsed = 0, !.plan = "none", !.exit = "none",
              !.next = None, !.preloaded = <<>>]

\* gen++
Forget(m) == [m EXCEPT !.loads = {[l EXCEPT !.fresh = FALSE] : l \in @}]

\* loadTrackToDeck: of the loads of a deck only the newest may land
Begin(m, by, d, v) ==
    [m EXCEPT !.loads = {[l EXCEPT !.newest = @ /\ l.deck # d] : l \in @}
                 \cup {[by |-> by, deck |-> d, track |-> v, fresh |-> TRUE, newest |-> TRUE]}]

\* what a filter leaves, in its order
Without(q, v) ==
    LET left == {i \in DOMAIN q : q[i] # v}
        Nth(n) == CHOOSE i \in left : Cardinality({j \in left : j < i}) = n - 1
    IN  [n \in 1 .. Cardinality(left) |-> q[Nth(n)]]
Popped(q) == IF q = <<>> THEN q ELSE Tail(q)

\* (a mutant) the cue forgotten, but the window kept
AbandonCueAlone(m) == [m EXCEPT !.holdLoop = None, !.dull = @ \ {m.cued}, !.cued = None]

\* abandonCue: the loop, the quiet window, the cued deck's EQ and lock
AbandonCue(m) ==
    [m EXCEPT !.holdLoop = None, !.lent = @ \ {"quiet"}, !.dull = @ \ {m.cued}, !.cued = None]

\* (a mutant) a miss is counted and that is all
MissedAgain(m, v) == [m EXCEPT !.missed = @ \cup {v}]

\* landed(): the second miss of a track drops it from the queue
Missed(m, v) ==
    IF v \in m.missed
    THEN [m EXCEPT !.missed = @ \ {v}, !.queue = Without(@, v), !.preloaded = <<>>]
    ELSE [m EXCEPT !.missed = @ \cup {v}]
Landed(m, v) == [m EXCEPT !.missed = @ \ {v}]

\* where cancel and skip leave the phase
Rearm(m) == [ResetArm(m) EXCEPT !.phase = IF m.live = None THEN "idle" ELSE "armed"]

AdoptLive(m, d) ==
    [ResetArm(AbandonCue(Forget(m))) EXCEPT !.live = d, !.vid = track[d], !.phase = "armed"]

\* what a step does to the loops: the one AUTO holds is taken or let go of
Loops ==
    looping' = IF auto'.holdLoop = auto.holdLoop THEN looping
               ELSE (looping \ {auto.holdLoop}) \cup ({auto'.holdLoop} \ {None})

-----------------------------------------------------------------------------
(* A tick: reconcile, the branch of the phase, and what reconcile's call   *)
(* of advanceToNext does once the tick has returned.                       *)

\* (a mutant) the deck it was on, whatever plays
DecideStale(m) == IF m.live # None THEN m.live ELSE CHOOSE d \in Decks : d \in playing

\* decideLive, of the decks that play
DecideLive(m) ==
    LET rose == playing \ m.was
    IN  IF Cardinality(playing) = 1 THEN CHOOSE d \in playing : TRUE
        ELSE IF Cardinality(rose) = 1 THEN CHOOSE d \in rose : TRUE
        ELSE IF m.live # None THEN m.live ELSE "A"

Blending(m) == m.phase \in {"mixing", "manual"}

Reconcile(m) ==
    LET n == [m EXCEPT !.was = playing]
        d == DecideLive(m)
    IN  IF Blending(m) THEN n
        ELSE IF playing # {}
             THEN IF m.live # d \/ m.vid # track[d] THEN AdoptLive(n, d) ELSE n
        ELSE IF m.live = None THEN [n EXCEPT !.phase = "idle"] ELSE n

Ended(m, pos) == m.live # None /\ playing = {} /\ pos[m.live] = 3 /\ ~Blending(m)

\* advanceToNext up to its load, when the track of m has ended
Onward(m, pos) ==
    IF Ended(m, pos) /\ ~m.preloading /\ m.queue # <<>>
    THEN Begin([m EXCEPT !.preloading = TRUE], "advance", Other(m.live), Head(m.queue))
    ELSE m

TryKickoff(m, pos) ==
    LET d == IF track["A"] # None THEN "A" ELSE "B"
    IN  /\ m.phase = "idle"
        /\ auto' = IF track[d] # None
                   THEN IF m.live # d \/ m.vid # track[d] THEN AdoptLive(m, d) ELSE m
                   ELSE IF m.preloading \/ m.queue = <<>> THEN m
                   ELSE Begin([m EXCEPT !.preloading = TRUE, !.queue = Tail(@)],
                              "kickoff", "A", Head(m.queue))
        /\ UNCHANGED <<playing, grabbed>> /\ at' = pos

EnsurePreload(m) ==
    LET d == Other(m.live)
    IN  IF m.eagerLoading \/ m.preloading \/ d \in playing \/ m.queue = <<>> THEN m
        ELSE IF track[d] = Head(m.queue) THEN [m EXCEPT !.preloaded = <<d, Head(m.queue)>>]
        ELSE Begin([m EXCEPT !.eagerLoading = TRUE], "eager", d, Head(m.queue))

\* mixNow sets the exit to where the deck is
Leading(m, pos) == m.exit = "now" \/ pos[m.live] >= 1
Leaving(m, pos) == m.exit = "now" \/ pos[m.live] >= 2

TickArmed(m, pos) ==
    /\ m.phase = "armed"
    /\ auto' = IF m.live = None THEN [m EXCEPT !.phase = "idle"]
               ELSE IF m.live \notin playing THEN Onward(m, pos)
               ELSE [EnsurePreload(m) EXCEPT
                        !.exit = IF @ = "none" THEN "planned" ELSE @,
                        !.phase = IF Leading(m, pos) THEN "preload" ELSE @]
    /\ UNCHANGED <<playing, grabbed>> /\ at' = pos

\* the cue: a plan and its exit, the incoming deck's bass cut, the fader on the
\* live deck, the quiet window
CueUp(m, d, v, p) ==
    [m EXCEPT !.next = v, !.plan = p, !.exit = "planned", !.cued = d, !.phase = "cueing",
              !.dull = @ \cup {d}, !.lent = @ \cup {"quiet"}, !.preloading = FALSE]
Plans == {"plain", "extend"}

TickPreload(m, pos) ==
    LET d == Other(m.live)
        waiting == m.preloading \/ m.eagerLoading \/ m.live = None
        ready == m.preloaded = <<d, track[d]>>
    IN  /\ m.phase = "preload"
        /\ \/ /\ waiting
              /\ auto' = Onward(m, pos) /\ UNCHANGED grabbed /\ at' = pos
           \/ /\ ~waiting /\ d \in playing
              /\ auto' = [m EXCEPT !.phase = "armed"] /\ UNCHANGED grabbed /\ at' = pos
           \/ /\ ~waiting /\ d \notin playing /\ ready
              /\ \E p \in Plans : auto' = Onward(CueUp(m, d, track[d], p), pos)
              /\ at' = [pos EXCEPT ![d] = 0]
              /\ grabbed' = FALSE
           \/ /\ ~waiting /\ d \notin playing /\ ~ready
              /\ auto' = IF m.queue = <<>> THEN [m EXCEPT !.phase = "armed"]
                         ELSE Begin([Onward(m, pos) EXCEPT !.preloading = TRUE],
                                    "cue", d, Head(m.queue))
              /\ UNCHANGED grabbed /\ at' = pos
        /\ UNCHANGED playing

\* shouldHoldForStems, as long as it may: the separation of the incoming track
\* is not modelled, nor STEM_WAIT_MAX, which ends the wait before the tail
MayHold(m, pos) == pos[m.live] # 3

\* startMix: the incoming deck plays, its tempo glides, the gesture may borrow
\* devices of the rack.  A loop held on the outgoing deck stays.
StartMix(m) ==
    [m EXCEPT !.phase = "mixing", !.cued = Other(m.live), !.elapsed = 0,
              !.lent = @ \cup {"glide", "fx"}]

TickCueing(m, pos) ==
    LET d == Other(m.live)
        gone == m.live = None \/ d \in playing
    IN  /\ m.phase = "cueing"
        /\ \/ /\ gone
              /\ auto' = [AbandonCue(m) EXCEPT !.phase = "armed"] /\ UNCHANGED playing
           \/ /\ ~gone /\ Leaving(m, pos)
              /\ auto' = StartMix(m) /\ playing' = playing \cup {d}
           \/ /\ ~gone /\ (Leaving(m, pos) => MayHold(m, pos))
              /\ auto' = m /\ UNCHANGED playing
           \/ /\ ~gone /\ ~Leaving(m, pos) /\ pos[m.live] = 1
              /\ m.plan = "extend" /\ m.holdLoop = None
              /\ auto' = [m EXCEPT !.holdLoop = m.live] /\ UNCHANGED playing
        /\ UNCHANGED grabbed /\ at' = pos

\* (a mutant) settled for good
SettleForGood(m) ==
    LET d == Other(m.live)
    IN  /\ auto' = [m EXCEPT !.live = d, !.phase = "settle", !.lent = {}, !.dull = {}]
        /\ playing' = playing \ {m.live}
        /\ UNCHANGED grabbed

Settle(m) ==
    LET d == Other(m.live)
    IN  /\ auto' = [m EXCEPT !.live = d, !.vid = IF m.next = None THEN track[d] ELSE m.next,
                             !.cued = None, !.next = None, !.plan = "none", !.exit = "none",
                             !.elapsed = 0, !.preloaded = <<>>, !.phase = "armed",
                             !.lent = {}, !.dull = {}, !.holdLoop = None, !.queue = Popped(@)]
        /\ playing' = playing \ {m.live}
        /\ grabbed' = FALSE

HandoffToManual(m) ==
    /\ auto' = [m EXCEPT !.phase = "manual", !.cued = None, !.plan = "none", !.exit = "none",
                         !.lent = {}, !.dull = {}, !.holdLoop = None]
    /\ UNCHANGED <<playing, grabbed>>

\* (a mutant) a blend whose outgoing deck stops is frozen
TickMixingOn(m, pos) ==
    LET taken == grabbed \/ Other(m.live) \notin playing
        e == IF m.live \in playing THEN m.elapsed + 1 ELSE m.elapsed
    IN  /\ m.phase = "mixing"
        /\ IF taken THEN HandoffToManual(m)
           ELSE IF e >= Ramp THEN Settle(m)
           ELSE auto' = [m EXCEPT !.elapsed = e] /\ UNCHANGED <<playing, grabbed>>
        /\ at' = pos

\* the blend goes on while the outgoing deck plays, and is done when it is over
\* or the outgoing deck has stopped
TickMixing(m, pos) ==
    LET lost == m.live = None \/ m.plan = "none" \/ m.exit = "none"
        taken == grabbed \/ Other(m.live) \notin playing
        e == IF m.live \in playing THEN m.elapsed + 1 ELSE m.elapsed
    IN  /\ m.phase = "mixing"
        /\ \/ /\ lost /\ m.live = None
              /\ auto' = [m EXCEPT !.phase = "idle"] /\ UNCHANGED <<playing, grabbed>>
           \/ lost /\ m.live # None /\ Settle(m)
           \/ ~lost /\ taken /\ HandoffToManual(m)
           \/ /\ ~lost /\ ~taken
              /\ IF e >= Ramp \/ m.live \notin playing THEN Settle(m)
                 ELSE /\ auto' = [m EXCEPT !.elapsed = e, !.dull = Decks]
                      /\ grabbed' = FALSE /\ UNCHANGED playing
        /\ at' = pos

TickManual(m, pos) ==
    /\ m.phase = "manual"
    /\ auto' = IF playing = {}
               THEN [ResetArm(m) EXCEPT !.live = None, !.vid = None, !.phase = "idle"]
               ELSE IF playing = Decks THEN m
               ELSE LET d == CHOOSE d \in playing : TRUE
                    IN  [ResetArm(m) EXCEPT !.live = d, !.vid = track[d], !.phase = "armed"]
    /\ UNCHANGED <<playing, grabbed>> /\ at' = pos

\* how far the decks may have got since the last tick; a loop AUTO closes ends
\* at the exit
Got == {pos \in [Decks -> 0 .. 3] : \A d \in Decks :
          pos[d] \in IF d \notin playing \/ at[d] = 3 THEN {at[d]}
                     ELSE IF d \in looping THEN {1, 2} ELSE {at[d], at[d] + 1}}

TickAt(m, pos) ==
    LET n == Reconcile(m)
    IN  /\ m.on
        /\ \/ TryKickoff(n, pos) \/ TickArmed(n, pos) \/ TickPreload(n, pos)
           \/ TickCueing(n, pos) \/ TickMixing(n, pos) \/ TickManual(n, pos)
        /\ Loops /\ UNCHANGED track

Tick == (\E pos \in Got : TickAt(auto, pos)) /\ UNCHANGED spent

-----------------------------------------------------------------------------
(* What a load does when it ends: on the deck, then where it was awaited.  *)

\* landed() asks the deck's track as last rendered
Sits(l) == track[l.deck] = l.track
Stands(l, m) == m.on /\ l.fresh

EagerDone(l, m, inUse) ==
    LET n == [m EXCEPT !.eagerLoading = FALSE]
    IN  IF ~Stands(l, m) \/ m.live = None \/ inUse THEN n
        ELSE IF Sits(l) THEN [Landed(n, l.track) EXCEPT !.preloaded = <<l.deck, l.track>>]
        ELSE Missed(n, l.track)

\* (a mutant) no finally
CueDoneOrNot(l, m, inUse, p) ==
    IF Stands(l, m) /\ m.live # None /\ ~inUse /\ Sits(l)
    THEN CueUp(Landed(m, l.track), l.deck, l.track, p)
    ELSE [m EXCEPT !.phase = "armed"]

CueDone(l, m, inUse, p) ==
    LET n == [m EXCEPT !.preloading = FALSE]
    IN  IF ~Stands(l, m) \/ m.live = None \/ inUse THEN [n EXCEPT !.phase = "armed"]
        ELSE IF Sits(l) THEN CueUp(Landed(n, l.track), l.deck, l.track, p)
        ELSE [Missed(n, l.track) EXCEPT !.phase = "armed"]

\* the continuations of advanceToNext and of tryKickoff play the deck
AdvanceDone(l, m) ==
    LET n == [m EXCEPT !.preloading = FALSE]
    IN  IF ~Stands(l, m) THEN n
        ELSE IF Sits(l)
             THEN [ResetArm(Landed(n, l.track)) EXCEPT
                     !.live = l.deck, !.vid = l.track, !.phase = "armed", !.queue = Popped(@)]
        ELSE Missed(n, l.track)

KickoffDone(l, m) ==
    LET n == [m EXCEPT !.preloading = FALSE]
    IN  IF ~Stands(l, m) THEN n
        ELSE IF Sits(l) THEN [Landed(n, l.track) EXCEPT
                                !.live = "A", !.vid = l.track, !.phase = "armed"]
        ELSE Missed(n, l.track)

\* inUse: whether the deck plays once the load is done with it
After(l, inUse) ==
    LET m == [auto EXCEPT !.loads = @ \ {l}]
        starts == l.by \in {"advance", "kickoff"} /\ Stands(l, m) /\ Sits(l)
        cues == l.by = "cue" /\ Stands(l, m) /\ m.live # None /\ ~inUse /\ Sits(l)
    IN  /\ \E p \in Plans :
             auto' = CASE l.by = "user" -> m
                       [] l.by = "eager" -> EagerDone(l, m, inUse)
                       [] l.by = "cue" -> CueDone(l, m, inUse, p)
                       [] l.by = "advance" -> AdvanceDone(l, m)
                       [] l.by = "kickoff" -> KickoffDone(l, m)
        /\ playing' = ((IF inUse THEN playing ELSE playing \ {l.deck})
                        \cup (IF starts THEN {l.deck} ELSE {}))
        /\ grabbed' = (grabbed /\ ~starts /\ ~cues)

\* it lands: setBuffer stops the deck and its loop
Lands(l) ==
    /\ l.newest /\ After(l, FALSE)
    /\ track' = [track EXCEPT ![l.deck] = l.track]
    /\ at' = [at EXCEPT ![l.deck] = 0]
    /\ looping' = looping \ {l.deck}

\* or it does not: it failed, or a later one superseded it; a deck that holds
\* the track all the same is cued to its start
Fails(l) ==
    /\ After(l, l.deck \in playing)
    /\ at' = [at EXCEPT ![l.deck] = IF l.by = "cue" /\ auto'.phase = "cueing" THEN 0 ELSE @]
    /\ UNCHANGED <<track, looping>>

LoadEnds(l) == (Lands(l) \/ Fails(l)) /\ UNCHANGED spent

\* a deck comes to the end of its file
RunsOut(d) ==
    /\ d \in playing /\ at[d] = 3 /\ playing' = playing \ {d}
    /\ UNCHANGED <<track, at, looping, grabbed, auto, spent>>

-----------------------------------------------------------------------------
(* The user, at the decks and at AUTO's controls.                          *)

Play(d) == /\ Happens("play") /\ track[d] # None /\ d \notin playing
           /\ playing' = playing \cup {d}
           /\ UNCHANGED <<track, at, looping, grabbed, auto>>

Pause(d) == /\ Happens("pause") /\ d \in playing
            /\ playing' = playing \ {d}
            /\ UNCHANGED <<track, at, looping, grabbed, auto>>

Put(d, v) == /\ Happens("put") /\ auto' = Begin(auto, "user", d, v)
             /\ UNCHANGED <<decks, grabbed>>

Grab == /\ Happens("grab") /\ grabbed' = TRUE
        /\ UNCHANGED <<decks, auto>>

\* enqueueNext
Pick(v) == /\ Happens("pick")
           /\ auto' = [auto EXCEPT !.queue = <<v>> \o Without(@, v)]
           /\ UNCHANGED <<decks, grabbed>>

MixNow == /\ Happens("now") /\ auto.live # None
          /\ auto.phase \in {"armed", "preload", "cueing"}
          /\ TickAt([auto EXCEPT !.exit = "now"], at)

\* a skip while a blend is on leaves the blend where it is
Skip == /\ Happens(IF auto.phase = "mixing" THEN "skipmix" ELSE "skip") /\ auto.on
        /\ auto' = Rearm([AbandonCue(Forget(auto)) EXCEPT
                            !.queue = IF auto.next = None THEN @ ELSE Without(@, auto.next)])
        /\ Loops /\ UNCHANGED <<track, playing, at, grabbed>>

\* (a mutant) the blend's branch never reaches abandonCue
CancelledLoosely(m) ==
    IF m.phase = "mixing" /\ m.live # None
    THEN Rearm([Forget(m) EXCEPT !.lent = @ \ {"fx", "glide"}, !.dull = {}, !.holdLoop = None])
    ELSE Rearm([AbandonCue(Forget(m)) EXCEPT !.lent = @ \ {"fx"}])

\* cancel(): a blend is undone on both decks, and the incoming one stops;
\* otherwise the cue is abandoned
Cancelled(m) ==
    IF m.phase = "mixing" /\ m.live # None
    THEN Rearm([Forget(m) EXCEPT !.lent = {}, !.dull = {}, !.holdLoop = None])
    ELSE Rearm([AbandonCue(Forget(m)) EXCEPT !.lent = @ \ {"fx"}])
Cancel(m) ==
    /\ auto' = m /\ Loops
    /\ playing' = IF auto.phase = "mixing" /\ auto.live # None
                  THEN playing \ {Other(auto.live)} ELSE playing
    /\ grabbed' = (grabbed /\ auto.phase # "mixing")

Hold == Happens("hold") /\ Cancel(Cancelled(auto)) /\ UNCHANGED <<track, at>>

Disable == /\ Happens("toggle") /\ auto.on
           /\ Cancel([Cancelled(auto) EXCEPT !.on = FALSE, !.phase = "idle"])
           /\ UNCHANGED <<track, at>>

\* of two playing decks AUTO takes A
Enabled(m, t, p) ==
    LET d == IF "A" \in p THEN "A" ELSE IF "B" \in p THEN "B" ELSE None
    IN  [m EXCEPT !.on = TRUE, !.was = p, !.live = d,
                  !.vid = IF d = None THEN None ELSE t[d],
                  !.phase = IF d = None THEN "idle" ELSE "armed"]

\* (switching it on again does not count)
Enable == /\ "toggle" \in Kinds /\ ~auto.on
          /\ auto' = Enabled(auto, track, playing)
          /\ UNCHANGED <<decks, grabbed, spent>>

-----------------------------------------------------------------------------
Fresh == [on |-> FALSE, phase |-> "idle", live |-> None, vid |-> None, cued |-> None,
          preloading |-> FALSE, eagerLoading |-> FALSE, preloaded |-> <<>>, next |-> None,
          plan |-> "none", exit |-> "none", elapsed |-> 0, missed |-> {}, was |-> {},
          lent |-> {}, dull |-> {}, holdLoop |-> None, queue |-> Playlist, loads |-> {}]

Init ==
    /\ track \in Start
    /\ playing \in SUBSET {d \in Decks : track[d] # None}
    /\ at = [d \in Decks |-> 0] /\ looping = {} /\ grabbed = FALSE
    /\ auto = Enabled(Fresh, track, playing) /\ spent = 0

DeckEnds == \E d \in Decks : RunsOut(d)
User ==
    \/ \E d \in Decks : Play(d) \/ Pause(d) \/ \E v \in Tracks : Put(d, v)
    \/ Grab \/ MixNow \/ Skip \/ Hold \/ Disable \/ Enable
    \/ \E v \in Wanted : Pick(v)

Next == Tick \/ DeckEnds \/ User \/ \E l \in auto.loads : LoadEnds(l)

Spec == Init /\ [][Next]_vars

\* The interval ticks, and what AUTO waits for ends one way or the other.
FairSpec ==
    /\ Spec /\ WF_vars(Tick)
    /\ WF_vars(\E l \in auto.loads : l.by \in {"cue", "advance", "kickoff"} /\ LoadEnds(l))

-----------------------------------------------------------------------------
(* What AUTO promises.                                                     *)

\* Nothing AUTO holds beyond a tick is without the record that lets go of it: a
\* deck that loops is the one releaseHoldLoop frees, and the quiet window that
\* keeps every separation waiting belongs to a cue, which settle, cancel,
\* abandonCue or handoffToManual ends.
HoldsAreRemembered ==
    /\ looping \subseteq {auto.holdLoop}
    /\ "quiet" \in auto.lent => auto.cued # None

\* AUTO never waits for a load that is over: while a flag keeps it from
\* loading, the load that will clear the flag is in flight, whatever skips,
\* cancels and supersessions came between.
WaitsForALoad ==
    /\ auto.preloading => \E l \in auto.loads : l.by \in {"cue", "advance", "kickoff"}
    /\ auto.eagerLoading => \E l \in auto.loads : l.by = "eager"

\* Switched off, whichever way it got there, AUTO leaves no deck looping and
\* keeps neither a device of the rack nor the quiet window.
OffGivesBack == ~auto.on => looping = {} /\ auto.lent \subseteq {"glide"}

\* A blend is over in the end, also when the user pauses, loads, grabs or holds.
MixEnds == auto.phase = "mixing" ~> auto.phase # "mixing"

\* A track that ran out is followed by the next while the queue has one: failed
\* loads are counted and their track dropped, and no load blocks another forever.
DeadAir == auto.on /\ Ended(auto, at) /\ auto.queue # <<>>
DeadAirEnds == DeadAir ~> ~DeadAir

\* AUTO comes to follow the one deck that plays, from any phase.
Astray == auto.on /\ \E d \in Decks : playing = {d} /\ auto.live # d
FollowsThePlayingDeck == Astray ~> ~Astray
=============================================================================
