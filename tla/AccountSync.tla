----------------------------- MODULE AccountSync -----------------------------
(***************************************************************************)
(* The two blobs an account keeps on every device: settings                *)
(* (htl/state/settingsSync.ts, with the colour broadcast of App.tsx) and   *)
(* the library (htl/library/useLibrarySync.ts), mirrored in one row of the *)
(* database each (server/db/userdata.ts).  The newest stamp wins.          *)
(*                                                                         *)
(* A behaviour follows one blob; only settings have colours, which the     *)
(* account's room relays at once to its other devices.  A value is the     *)
(* time of the edit that made it, so no edit restores an earlier value.    *)
(* One clock serves all devices, and no two devices stamp at one time; the *)
(* two effects of an edit of one device may.                               *)
(***************************************************************************)
EXTENDS Naturals, Sequences, FiniteSets

CONSTANTS Devices, None,
          Kinds,    \* which of the Events may happen,
          Total     \* and how many in all

Events == {"colour", "rest", "early", "restart", "drop", "lose"}

ASSUME SyncAssumption == Kinds \subseteq Events /\ Total \in Nat

VARIABLES
    blob,    \* which of the two blobs this behaviour follows
    now,     \* Date.now(), advanced by every stamp
    row,     \* the account's row: its data and updated_at
    mem,     \* device -> its copy, persisted locally
    stamp,   \* device -> localTs, persisted locally
    phase,   \* device -> reconciling with the server, or hydrated
    first,   \* device -> the copy its first render closed over
    synced,  \* device -> lastSynced
    pull,    \* device -> its GET: none, asked, or the answer
    timer,   \* device -> the debounced push
    pushes,  \* PUTs in flight, in any order
    online,  \* device -> its socket to the account's room is open
    sig,     \* device -> liveColorSig
    due,     \* device -> its colour effect is about to run; nothing else runs on it
    nudges,  \* device -> colour broadcasts on their way to it
    spent,   \* how many of the Events have happened
    torn     \* which of them have, and what else may tear the copies (history)

wire   == <<pull, timer, pushes>>
room   == <<online, sig, due, nudges>>
copies == <<mem, stamp, synced>>
vars   == <<blob, now, row, copies, phase, first, wire, room, spent, torn>>

Data == [c : Nat, r : Nat]
Put == [data : Data, ts : Nat]
ASSUME NoneIsNoData == None \notin Data /\ None \notin Put
NoPut == [data |-> [c |-> 0, r |-> 0], ts |-> 0]
Get(is) == [is |-> is, put |-> NoPut]

TypeOK ==
    /\ blob \in {"settings", "library"} /\ now \in Nat
    /\ row \in Put /\ pushes \subseteq Put
    /\ mem \in [Devices -> Data] /\ first \in [Devices -> Data]
    /\ stamp \in [Devices -> Nat]
    /\ phase \in [Devices -> {"pulling", "on"}]
    /\ synced \in [Devices -> Data \cup {None}]
    /\ pull \in [Devices -> [is : {"none", "asked", "answered"}, put : Put \cup {NoPut}]]
    /\ timer \in [Devices -> Put \cup {None}]
    /\ online \in [Devices -> BOOLEAN]
    /\ sig \in [Devices -> Nat \cup {None}] /\ due \in [Devices -> BOOLEAN]
    /\ nudges \in [Devices -> Seq([c : Nat, ts : Nat])]
    /\ spent \in Nat /\ torn \subseteq Events \cup {"echo", "between"}

\* an account that has saved once; a device may be new to it
Init ==
    /\ blob \in {"settings", "library"}
    /\ now = 1 /\ row = [data |-> [c |-> 1, r |-> 1], ts |-> 1]
    /\ mem = [d \in Devices |-> row.data] /\ first = mem
    /\ stamp \in [Devices -> {0, 1}]
    /\ phase = [d \in Devices |-> "pulling"]
    /\ synced = [d \in Devices |-> None]
    /\ pull = [d \in Devices |-> Get("asked")]
    /\ timer = [d \in Devices |-> None] /\ pushes = {}
    /\ online = [d \in Devices |-> FALSE] /\ sig = [d \in Devices |-> None]
    /\ due = [d \in Devices |-> FALSE] /\ nudges = [d \in Devices |-> <<>>]
    /\ spent = 0 /\ torn = {}

Happens(e) ==
    /\ e \in Kinds /\ spent < Total
    /\ spent' = spent + 1 /\ torn' = torn \cup {e}
Quietly == UNCHANGED <<spent, torn>>
Echoes(b) == UNCHANGED spent /\ torn' = IF b THEN torn \cup {"echo"} ELSE torn

-----------------------------------------------------------------------------
(* Renders.  The two effects that run when the settings of d become s: the *)
(* push of a change and, after it, the broadcast of its colour, each with  *)
(* a stamp of its own.  st and sy are the stamp and lastSynced the code    *)
(* had set before.                                                         *)

Pushes(d, s, sy) == phase'[d] = "on" /\ s # sy
Broadcasts(d, s) == online[d] /\ sig[d] # None /\ s.c # sig[d]

\* The colour effect is due, or only signs what it sees.
Colours(d, s) ==
    /\ due' = [due EXCEPT ![d] = Broadcasts(d, s)]
    /\ sig' = [sig EXCEPT ![d] = IF online[d] /\ ~Broadcasts(d, s) THEN s.c ELSE sig[d]]
    /\ UNCHANGED <<online, nudges>>

\* Mutant: a change is pushed under the stamp of the last one.
RenderUnstamped(d, s, st, sy) ==
    LET t == now + 1
        p == Pushes(d, s, sy)
    IN  /\ mem' = [mem EXCEPT ![d] = s]
        /\ stamp' = [stamp EXCEPT ![d] = st]
        /\ now' = IF p \/ t \in {s.c, s.r} THEN t ELSE now
        /\ synced' = [synced EXCEPT ![d] = IF p THEN s ELSE sy]
        /\ timer' = IF p THEN [timer EXCEPT ![d] = [data |-> s, ts |-> st]] ELSE timer
        /\ Colours(d, s)

\* Mutant: a change during the debounce leaves the waiting push as it is.
RenderOnce(d, s, st, sy) ==
    LET t == now + 1
        p == Pushes(d, s, sy)
    IN  /\ mem' = [mem EXCEPT ![d] = s]
        /\ stamp' = [stamp EXCEPT ![d] = IF p THEN t ELSE st]
        /\ now' = IF p \/ t \in {s.c, s.r} THEN t ELSE now
        /\ synced' = [synced EXCEPT ![d] = IF p THEN s ELSE sy]
        /\ timer' = IF p /\ timer[d] = None
                    THEN [timer EXCEPT ![d] = [data |-> s, ts |-> t]] ELSE timer
        /\ Colours(d, s)

Render(d, s, st, sy) ==
    LET t == now + 1
        p == Pushes(d, s, sy)
    IN  /\ mem' = [mem EXCEPT ![d] = s]
        /\ stamp' = [stamp EXCEPT ![d] = IF p THEN t ELSE st]
        /\ now' = IF p \/ t \in {s.c, s.r} THEN t ELSE now
        /\ synced' = [synced EXCEPT ![d] = IF p THEN s ELSE sy]
        /\ timer' = IF p THEN [timer EXCEPT ![d] = [data |-> s, ts |-> t]] ELSE timer
        /\ Colours(d, s)

\* d sends its colours to the other devices under a stamp t of its own
Sends(d, t) ==
    /\ stamp' = [stamp EXCEPT ![d] = t] /\ now' = t
    /\ sig' = [sig EXCEPT ![d] = mem[d].c]
    /\ nudges' = [e \in Devices |->
          IF e # d /\ online[e] THEN Append(nudges[e], [c |-> mem[d].c, ts |-> t]) ELSE nudges[e]]

\* the colour effect; another device may have stamped since the push effect did
Broadcast(d) ==
    /\ due[d] /\ due' = [due EXCEPT ![d] = FALSE]
    /\ Sends(d, now + 1) \/ (stamp[d] = now /\ Sends(d, now))
    /\ torn' = IF stamp[d] = now THEN torn ELSE torn \cup {"between"}
    /\ UNCHANGED <<blob, row, mem, synced, phase, first, wire, online, spent>>

\* a change by the user; before hydration it is not pushed
Edit(d, f) ==
    /\ blob = "library" => f = "r"
    /\ Happens(IF phase[d] = "pulling" THEN "early" ELSE IF f = "c" THEN "colour" ELSE "rest")
    /\ ~due[d] /\ UNCHANGED phase
    /\ Render(d, [mem[d] EXCEPT ![f] = now + 1], stamp[d], synced[d])
    /\ UNCHANGED <<blob, row, first, pull, pushes>>

-----------------------------------------------------------------------------
(* The account's row.                                                      *)

\* Mutant: a timer fires that was never set, or that a reload has cleared.
FirePushAnyway(d) ==
    /\ pushes' = pushes \cup {timer[d]}
    /\ timer' = [timer EXCEPT ![d] = None]
    /\ UNCHANGED <<blob, now, row, copies, phase, first, pull, room>> /\ Quietly

FirePush(d) ==
    /\ ~due[d] /\ timer[d] # None
    /\ pushes' = pushes \cup {timer[d]}
    /\ timer' = [timer EXCEPT ![d] = None]
    /\ UNCHANGED <<blob, now, row, copies, phase, first, pull, room>> /\ Quietly

\* Mutant: the row takes whatever arrives last.
ArriveAnyway(p) ==
    /\ p \in pushes /\ pushes' = pushes \ {p}
    /\ row' = p
    /\ UNCHANGED <<blob, now, copies, phase, first, pull, timer, room>> /\ Quietly

\* putUserSettings, putUserLibrary
Arrive(p) ==
    /\ p \in pushes /\ pushes' = pushes \ {p}
    /\ row' = IF p.ts > row.ts /\ p.data # row.data THEN p ELSE row
    /\ UNCHANGED <<blob, now, copies, phase, first, pull, timer, room>> /\ Quietly
Lose(p) ==
    /\ p \in pushes /\ pushes' = pushes \ {p}
    /\ Happens("lose")
    /\ UNCHANGED <<blob, now, row, copies, phase, first, pull, timer, room>>

Poll(d) ==
    /\ ~due[d] /\ phase[d] = "on" /\ pull[d].is = "none"
    /\ pull' = [pull EXCEPT ![d] = Get("asked")]
    /\ UNCHANGED <<blob, now, row, copies, phase, first, timer, pushes, room>> /\ Quietly
Answer(d) ==
    /\ pull[d].is = "asked"
    /\ \/ pull' = [pull EXCEPT ![d] = [is |-> "answered", put |-> row]] /\ Quietly
       \/ pull' = [pull EXCEPT ![d] = Get("answered")] /\ Happens("lose")
    /\ UNCHANGED <<blob, now, row, copies, phase, first, timer, pushes, room>>

Answered(d) == ~due[d] /\ pull[d].is = "answered"
\* Mutant: any answer but a failed one is taken.
NewerThanNothing(d) == pull[d].put.ts > 0

\* newer than what this device has by the time the answer is here;
\* a failed GET (NoPut) never is
Newer(d) == pull[d].put.ts > stamp[d]

\* the answer replaces the copy; the effects see it as any other change
Adopt(d) ==
    LET p == pull[d].put
    IN  Render(d, p.data, p.ts, p.data) /\ Echoes(Broadcasts(d, p.data))

PollLands(d) ==
    /\ phase[d] = "on" /\ Answered(d)
    /\ pull' = [pull EXCEPT ![d] = Get("none")] /\ UNCHANGED phase
    /\ \/ /\ Newer(d) /\ pull[d].put.data # synced[d]
          /\ Adopt(d)
       \/ /\ Newer(d) /\ pull[d].put.data = synced[d]
          /\ stamp' = [stamp EXCEPT ![d] = pull[d].put.ts]
          /\ UNCHANGED <<now, mem, synced, timer, room>> /\ Quietly
       \/ ~Newer(d) /\ UNCHANGED <<now, copies, timer, room>> /\ Quietly
    /\ UNCHANGED <<blob, row, first, pushes>>

\* the reconciliation at the mount; a failed GET reads as an empty account
MountLands(d) ==
    /\ phase[d] = "pulling" /\ Answered(d)
    /\ phase' = [phase EXCEPT ![d] = "on"]
    /\ pull' = [pull EXCEPT ![d] = Get("none")]
    /\ \/ /\ Newer(d)
          /\ Adopt(d)
          /\ UNCHANGED pushes
       \/ /\ ~Newer(d)
          /\ LET s == IF blob = "settings" THEN first[d] ELSE mem[d]
                 t == IF stamp[d] # 0 THEN stamp[d] ELSE now + 1
             IN  /\ pushes' = pushes \cup {[data |-> s, ts |-> t]}
                 /\ stamp' = [stamp EXCEPT ![d] = t]
                 /\ now' = IF stamp[d] # 0 THEN now ELSE now + 1
                 /\ synced' = [synced EXCEPT ![d] = s]
          /\ UNCHANGED <<mem, timer, room>> /\ Quietly
    /\ UNCHANGED <<blob, row, first>>

\* a reload keeps the local copy and its stamp, and loses the debounce
Restart(d) ==
    /\ ~due[d] /\ phase[d] = "on" /\ Happens("restart")
    /\ phase' = [phase EXCEPT ![d] = "pulling"]
    /\ first' = [first EXCEPT ![d] = mem[d]]
    /\ synced' = [synced EXCEPT ![d] = None]
    /\ pull' = [pull EXCEPT ![d] = Get("asked")]
    /\ timer' = [timer EXCEPT ![d] = None]
    /\ online' = [online EXCEPT ![d] = FALSE]
    /\ sig' = [sig EXCEPT ![d] = None]
    /\ nudges' = [nudges EXCEPT ![d] = <<>>]
    /\ UNCHANGED <<blob, now, row, mem, stamp, pushes, due>>

-----------------------------------------------------------------------------
(* The account's room.                                                     *)

\* the first render online only primes the signature
GoOnline(d) ==
    /\ blob = "settings" /\ ~online[d] /\ ~due[d]
    /\ online' = [online EXCEPT ![d] = TRUE]
    /\ LET b == sig[d] # None /\ sig[d] # mem[d].c
       IN  Echoes(b) /\ IF b THEN Sends(d, now + 1)
                        ELSE /\ sig' = [sig EXCEPT ![d] = mem[d].c]
                             /\ UNCHANGED <<stamp, now, nudges>>
    /\ UNCHANGED <<blob, row, mem, synced, phase, first, wire, due>>
Drop(d) ==
    /\ ~due[d] /\ online[d] /\ Happens("drop")
    /\ online' = [online EXCEPT ![d] = FALSE]
    /\ nudges' = [nudges EXCEPT ![d] = <<>>]
    /\ UNCHANGED <<blob, now, row, copies, phase, first, wire, sig, due>>

\* onRoomSettings: newer colours are merged, and signed so as not to echo
Nudge(d) ==
    /\ ~due[d] /\ nudges[d] # <<>>
    /\ LET n == Head(nudges[d])
           s == [mem[d] EXCEPT !.c = n.c]
           p == phase[d] = "on" /\ s # synced[d]
           t == IF p THEN now + 1 ELSE n.ts
       IN  \/ /\ n.ts > stamp[d]
              /\ mem' = [mem EXCEPT ![d] = s]
              /\ sig' = [sig EXCEPT ![d] = n.c]
              /\ stamp' = [stamp EXCEPT ![d] = t]
              /\ now' = IF p THEN now + 1 ELSE now
              /\ synced' = IF p THEN [synced EXCEPT ![d] = s] ELSE synced
              /\ timer' = IF p THEN [timer EXCEPT ![d] = [data |-> s, ts |-> t]] ELSE timer
              /\ Echoes(TRUE)
           \/ n.ts <= stamp[d] /\ UNCHANGED <<now, copies, timer, sig>> /\ Quietly
    /\ nudges' = [nudges EXCEPT ![d] = Tail(@)]
    /\ UNCHANGED <<blob, row, phase, first, pull, pushes, online, due>>

-----------------------------------------------------------------------------
Next ==
    \/ \E d \in Devices : FirePush(d) \/ Poll(d) \/ Answer(d) \/ PollLands(d) \/ MountLands(d)
    \/ \E d \in Devices : Broadcast(d) \/ Nudge(d) \/ Restart(d) \/ GoOnline(d) \/ Drop(d)
    \/ \E d \in Devices, f \in {"c", "r"} : Edit(d, f)
    \/ \E p \in pushes : Arrive(p) \/ Lose(p)

Spec == Init /\ [][Next]_vars

(* Timers fire, requests are answered, and a device keeps polling.         *)
Fairness ==
    /\ \A d \in Devices :
          /\ WF_vars(FirePush(d)) /\ WF_vars(Broadcast(d)) /\ WF_vars(Nudge(d))
          /\ WF_vars(Poll(d) \/ Answer(d) \/ PollLands(d) \/ MountLands(d))
    /\ WF_vars(\E p \in pushes : Arrive(p))

FairSpec == Spec /\ Fairness

-----------------------------------------------------------------------------
(* Properties                                                              *)

\* the ways in which a copy changes, or stays behind, without its stamp
Torn == torn \cap {"early", "echo", "lose", "between"} # {}

Stamped(d) == [data |-> mem[d], ts |-> stamp[d]]
Puts ==
    {row} \cup pushes \cup {pull[d].put : d \in Devices}
    \cup ({timer[d] : d \in Devices} \ {None})
    \cup {Stamped(d) : d \in {e \in Devices : phase[e] = "on"}}

\* What last-write-wins rests on: wherever it is found, in the row, in a
\* request or in a copy, a stamp names one value (stampLocal beside every
\* change of the copy).
OneValuePerStamp == Torn \/ \A p, q \in Puts : p.ts = q.ts => p.data = q.data

\* No edit is left behind: what a hydrated device has and the row does not is in the
\* debounce or in a request, newer than the row and stamped no later than the device,
\* which may have broadcast its colour since.
EditsAreOnTheirWay ==
    Torn \/ \A d \in Devices : phase[d] = "on" =>
        \/ stamp[d] <= row.ts \/ mem[d] = row.data
        \/ \E p \in pushes \cup ({timer[d]} \ {None}) :
               p.data = mem[d] /\ row.ts < p.ts /\ p.ts <= stamp[d]

\* An answer that was on its way while the user went on editing does not
\* replace the edit: a hydrated copy changes only with a newer stamp.
AdoptsOnlyNewer ==
    [][\A d \in Devices : phase[d] = "on" /\ mem'[d] # mem[d] => stamp'[d] > stamp[d]]_vars

\* The last edit wins: the row and every device end with the copy of the device that
\* stamped last, unless an edit came before hydration, an adopted colour was stamped
\* anew, a request was lost, or one device stamped between the two stamps of
\* another's colour edit.  Each of the four breaks it.
LastEdit == (\E d \in Devices : stamp[d] = now) /\ \A d \in Devices : mem[d] = row.data
LastEditWins == <>[](LastEdit \/ Torn)
=============================================================================
