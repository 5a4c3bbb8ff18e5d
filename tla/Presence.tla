------------------------------- MODULE Presence -------------------------------
(***************************************************************************)
(* Who is online.  An account is attached to rooms through sockets.  Every *)
(* upgrade writes it online in the database, in the background and before  *)
(* the room decides: the write may be late or lost, and the upgrade may be *)
(* refused.  A room that sees the last socket of an account close queues   *)
(* it in its storage and arms one alarm for all; the alarm posts those     *)
(* still gone, and the post writes them offline unless something newer was *)
(* written.  Rooms share nothing else.                                     *)
(***************************************************************************)
EXTENDS Integers, FiniteSets

CONSTANTS
  Account, Room,
  Never,       \* no time
  Grace,       \* PRESENCE_GRACE_MS
  MaxSockets,  \* bound: sockets of one account in one room
  MaxWrites,   \* bound: online writes of one account under way
  Horizon      \* bound: nobody comes or goes later

ASSUME PresenceConstants ==
  /\ Never \notin Int /\ Grace \in Nat /\ Horizon \in Nat
  /\ MaxSockets \in Nat /\ MaxWrites \in Nat

VARIABLES
  now,
  asking,   \* upgrades a room has not decided yet
  writes,   \* online writes under way, with the time of their upgrade
  sockets,  \* live sockets of an account in a room
  queue,    \* storage "presenceOff": when the account's last socket closed
  alarm,    \* when the room's alarm is due
  posts,    \* posts to /internal/presence under way
  row,      \* the account's row of the presence table
  \* History, for the properties only:
  tried,    \* when the account's newest upgrade was asked for
  landed,   \* of which upgrade the online write that landed last was
  left,     \* when a room last saw the account's last socket close
  hidden    \* accounts that may have left without any room announcing it

history == <<tried, landed, left, hidden>>
vars == <<now, asking, writes, sockets, queue, alarm, posts, row, history>>

Time == Nat \cup {Never}
Post == [acct : Account, closedAt : Nat]
Write == [acct : Account, since : Nat]
Present(a, r) == sockets[r][a] > 0         \* acctHasLiveSocket
Attached(a) == \E r \in Room : Present(a, r)
Asking(a) == \E r \in Room : a \in asking[r]

\* A leaving of a at t or later is on its way to the database.
Announced(a, t) ==
  \/ \E r \in Room : queue[r][a] # Never /\ t <= queue[r][a]
  \/ \E p \in posts : p.acct = a /\ t <= p.closedAt

Init ==
  /\ now = 0
  /\ asking = [r \in Room |-> {}] /\ writes = {}
  /\ sockets = [r \in Room |-> [a \in Account |-> 0]]
  /\ queue = [r \in Room |-> [a \in Account |-> Never]]
  /\ alarm = [r \in Room |-> Never]
  /\ posts = {}
  /\ row = [a \in Account |-> [online |-> FALSE, at |-> 0]]
  /\ tried = [a \in Account |-> Never] /\ landed = [a \in Account |-> Never]
  /\ left = [a \in Account |-> Never] /\ hidden = {}

-----------------------------------------------------------------------------
(* The Worker and the door *)

\* The Worker starts the online write, which nothing awaits, and passes the
\* upgrade on to the room.
Upgrade(a, r) ==
  /\ now <= Horizon /\ a \notin asking[r] /\ sockets[r][a] < MaxSockets
  /\ Cardinality({w \in writes : w.acct = a}) < MaxWrites
  /\ asking' = [asking EXCEPT ![r] = @ \cup {a}]
  /\ writes' = writes \cup {[acct |-> a, since |-> now]}
  /\ tried' = [tried EXCEPT ![a] = now]
  /\ UNCHANGED <<now, sockets, queue, alarm, posts, row, landed, left, hidden>>

Accept(a, r) ==
  /\ a \in asking[r]
  /\ asking' = [asking EXCEPT ![r] = @ \ {a}]
  /\ sockets' = [sockets EXCEPT ![r][a] = @ + 1]
  /\ UNCHANGED <<now, writes, queue, alarm, posts, row, history>>

\* A banned device, a room that is not public, a full one.
Refuse(a, r) ==
  /\ a \in asking[r]
  /\ asking' = [asking EXCEPT ![r] = @ \ {a}]
  /\ hidden' = hidden \cup {a}
  /\ UNCHANGED <<now, writes, sockets, queue, alarm, posts, row, tried, landed, left>>

\* setPresenceOnline.  Its stamp is read after the tables are ensured, at any
\* time since the upgrade; the write looks at nothing.
Land(w) ==
  /\ w \in writes /\ writes' = writes \ {w}
  /\ \E t \in w.since..now :
       /\ row' = [row EXCEPT ![w.acct] = [online |-> TRUE, at |-> t]]
       /\ hidden' = IF Attached(w.acct) \/ Asking(w.acct) \/ Announced(w.acct, t)
                    THEN hidden ELSE hidden \cup {w.acct}
  /\ landed' = [landed EXCEPT ![w.acct] = w.since]
  /\ UNCHANGED <<now, asking, sockets, queue, alarm, posts, tried, left>>

\* Its failure is swallowed.
LoseWrite(w) ==
  /\ w \in writes /\ writes' = writes \ {w}
  /\ UNCHANGED <<now, asking, sockets, queue, alarm, posts, row, history>>

-----------------------------------------------------------------------------
(* The room *)

\* Mutants: a close of a socket the room no longer has is counted; a leaving is
\* queued only by the close that arms the alarm.
CloseAnyway(a, r) ==
  /\ now <= Horizon
  /\ sockets' = [sockets EXCEPT ![r][a] = @ - 1]
  /\ UNCHANGED <<now, asking, writes, queue, alarm, posts, row, history>>
CloseOnce(a, r) ==
  /\ now <= Horizon /\ Present(a, r)
  /\ sockets' = [sockets EXCEPT ![r][a] = @ - 1]
  /\ \/ /\ sockets[r][a] = 1 /\ alarm[r] = Never
        /\ queue' = [queue EXCEPT ![r][a] = now]
        /\ alarm' = [alarm EXCEPT ![r] = now + Grace]
        /\ left' = [left EXCEPT ![a] = now] /\ hidden' = hidden \ {a}
     \/ /\ sockets[r][a] > 1 \/ alarm[r] # Never
        /\ UNCHANGED <<queue, alarm, left, hidden>>
  /\ UNCHANGED <<now, asking, writes, posts, row, tried, landed>>

\* webSocketClose and, for the last socket, schedulePresenceOffline.
Close(a, r) ==
  /\ now <= Horizon /\ Present(a, r)
  /\ sockets' = [sockets EXCEPT ![r][a] = @ - 1]
  /\ \/ /\ sockets[r][a] = 1
        /\ queue' = [queue EXCEPT ![r][a] = now]
        /\ alarm' = [alarm EXCEPT ![r] = IF @ = Never THEN now + Grace ELSE @]
        /\ left' = [left EXCEPT ![a] = now] /\ hidden' = hidden \ {a}
     \/ sockets[r][a] > 1 /\ UNCHANGED <<queue, alarm, left, hidden>>
  /\ UNCHANGED <<now, asking, writes, posts, row, tried, landed>>

\* The device has come back under another account, or none: the close of its old
\* socket is taken for that of a replaced one, and ignored.
CloseUnheard(a, r) ==
  /\ now <= Horizon /\ Present(a, r)
  /\ sockets' = [sockets EXCEPT ![r][a] = @ - 1]
  /\ hidden' = hidden \cup {a}
  /\ UNCHANGED <<now, asking, writes, queue, alarm, posts, row, tried, landed, left>>

Alarm(r) ==
  /\ alarm[r] # Never /\ alarm[r] <= now
  /\ alarm' = [alarm EXCEPT ![r] = Never]
  /\ queue' = [queue EXCEPT ![r] = [a \in Account |-> Never]]
  /\ posts' = posts \cup {[acct |-> a, closedAt |-> queue[r][a]] :
                            a \in {b \in Account : queue[r][b] # Never /\ ~Present(b, r)}}
  /\ UNCHANGED <<now, asking, writes, sockets, row, history>>

\* The room's object dies: its sockets go and no close is delivered.
Crash(r) ==
  /\ now <= Horizon
  /\ sockets' = [sockets EXCEPT ![r] = [a \in Account |-> 0]]
  /\ hidden' = hidden \cup {a \in Account : Present(a, r)}
  /\ UNCHANGED <<now, asking, writes, queue, alarm, posts, row, tried, landed, left>>

-----------------------------------------------------------------------------
(* The way to the database *)

\* Mutants: the offline write looks at no clock; it loses a tie.
BridgeAlways(p) ==
  /\ p \in posts /\ posts' = posts \ {p}
  /\ row' = [row EXCEPT ![p.acct] = IF @.online THEN [online |-> FALSE, at |-> now] ELSE @]
  /\ UNCHANGED <<now, asking, writes, sockets, queue, alarm, history>>
BridgeStrict(p) ==
  /\ p \in posts /\ posts' = posts \ {p}
  /\ row' = [row EXCEPT ![p.acct] =
              IF @.online /\ @.at < p.closedAt THEN [online |-> FALSE, at |-> now] ELSE @]
  /\ UNCHANGED <<now, asking, writes, sockets, queue, alarm, history>>

\* handleInternalPresence: setPresenceOffline.
Bridge(p) ==
  /\ p \in posts /\ posts' = posts \ {p}
  /\ row' = [row EXCEPT ![p.acct] =
              IF @.online /\ @.at <= p.closedAt THEN [online |-> FALSE, at |-> now] ELSE @]
  /\ UNCHANGED <<now, asking, writes, sockets, queue, alarm, history>>

\* The post is sent once and its failure is swallowed.
Lose(p) ==
  /\ p \in posts /\ posts' = posts \ {p}
  /\ hidden' = hidden \cup {p.acct}
  /\ UNCHANGED <<now, asking, writes, sockets, queue, alarm, row, tried, landed, left>>

Pass ==
  /\ now <= Horizon + Grace /\ now' = now + 1
  /\ UNCHANGED <<asking, writes, sockets, queue, alarm, posts, row, history>>

Next ==
  \/ \E a \in Account, r \in Room : Upgrade(a, r) \/ Accept(a, r) \/ Refuse(a, r)
  \/ \E w \in writes : Land(w) \/ LoseWrite(w)
  \/ \E a \in Account, r \in Room : Close(a, r) \/ CloseUnheard(a, r)
  \/ \E r \in Room : Alarm(r) \/ Crash(r)
  \/ \E p \in posts : Bridge(p) \/ Lose(p)
  \/ Pass

Spec == Init /\ [][Next]_vars

\* Due alarms fire, posts that are not lost arrive, time passes.
FairSpec ==
  /\ Spec /\ WF_vars(Pass)
  /\ \A r \in Room : WF_vars(Alarm(r))
  /\ WF_vars(\E p \in posts : Bridge(p))

-----------------------------------------------------------------------------
TypeOK ==
  /\ now \in Nat
  /\ asking \in [Room -> SUBSET Account] /\ writes \subseteq Write
  /\ sockets \in [Room -> [Account -> Nat]]
  /\ queue \in [Room -> [Account -> Time]]
  /\ alarm \in [Room -> Time]
  /\ posts \subseteq Post
  /\ row \in [Account -> [online : BOOLEAN, at : Nat]]
  /\ tried \in [Account -> Time] /\ landed \in [Account -> Time]
  /\ left \in [Account -> Time] /\ hidden \subseteq Account

\* server/db/presence.ts: "no cross-room race".  Whoever is attached to a room, and
\* has asked for it after any room saw it leave, is shown online once the write of
\* that upgrade has landed: however late the alarms and the posts of the rooms it
\* left are, and whatever becomes of its other upgrades.
AttachedIsOnline ==
  \A a \in Account :
    Attached(a) /\ landed[a] = tried[a] /\ (left[a] = Never \/ left[a] < tried[a])
      => row[a].online

\* The same without asking when a room last saw the account leave: "offline once
\* their last socket drops" (server/db/presence.ts).  The code does not keep it.
OnlineToTheLastSocket ==
  \A a \in Account : Attached(a) /\ landed[a] = tried[a] => row[a].online

\* Whoever is shown online and is attached to no room, nor at the door of one, has a
\* leaving on its way that is no older than its row, so that the guarded write will
\* take it: unless its leaving was hidden, by a refused upgrade, a dead room, a lost
\* post, a close taken for that of a replaced socket, or an online write that came
\* when all was over.
NobodyIsForgotten ==
  \A a \in Account :
    row[a].online /\ a \notin hidden => Attached(a) \/ Asking(a) \/ Announced(a, row[a].at)

\* An account that leaves every room for good is shown offline in the end, unless
\* its leaving was hidden (then only a day's TTL hides it).
Gone(a) == ~Attached(a) /\ ~Asking(a) /\ now > Horizon
GoneIsOffline == \A a \in Account : <>[](Gone(a) /\ a \notin hidden => ~row[a].online)
===============================================================================
