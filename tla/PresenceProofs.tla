---------------------------- MODULE PresenceProofs ----------------------------
(* Why nobody attached is shown offline by the rooms it has left, and why  *)
(* nobody who has left is forgotten: whatever is queued or posted is no    *)
(* later than the last leaving a room saw, the row of an account that came *)
(* back after it is younger, and an alarm, a post and the guarded write    *)
(* each hand a leaving on to the next.                                     *)
EXTENDS Presence, TLAPS

USE PresenceConstants

LEMMA TypeStep ==
  ASSUME TypeOK, [Next]_vars
  PROVE  TypeOK'
<1> USE DEF TypeOK, Time, history
<1>1. ASSUME NEW a \in Account, NEW r \in Room, Upgrade(a, r) PROVE TypeOK'
  <2>1. [acct |-> a, since |-> now] \in Write BY DEF Write
  <2>2. writes' \subseteq Write BY <1>1, <2>1 DEF Upgrade
  <2> QED BY <1>1, <2>2 DEF Upgrade
<1>2. ASSUME NEW a \in Account, NEW r \in Room, Accept(a, r) PROVE TypeOK'
  <2>1. sockets[r][a] + 1 \in Nat OBVIOUS
  <2>2. sockets' \in [Room -> [Account -> Nat]] BY <1>2, <2>1 DEF Accept
  <2> QED BY <1>2, <2>2 DEF Accept
<1>3. ASSUME NEW a \in Account, NEW r \in Room, Refuse(a, r) PROVE TypeOK' BY <1>3 DEF Refuse
<1>4. ASSUME NEW w \in writes, Land(w) PROVE TypeOK'
  <2>1. w.acct \in Account /\ w.since \in Nat BY DEF Write
  <2>2. PICK t \in w.since..now :
          /\ row' = [row EXCEPT ![w.acct] = [online |-> TRUE, at |-> t]]
          /\ hidden' = IF Attached(w.acct) \/ Asking(w.acct) \/ Announced(w.acct, t)
                       THEN hidden ELSE hidden \cup {w.acct}
    BY <1>4 DEF Land
  <2>3. t \in Nat BY <2>1
  <2>4. row' \in [Account -> [online : BOOLEAN, at : Nat]] BY <2>2, <2>3
  <2>5. hidden' \subseteq Account BY <2>1, <2>2
  <2>6. landed' \in [Account -> Time] BY <1>4, <2>1 DEF Land
  <2> QED BY <1>4, <2>4, <2>5, <2>6 DEF Land
<1>5. ASSUME NEW w \in writes, LoseWrite(w) PROVE TypeOK' BY <1>5 DEF LoseWrite
<1>6. ASSUME NEW a \in Account, NEW r \in Room, Close(a, r) PROVE TypeOK'
  <2>1. sockets[r][a] - 1 \in Nat BY <1>6 DEF Close, Present
  <2>2. sockets' \in [Room -> [Account -> Nat]] BY <1>6, <2>1 DEF Close
  <2>3. now \in Time /\ now + Grace \in Time OBVIOUS
  <2>4. queue' \in [Room -> [Account -> Time]]
    <3>1. queue' = queue \/ queue' = [queue EXCEPT ![r] = [queue[r] EXCEPT ![a] = now]]
      BY <1>6 DEF Close
    <3>2. [queue[r] EXCEPT ![a] = now] \in [Account -> Time] BY <2>3
    <3> QED BY <3>1, <3>2
  <2>5. alarm' \in [Room -> Time] BY <1>6, <2>3 DEF Close
  <2>6. left' \in [Account -> Time] BY <1>6, <2>3 DEF Close
  <2> QED BY <1>6, <2>2, <2>4, <2>5, <2>6 DEF Close
<1>7. ASSUME NEW a \in Account, NEW r \in Room, CloseUnheard(a, r) PROVE TypeOK'
  <2>1. sockets[r][a] - 1 \in Nat BY <1>7 DEF CloseUnheard, Present
  <2>2. sockets' \in [Room -> [Account -> Nat]] BY <1>7, <2>1 DEF CloseUnheard
  <2> QED BY <1>7, <2>2 DEF CloseUnheard
<1>8. ASSUME NEW r \in Room, Alarm(r) PROVE TypeOK'
  <2>1. posts' \subseteq Post BY <1>8 DEF Alarm, Post
  <2> QED BY <1>8, <2>1 DEF Alarm
<1>9. ASSUME NEW r \in Room, Crash(r) PROVE TypeOK' BY <1>9 DEF Crash
<1>10. ASSUME NEW p \in posts, Bridge(p) PROVE TypeOK'
  <2>1. p.acct \in Account BY DEF Post
  <2>2. row' \in [Account -> [online : BOOLEAN, at : Nat]] BY <1>10, <2>1 DEF Bridge
  <2> QED BY <1>10, <2>2 DEF Bridge
<1>11. ASSUME NEW p \in posts, Lose(p) PROVE TypeOK' BY <1>11 DEF Lose, Post
<1>12. CASE Pass BY <1>12 DEF Pass
<1>13. CASE UNCHANGED vars BY <1>13 DEF vars
<1> QED
  BY <1>1, <1>2, <1>3, <1>4, <1>5, <1>6, <1>7, <1>8, <1>9, <1>10, <1>11, <1>12, <1>13 DEF Next

\* Every variable keeps its type; a room never counts fewer than no sockets.
THEOREM PresenceTypeCorrect == Spec => []TypeOK
<1>1. Init => TypeOK BY DEF Init, TypeOK, Time
<1> QED BY <1>1, TypeStep, PTL DEF Spec

-----------------------------------------------------------------------------
(* The invariant.  Times run in order; a socket was asked for; nothing     *)
(* queued or posted is later than the last leaving seen; an account whose  *)
(* newest upgrade came after that, and has landed, has a row as young.     *)

InOrder ==
  \A a \in Account :
    /\ tried[a] # Never => tried[a] <= now
    /\ left[a] # Never => left[a] <= now
    /\ landed[a] # Never => tried[a] # Never /\ landed[a] <= tried[a]
    /\ row[a].at <= now
WritesAreOfUpgrades ==
  \A w \in writes : tried[w.acct] # Never /\ w.since <= tried[w.acct] /\ w.since <= now
SocketsWereAsked == \A a \in Account : Attached(a) \/ Asking(a) => tried[a] # Never
Seen(a, t) == left[a] # Never /\ t <= left[a]
OldNews ==
  /\ \A r \in Room, a \in Account : queue[r][a] # Never => Seen(a, queue[r][a])
  /\ \A p \in posts : Seen(p.acct, p.closedAt)
CameBack(a) ==
  tried[a] # Never /\ landed[a] = tried[a] /\ (left[a] = Never \/ left[a] < tried[a])
Younger == \A a \in Account : CameBack(a) => row[a].online /\ tried[a] <= row[a].at
PresenceInv ==
  InOrder /\ WritesAreOfUpgrades /\ SocketsWereAsked /\ OldNews /\ Younger /\ NobodyIsForgotten

LEMMA Squeeze == \A m, n \in Nat : m <= n /\ n <= m => m = n
  OBVIOUS

LEMMA UpgradeStep ==
  ASSUME TypeOK, PresenceInv, NEW a \in Account, NEW r \in Room, Upgrade(a, r)
  PROVE  PresenceInv'
<1> USE DEF TypeOK, Time, Post, Write
<1>1. /\ UNCHANGED <<now, sockets, queue, posts, row, landed, left, hidden>>
      /\ tried' = [tried EXCEPT ![a] = now]
  BY DEF Upgrade
<1>2. \A b \in Account : Asking(b)' => Asking(b) \/ b = a BY DEF Upgrade, Asking
<1>3. \A b \in Account : Asking(b) => Asking(b)'
  <2> SUFFICES ASSUME NEW b \in Account, NEW q \in Room, b \in asking[q] PROVE Asking(b)'
    BY DEF Asking
  <2>1. b \in asking'[q] BY DEF Upgrade
  <2> QED BY <2>1 DEF Asking
<1>4. InOrder' BY <1>1 DEF PresenceInv, InOrder
<1>5. WritesAreOfUpgrades'
  <2> SUFFICES ASSUME NEW w \in writes'
               PROVE  tried'[w.acct] # Never /\ w.since <= tried'[w.acct] /\ w.since <= now'
    BY DEF WritesAreOfUpgrades
  <2>1. CASE w \in writes BY <1>1, <2>1 DEF PresenceInv, WritesAreOfUpgrades
  <2>2. CASE w \notin writes
    <3>1. w.acct = a /\ w.since = now BY <2>2 DEF Upgrade
    <3> QED BY <1>1, <3>1
  <2> QED BY <2>1, <2>2
<1>6. SocketsWereAsked'
  BY <1>1, <1>2 DEF PresenceInv, SocketsWereAsked, Attached, Present
<1>7. OldNews' BY <1>1 DEF PresenceInv, OldNews, Seen
<1>8. Younger'
  <2> SUFFICES ASSUME NEW b \in Account, CameBack(b)'
               PROVE  row'[b].online /\ tried'[b] <= row'[b].at
    BY DEF Younger
  <2>1. CASE b # a
    <3>1. CameBack(b) BY <1>1, <2>1 DEF CameBack
    <3> QED BY <1>1, <2>1, <3>1 DEF PresenceInv, Younger
  <2>2. CASE b = a
    <3>1. landed[a] = now BY <1>1, <2>2 DEF CameBack
    <3>2. tried[a] = now
      <4>1. now # Never OBVIOUS
      <4>2. tried[a] # Never /\ tried[a] <= now /\ now <= tried[a]
        BY <3>1, <4>1 DEF PresenceInv, InOrder
      <4>3. tried[a] \in Nat /\ now \in Nat BY <4>2
      <4> QED BY <4>2, <4>3, Squeeze
    <3>3. CameBack(a)
      <4>1. tried'[a] = now /\ now # Never BY <1>1
      <4>2. left[a] = Never \/ left[a] < now BY <1>1, <2>2, <4>1 DEF CameBack
      <4> QED BY <3>1, <3>2, <4>1, <4>2 DEF CameBack
    <3> QED BY <1>1, <2>2, <3>2, <3>3 DEF PresenceInv, Younger
  <2> QED BY <2>1, <2>2
<1>9. NobodyIsForgotten'
  BY <1>1, <1>3 DEF PresenceInv, NobodyIsForgotten, Attached, Present, Announced
<1> QED BY <1>4, <1>5, <1>6, <1>7, <1>8, <1>9 DEF PresenceInv

\* The room's decision: whoever was at the door is in, or is accounted for.
LEMMA DoorStep ==
  ASSUME TypeOK, PresenceInv, NEW a \in Account, NEW r \in Room, Accept(a, r) \/ Refuse(a, r)
  PROVE  PresenceInv'
<1> USE DEF TypeOK, Time, Post, Write
<1>1. UNCHANGED <<now, writes, queue, posts, row, tried, landed, left>> /\ hidden \subseteq hidden'
  BY DEF Accept, Refuse, history
<1>2. \A b \in Account : Asking(b)' => Asking(b) BY DEF Accept, Refuse, Asking
<1>3. Asking(a) BY DEF Accept, Refuse, Asking
<1>4. \A b \in Account : Attached(b)' => Attached(b) \/ b = a
  BY DEF Accept, Refuse, Attached, Present
<1>5. \A b \in Account : Attached(b) => Attached(b)'
  <2> SUFFICES ASSUME NEW b \in Account, NEW q \in Room, sockets[q][b] > 0
               PROVE  \E s \in Room : sockets'[s][b] > 0
    BY DEF Attached, Present
  <2>1. CASE Refuse(a, r) BY <2>1 DEF Refuse
  <2>2. CASE Accept(a, r)
    <3>1. sockets'[q][b] = sockets[q][b] \/ sockets'[q][b] = sockets[q][b] + 1
      BY <2>2 DEF Accept
    <3>2. sockets[q][b] \in Nat OBVIOUS
    <3> QED BY <3>1, <3>2
  <2> QED BY <2>1, <2>2
<1>6. \A b \in Account : Asking(b) => Asking(b)' \/ Attached(b)' \/ b \in hidden'
  <2> SUFFICES ASSUME NEW b \in Account, NEW q \in Room, b \in asking[q], b \notin asking'[q]
               PROVE  Attached(b)' \/ b \in hidden'
    BY DEF Asking
  <2>1. b = a /\ q = r BY DEF Accept, Refuse
  <2>2. CASE Accept(a, r)
    <3>1. sockets'[r][a] > 0 BY <2>2 DEF Accept
    <3> QED BY <2>1, <3>1 DEF Attached, Present
  <2>3. CASE Refuse(a, r) BY <2>1, <2>3 DEF Refuse
  <2> QED BY <2>2, <2>3
<1>7. InOrder' /\ WritesAreOfUpgrades' /\ OldNews' /\ Younger'
  BY <1>1 DEF PresenceInv, InOrder, WritesAreOfUpgrades, OldNews, Seen, Younger, CameBack
<1>8. SocketsWereAsked' BY <1>1, <1>2, <1>3, <1>4 DEF PresenceInv, SocketsWereAsked
<1>9. NobodyIsForgotten'
  BY <1>1, <1>5, <1>6 DEF PresenceInv, NobodyIsForgotten, Announced
<1> QED BY <1>7, <1>8, <1>9 DEF PresenceInv

LEMMA LandStep ==
  ASSUME TypeOK, PresenceInv, NEW w \in writes, Land(w)
  PROVE  PresenceInv'
<1> USE DEF TypeOK, Time, Post, Write
<1> DEFINE a == w.acct
<1>1. /\ UNCHANGED <<now, asking, sockets, queue, posts, tried, left>>
      /\ landed' = [landed EXCEPT ![a] = w.since] /\ writes' \subseteq writes
  BY DEF Land
<1>2. PICK t \in w.since..now :
        /\ row' = [row EXCEPT ![w.acct] = [online |-> TRUE, at |-> t]]
        /\ hidden' = IF Attached(w.acct) \/ Asking(w.acct) \/ Announced(w.acct, t)
                     THEN hidden ELSE hidden \cup {w.acct}
  BY DEF Land
<1>3. a \in Account /\ w.since \in Nat /\ t \in Nat /\ w.since <= t /\ t <= now OBVIOUS
<1>4. row'[a].online /\ row'[a].at = t /\ \A b \in Account \ {a} : row'[b] = row[b]
  BY <1>2, <1>3
<1>5. tried[a] # Never /\ w.since <= tried[a] BY DEF PresenceInv, WritesAreOfUpgrades
<1> HIDE DEF a
<1>6. InOrder'
  <2> SUFFICES ASSUME NEW b \in Account
               PROVE  /\ tried'[b] # Never => tried'[b] <= now'
                      /\ left'[b] # Never => left'[b] <= now'
                      /\ landed'[b] # Never => tried'[b] # Never /\ landed'[b] <= tried'[b]
                      /\ row'[b].at <= now'
    BY DEF InOrder
  <2>1. CASE b = a BY <1>1, <1>3, <1>4, <1>5, <2>1 DEF PresenceInv, InOrder
  <2>2. CASE b # a BY <1>1, <1>4, <2>2 DEF PresenceInv, InOrder
  <2> QED BY <2>1, <2>2
<1>7. WritesAreOfUpgrades' BY <1>1 DEF PresenceInv, WritesAreOfUpgrades
<1>8. SocketsWereAsked'
  BY <1>1 DEF PresenceInv, SocketsWereAsked, Attached, Present, Asking
<1>9. OldNews' BY <1>1 DEF PresenceInv, OldNews, Seen
<1>10. Younger'
  <2> SUFFICES ASSUME NEW b \in Account, CameBack(b)'
               PROVE  row'[b].online /\ tried'[b] <= row'[b].at
    BY DEF Younger
  <2>1. CASE b = a
    <3>1. tried[a] = w.since BY <1>1, <1>3, <2>1 DEF CameBack
    <3> QED BY <1>1, <1>3, <1>4, <2>1, <3>1
  <2>2. CASE b # a
    <3>1. CameBack(b) BY <1>1, <2>2 DEF CameBack
    <3> QED BY <1>1, <1>4, <2>2, <3>1 DEF PresenceInv, Younger
  <2> QED BY <2>1, <2>2
<1>11. NobodyIsForgotten'
  <2> SUFFICES ASSUME NEW b \in Account, row'[b].online, b \notin hidden'
               PROVE  Attached(b)' \/ Asking(b)' \/ Announced(b, row[b].at)'
    BY DEF NobodyIsForgotten
  <2>1. CASE b = a
    <3>1. Attached(a) \/ Asking(a) \/ Announced(a, t) BY <1>2, <2>1 DEF a
    <3>2. (Attached(b)' <=> Attached(b)) /\ (Asking(b)' <=> Asking(b))
      BY <1>1 DEF Attached, Present, Asking
    <3>3. Announced(a, t) => Announced(b, row[b].at)' BY <1>1, <1>4, <2>1 DEF Announced
    <3> QED BY <2>1, <3>1, <3>2, <3>3
  <2>2. CASE b # a
    <3>1. b \notin hidden BY <1>2, <1>3
    <3>2. Attached(b) \/ Asking(b) \/ Announced(b, row[b].at)
      BY <1>4, <2>2, <3>1 DEF PresenceInv, NobodyIsForgotten
    <3> QED BY <1>1, <1>4, <2>2, <3>2 DEF Attached, Present, Asking, Announced
  <2> QED BY <2>1, <2>2
<1> QED BY <1>6, <1>7, <1>8, <1>9, <1>10, <1>11 DEF PresenceInv

LEMMA CloseStep ==
  ASSUME TypeOK, PresenceInv, NEW a \in Account, NEW r \in Room, Close(a, r)
  PROVE  PresenceInv'
<1> USE DEF TypeOK, Time, Post, Write
<1>1. UNCHANGED <<now, asking, writes, posts, row, tried, landed>> BY DEF Close
<1>2. \A b \in Account : Attached(b)' => Attached(b) BY DEF Close, Attached, Present
<1>3. \A b \in Account \ {a} : Attached(b) => Attached(b)'
  BY DEF Close, Attached, Present
<1>4. \A b \in Account \ {a} :
        left'[b] = left[b] /\ \A q \in Room : queue'[q][b] = queue[q][b]
  BY DEF Close
<1>5. CASE sockets[r][a] = 1
  <2>1. left'[a] = now /\ queue'[r][a] = now BY <1>5 DEF Close
  <2>2. \A q \in Room, b \in Account :
          queue'[q][b] = queue[q][b] \/ (b = a /\ queue'[q][b] = now)
    BY <1>5 DEF Close
  <2>3. InOrder'
    <3> SUFFICES ASSUME NEW b \in Account
                 PROVE  /\ tried'[b] # Never => tried'[b] <= now'
                        /\ left'[b] # Never => left'[b] <= now'
                        /\ landed'[b] # Never => tried'[b] # Never /\ landed'[b] <= tried'[b]
                        /\ row'[b].at <= now'
      BY DEF InOrder
    <3> QED BY <1>1, <1>4, <2>1 DEF PresenceInv, InOrder
  <2>4. WritesAreOfUpgrades' BY <1>1 DEF PresenceInv, WritesAreOfUpgrades
  <2>5. SocketsWereAsked' BY <1>1, <1>2 DEF PresenceInv, SocketsWereAsked, Asking
  <2>6. \A b \in Account, x \in Nat : Seen(b, x) => Seen(b, x)'
    <3> SUFFICES ASSUME NEW b \in Account, NEW x \in Nat, Seen(b, x) PROVE Seen(b, x)'
      OBVIOUS
    <3>1. CASE b = a
      <4>1. left[a] # Never /\ left[a] <= now /\ x <= left[a]
        BY <3>1 DEF Seen, PresenceInv, InOrder
      <4>2. left[a] \in Nat /\ now \in Nat BY <4>1
      <4>3. x <= now BY <4>1, <4>2
      <4>4. now # Never BY <4>2
      <4> QED BY <2>1, <3>1, <4>3, <4>4 DEF Seen
    <3>2. CASE b # a BY <1>4, <3>2 DEF Seen
    <3> QED BY <3>1, <3>2
  <2>7. OldNews'
    <3>1. ASSUME NEW q \in Room, NEW b \in Account, queue'[q][b] # Never
          PROVE  Seen(b, queue[q][b])'
      <4>1. CASE queue'[q][b] = queue[q][b]
        <5>1. Seen(b, queue[q][b]) /\ queue[q][b] \in Nat
          BY <3>1, <4>1 DEF PresenceInv, OldNews
        <5> QED BY <2>6, <4>1, <5>1 DEF Seen
      <4>2. CASE b = a /\ queue'[q][b] = now BY <2>1, <4>2 DEF Seen
      <4> QED BY <2>2, <4>1, <4>2
    <3>2. ASSUME NEW p \in posts PROVE Seen(p.acct, p.closedAt)'
      <4>1. Seen(p.acct, p.closedAt) /\ p.acct \in Account /\ p.closedAt \in Nat
        BY DEF PresenceInv, OldNews
      <4> QED BY <2>6, <4>1 DEF Seen
    <3> QED BY <1>1, <3>1, <3>2 DEF OldNews
  <2>8. Younger'
    <3> SUFFICES ASSUME NEW b \in Account, CameBack(b)'
                 PROVE  row'[b].online /\ tried'[b] <= row'[b].at
      BY DEF Younger
    <3>1. b # a
      <4>1. tried[a] # Never => tried[a] <= now BY DEF PresenceInv, InOrder
      <4> QED BY <1>1, <2>1, <4>1 DEF CameBack
    <3>2. CameBack(b) BY <1>1, <1>4, <3>1 DEF CameBack
    <3> QED BY <1>1, <3>2 DEF PresenceInv, Younger
  <2>9. NobodyIsForgotten'
    <3> SUFFICES ASSUME NEW b \in Account, row'[b].online, b \notin hidden'
                 PROVE  Attached(b)' \/ Asking(b)' \/ Announced(b, row[b].at)'
      BY DEF NobodyIsForgotten
    <3>1. CASE b = a
      <4>1. queue'[r][a] # Never /\ row'[a].at <= queue'[r][a]
        BY <1>1, <2>1 DEF PresenceInv, InOrder
      <4> QED BY <3>1, <4>1 DEF Announced
    <3>2. CASE b # a
      <4>1. b \notin hidden BY <1>5, <3>2 DEF Close
      <4>2. Attached(b) \/ Asking(b) \/ Announced(b, row[b].at)
        BY <1>1, <4>1 DEF PresenceInv, NobodyIsForgotten
      <4>3. Announced(b, row[b].at) => Announced(b, row[b].at)' BY <1>1, <1>4, <3>2 DEF Announced
      <4> QED BY <1>1, <1>3, <3>2, <4>2, <4>3 DEF Asking
    <3> QED BY <3>1, <3>2
  <2> QED BY <2>3, <2>4, <2>5, <2>7, <2>8, <2>9 DEF PresenceInv
<1>6. CASE sockets[r][a] > 1
  <2>1. UNCHANGED <<queue, left, hidden>> BY <1>6 DEF Close
  <2>2. Attached(a)'
    <3>1. sockets'[r][a] > 0 BY <1>6 DEF Close
    <3> QED BY <3>1 DEF Attached, Present
  <2>3. InOrder' /\ WritesAreOfUpgrades' /\ OldNews' /\ Younger'
    BY <1>1, <2>1
    DEF PresenceInv, InOrder, WritesAreOfUpgrades, OldNews, Seen, Younger, CameBack
  <2>4. SocketsWereAsked' BY <1>1, <1>2 DEF PresenceInv, SocketsWereAsked, Asking
  <2>5. NobodyIsForgotten'
    BY <1>1, <1>3, <2>1, <2>2 DEF PresenceInv, NobodyIsForgotten, Announced, Asking
  <2> QED BY <2>3, <2>4, <2>5 DEF PresenceInv
<1> QED BY <1>5, <1>6 DEF Close

\* Sockets that go without a close: whoever had one is accounted for.
LEMMA SilentStep ==
  ASSUME TypeOK, PresenceInv,
         (\E a \in Account, r \in Room : CloseUnheard(a, r)) \/ (\E r \in Room : Crash(r))
  PROVE  PresenceInv'
<1> USE DEF TypeOK, Time, Post, Write
<1>1. UNCHANGED <<now, asking, writes, queue, posts, row, tried, landed, left>>
  BY DEF CloseUnheard, Crash
<1>2. hidden \subseteq hidden' BY DEF CloseUnheard, Crash
<1>3. \A b \in Account : Attached(b)' => Attached(b)
  <2>1. ASSUME NEW a \in Account, NEW r \in Room, CloseUnheard(a, r),
               NEW b \in Account, NEW q \in Room, sockets'[q][b] > 0
        PROVE  sockets[q][b] > 0
    BY <2>1 DEF CloseUnheard, Present
  <2>2. ASSUME NEW r \in Room, Crash(r),
               NEW b \in Account, NEW q \in Room, sockets'[q][b] > 0
        PROVE  sockets[q][b] > 0
    BY <2>2 DEF Crash
  <2> QED BY <2>1, <2>2 DEF Attached, Present
<1>4. \A b \in Account : Attached(b) => Attached(b)' \/ b \in hidden'
  <2>1. ASSUME NEW a \in Account, NEW r \in Room, CloseUnheard(a, r),
               NEW b \in Account, Attached(b), b # a
        PROVE  Attached(b)'
    BY <2>1 DEF CloseUnheard, Attached, Present
  <2>2. ASSUME NEW r \in Room, Crash(r), NEW b \in Account, Attached(b), ~Present(b, r)
        PROVE  Attached(b)'
    BY <2>2 DEF Crash, Attached, Present
  <2> QED BY <2>1, <2>2 DEF CloseUnheard, Crash
<1>5. InOrder' /\ WritesAreOfUpgrades' /\ OldNews' /\ Younger'
  BY <1>1 DEF PresenceInv, InOrder, WritesAreOfUpgrades, OldNews, Seen, Younger, CameBack
<1>6. SocketsWereAsked' BY <1>1, <1>3 DEF PresenceInv, SocketsWereAsked, Asking
<1>7. NobodyIsForgotten'
  BY <1>1, <1>2, <1>4 DEF PresenceInv, NobodyIsForgotten, Announced, Asking
<1> QED BY <1>5, <1>6, <1>7 DEF PresenceInv

LEMMA AlarmStep ==
  ASSUME TypeOK, PresenceInv, NEW r \in Room, Alarm(r)
  PROVE  PresenceInv'
<1> USE DEF TypeOK, Time, Post, Write
<1>1. \A p \in posts' : p \in posts \/ (p.acct \in Account /\ queue[r][p.acct] # Never
                                        /\ p.closedAt = queue[r][p.acct])
  BY DEF Alarm
<1>2. \A q \in Room, a \in Account : queue'[q][a] # Never => queue'[q][a] = queue[q][a]
  BY DEF Alarm
<1>3. UNCHANGED <<now, asking, writes, sockets, row, tried, landed, left, hidden>>
  BY DEF Alarm, history
<1>4. OldNews' BY <1>1, <1>2, <1>3 DEF PresenceInv, OldNews, Seen
<1>5. InOrder' /\ WritesAreOfUpgrades' /\ SocketsWereAsked' /\ Younger'
  BY <1>3 DEF PresenceInv, InOrder, WritesAreOfUpgrades, SocketsWereAsked, Attached, Asking,
              Present, Younger, CameBack
<1>6. ASSUME NEW a \in Account, NEW t \in Nat, Announced(a, t)
      PROVE  Announced(a, t)' \/ Attached(a)
  <2>1. ASSUME NEW p \in posts, p.acct = a, t <= p.closedAt PROVE Announced(a, t)'
    <3>1. p \in posts' BY DEF Alarm
    <3> QED BY <2>1, <3>1 DEF Announced
  <2>2. ASSUME NEW q \in Room, queue[q][a] # Never, t <= queue[q][a], q # r
        PROVE  Announced(a, t)'
    <3>1. queue'[q][a] = queue[q][a] BY <2>2 DEF Alarm
    <3> QED BY <2>2, <3>1 DEF Announced
  <2>3. ASSUME queue[r][a] # Never, t <= queue[r][a], ~Present(a, r) PROVE Announced(a, t)'
    <3>1. [acct |-> a, closedAt |-> queue[r][a]] \in posts' BY <2>3 DEF Alarm
    <3>2. \E p \in posts' : p.acct = a /\ t <= p.closedAt BY <2>3, <3>1
    <3> QED BY <3>2 DEF Announced
  <2> QED BY <1>6, <2>1, <2>2, <2>3 DEF Announced, Attached
<1>7. NobodyIsForgotten'
  <2> SUFFICES ASSUME NEW a \in Account, row'[a].online, a \notin hidden'
               PROVE  Attached(a)' \/ Asking(a)' \/ Announced(a, row[a].at)'
    BY DEF NobodyIsForgotten
  <2>1. row'[a] = row[a] /\ (Attached(a)' <=> Attached(a)) /\ (Asking(a)' <=> Asking(a))
    BY <1>3 DEF Attached, Present, Asking
  <2>2. Attached(a) \/ Asking(a) \/ Announced(a, row[a].at)
    BY <1>3 DEF PresenceInv, NobodyIsForgotten
  <2>3. Announced(a, row[a].at) => Announced(a, row[a].at)' \/ Attached(a)
    <3>1. row[a].at \in Nat OBVIOUS
    <3>2. Announced(a, row[a].at)' <=> \/ \E q \in Room : queue'[q][a] # Never /\ row[a].at <= queue'[q][a]
                                       \/ \E p \in posts' : p.acct = a /\ row[a].at <= p.closedAt
      BY <2>1 DEF Announced
    <3> DEFINE t == row[a].at
    <3>3. t \in Nat BY <3>1
    <3>4. ASSUME Announced(a, t)
          PROVE  \/ Attached(a)
                 \/ \E q \in Room : queue'[q][a] # Never /\ t <= queue'[q][a]
                 \/ \E p \in posts' : p.acct = a /\ t <= p.closedAt
      <4> HIDE DEF t
      <4>1. \A n \in Nat : Announced(a, n) =>
              \/ Attached(a)
              \/ \E q \in Room : queue'[q][a] # Never /\ n <= queue'[q][a]
              \/ \E p \in posts' : p.acct = a /\ n <= p.closedAt
        BY <1>6 DEF Announced
      <4> QED BY <3>3, <3>4, <4>1
    <3> QED BY <3>2, <3>4
  <2> QED BY <2>1, <2>2, <2>3
<1> QED BY <1>4, <1>5, <1>7 DEF PresenceInv

LEMMA BridgeStep ==
  ASSUME TypeOK, PresenceInv, NEW p \in posts, Bridge(p) \/ Lose(p)
  PROVE  PresenceInv'
<1> USE DEF TypeOK, Time, Post, Write
<1>1. /\ UNCHANGED <<now, asking, writes, sockets, queue, tried, landed, left>>
      /\ posts' = posts \ {p} /\ hidden \subseteq hidden'
  BY DEF Bridge, Lose, history
<1>2. p.acct \in Account /\ p.closedAt \in Nat OBVIOUS
<1>3. \A b \in Account :
        \/ row'[b] = row[b]
        \/ /\ Bridge(p) /\ b = p.acct /\ row[b].online /\ row[b].at <= p.closedAt
           /\ row'[b] = [online |-> FALSE, at |-> now]
  BY <1>2 DEF Bridge, Lose
<1>4. InOrder'
  <2> SUFFICES ASSUME NEW b \in Account
               PROVE  /\ tried'[b] # Never => tried'[b] <= now'
                      /\ left'[b] # Never => left'[b] <= now'
                      /\ landed'[b] # Never => tried'[b] # Never /\ landed'[b] <= tried'[b]
                      /\ row'[b].at <= now'
    BY DEF InOrder
  <2>1. row'[b].at <= now
    <3>1. row[b].at <= now BY DEF PresenceInv, InOrder
    <3>2. CASE row'[b] = row[b] BY <3>1, <3>2
    <3>3. CASE row'[b] = [online |-> FALSE, at |-> now] BY <3>3
    <3> QED BY <1>3, <3>2, <3>3
  <2> QED BY <1>1, <2>1 DEF PresenceInv, InOrder
<1>5. WritesAreOfUpgrades' /\ SocketsWereAsked' /\ OldNews'
  BY <1>1 DEF PresenceInv, WritesAreOfUpgrades, SocketsWereAsked, Attached, Asking, Present,
              OldNews, Seen
<1>6. Younger'
  <2> SUFFICES ASSUME NEW b \in Account, CameBack(b)'
               PROVE  row'[b].online /\ tried'[b] <= row'[b].at
    BY DEF Younger
  <2>1. CameBack(b) BY <1>1 DEF CameBack
  <2>2. row[b].online /\ tried[b] <= row[b].at BY <2>1 DEF PresenceInv, Younger
  <2>3. row'[b] = row[b]
    <3>1. b = p.acct => p.closedAt < tried[b]
      BY <2>1 DEF CameBack, PresenceInv, OldNews, Seen
    <3> QED BY <1>2, <1>3, <2>1, <2>2, <3>1 DEF CameBack
  <2> QED BY <1>1, <2>2, <2>3
<1>7. NobodyIsForgotten'
  <2> SUFFICES ASSUME NEW b \in Account, row'[b].online, b \notin hidden'
               PROVE  Attached(b)' \/ Asking(b)' \/ Announced(b, row[b].at)'
    BY DEF NobodyIsForgotten
  <2>1. row'[b] = row[b] BY <1>3
  <2>2. (Attached(b)' <=> Attached(b)) /\ (Asking(b)' <=> Asking(b))
    BY <1>1 DEF Attached, Present, Asking
  <2>3. Attached(b) \/ Asking(b) \/ Announced(b, row[b].at)
    BY <1>1, <2>1 DEF PresenceInv, NobodyIsForgotten
  <2>4. b = p.acct => ~(row[b].at <= p.closedAt)
    <3>1. CASE Lose(p) BY <3>1 DEF Lose
    <3>2. CASE Bridge(p)
      <4> SUFFICES ASSUME b = p.acct, row[b].at <= p.closedAt PROVE FALSE
        OBVIOUS
      <4>1. row'[b] = [online |-> FALSE, at |-> now] BY <2>1, <3>2 DEF Bridge
      <4> QED BY <4>1
    <3> QED BY <3>1, <3>2
  <2>5. Announced(b, row[b].at) => Announced(b, row[b].at)'
    BY <1>1, <2>1, <2>4 DEF Announced
  <2> QED BY <2>2, <2>3, <2>5
<1> QED BY <1>4, <1>5, <1>6, <1>7 DEF PresenceInv

LEMMA PassStep ==
  ASSUME TypeOK, PresenceInv, Pass \/ (\E w \in writes : LoseWrite(w)) \/ UNCHANGED vars
  PROVE  PresenceInv'
<1> USE DEF TypeOK, Time, Post, Write
<1>1. /\ UNCHANGED <<asking, sockets, queue, posts, row, tried, landed, left, hidden>>
      /\ writes' \subseteq writes /\ now' \in Nat /\ now <= now'
  BY DEF Pass, LoseWrite, vars, history
<1>2. InOrder' BY <1>1 DEF PresenceInv, InOrder
<1>3. WritesAreOfUpgrades' BY <1>1 DEF PresenceInv, WritesAreOfUpgrades
<1>4. SocketsWereAsked' /\ OldNews' /\ Younger' /\ NobodyIsForgotten'
  BY <1>1 DEF PresenceInv, SocketsWereAsked, Attached, Asking, Present, OldNews, Seen,
              Younger, CameBack, NobodyIsForgotten, Announced
<1> QED BY <1>2, <1>3, <1>4 DEF PresenceInv

LEMMA PresenceHolds == Spec => []PresenceInv
<1>1. Init => PresenceInv
  BY DEF Init, PresenceInv, InOrder, WritesAreOfUpgrades, SocketsWereAsked, OldNews, Younger,
         CameBack, NobodyIsForgotten, Attached, Asking, Present
<1>2. TypeOK /\ PresenceInv /\ [Next]_vars => PresenceInv'
  BY UpgradeStep, DoorStep, LandStep, CloseStep, SilentStep, AlarmStep, BridgeStep, PassStep
  DEF Next
<1> QED BY <1>1, <1>2, PresenceTypeCorrect, PTL DEF Spec

\* Whoever has come back after every leaving a room saw, and whose newest online write
\* has landed last, is shown online: neither late alarms, late or lost posts, refused
\* upgrades nor crashes of any number of rooms can hide it.
THEOREM OnlineWhileAttached == Spec => []AttachedIsOnline
<1>1. PresenceInv => AttachedIsOnline
  BY DEF PresenceInv, Younger, CameBack, SocketsWereAsked, AttachedIsOnline
<1> QED BY <1>1, PresenceHolds, PTL

\* Whoever is shown online is attached, at a door, or announced, unless hidden.
THEOREM LeavingsAreHandedOn == Spec => []NobodyIsForgotten
<1>1. PresenceInv => NobodyIsForgotten BY DEF PresenceInv
<1> QED BY <1>1, PresenceHolds, PTL
=============================================================================
