--------------------------- MODULE AutoMixProofs ---------------------------
(* Why AUTO never waits for a load that is over, never holds what it has no *)
(* record of, and has given back what it borrowed once it is off, however   *)
(* long the queue is and whatever the user does.                            *)
EXTENDS AutoMix, FiniteSetTheorems, WellFoundedInduction, TLAPS

-----------------------------------------------------------------------------
(* The queue.  A filter keeps what it keeps by position: the n-th position  *)
(* left is the least before which n - 1 others are left.                    *)

LEMMA LeastOf ==
  ASSUME NEW S \in SUBSET Nat, S # {}
  PROVE  \E i \in S : \A j \in S : i <= j
<1>1. PICK i \in S : \A j \in S : ~(<<j, i>> \in OpToRel(<, Nat))
  <2>1. IsWellFoundedOn(OpToRel(<, Nat), Nat) BY NatLessThanWellFounded
  <2> QED BY <2>1, WFMin
<1>2. \A j \in S : ~(j < i) BY <1>1 DEF OpToRel
<1> QED BY <1>2

LEMMA EachRankIsTaken ==
  ASSUME NEW N \in Nat, NEW S, S \subseteq 1 .. N, NEW n \in 1 .. Cardinality(S)
  PROVE  \E i \in S : Cardinality({j \in S : j < i}) = n - 1
<1> DEFINE Below(i) == {j \in S : j < i}
<1>0. IsFiniteSet(S)
  <2>1. IsFiniteSet(1 .. N) BY FS_Interval
  <2> QED BY <2>1, FS_Subset
<1>r. \A i \in S : i \in Nat /\ 0 < i /\ i <= N OBVIOUS
<1>1. ASSUME NEW i \in Nat PROVE IsFiniteSet(Below(i)) /\ Cardinality(Below(i)) \in Nat
  <2>1. Below(i) \subseteq S OBVIOUS
  <2> QED BY <1>0, <2>1, FS_Subset, FS_CardinalityType
<1>2. Below(N + 1) = S
  <2>1. \A j \in S : j < N + 1 BY <1>r
  <2> QED BY <2>1, Zenon
<1>3. Cardinality(Below(0)) = 0
  <2>1. \A j \in S : ~(j < 0) BY <1>r
  <2>2. Below(0) = {} BY <2>1, Zenon
  <2> QED BY <2>2, FS_EmptySet
<1>4. ASSUME NEW i \in Nat
      PROVE  /\ i \notin S => Below(i + 1) = Below(i)
             /\ i \in S => i \notin Below(i) /\ Below(i + 1) = Below(i) \cup {i}
  <2>1. \A j \in S : j < i + 1 <=> j < i \/ j = i BY <1>r
  <2>2. ~(i < i) OBVIOUS
  <2> QED BY <2>1, <2>2, Zenon
<1> DEFINE T == {i \in Nat : Cardinality(Below(i)) >= n}
<1> HIDE DEF Below
<1>5. N + 1 \in T
  <2>1. Cardinality(S) \in Nat BY <1>0, FS_CardinalityType
  <2> QED BY <1>2, <2>1
<1>6. PICK m \in T : \A i \in T : m <= i BY <1>5, LeastOf
<1>7. m # 0 BY <1>3, <1>6
<1> DEFINE k == m - 1
<1>8. k \in Nat /\ m = k + 1 /\ k \notin T BY <1>6, <1>7
<1> HIDE DEF k
<1>9. k \in S /\ k \notin Below(k) /\ Below(m) = Below(k) \cup {k}
  <2>1. k \notin S => Below(m) = Below(k) BY <1>4, <1>8
  <2>2. k \in S BY <1>6, <1>8, <2>1
  <2> QED BY <1>4, <1>8, <2>2
<1>10. Cardinality(Below(m)) = Cardinality(Below(k)) + 1
  BY <1>1, <1>8, <1>9, FS_AddElement
<1>11. Cardinality(Below(k)) = n - 1
  <2>1. Cardinality(Below(k)) \in Nat /\ ~(Cardinality(Below(k)) >= n) BY <1>1, <1>8
  <2>2. Cardinality(Below(k)) + 1 >= n BY <1>6, <1>10
  <2> QED BY <2>1, <2>2
<1> QED BY <1>9, <1>11 DEF Below

\* A track that is filtered out is gone, and nothing else comes in.
LEMMA WithoutType ==
  ASSUME NEW q \in Seq(Tracks), NEW v
  PROVE  Without(q, v) \in Seq(Tracks \ {v})
<1> DEFINE left == {i \in DOMAIN q : q[i] # v}
           Nth(n) == CHOOSE i \in left : Cardinality({j \in left : j < i}) = n - 1
           size == Cardinality(left)
<1>1. Len(q) \in Nat /\ DOMAIN q = 1 .. Len(q) /\ left \subseteq 1 .. Len(q) OBVIOUS
<1>2. IsFiniteSet(left)
  <2>1. IsFiniteSet(1 .. Len(q)) BY <1>1, FS_Interval
  <2> QED BY <1>1, <2>1, FS_Subset
<1>3. size \in Nat BY <1>2, FS_CardinalityType
<1>4. ASSUME NEW n \in 1 .. size PROVE Nth(n) \in left
  <2>1. \E i \in left : Cardinality({j \in left : j < i}) = n - 1
    BY <1>1, EachRankIsTaken
  <2> QED BY <2>1
<1>t. \A i \in left : q[i] \in Tracks \ {v} OBVIOUS
<1>5. \A n \in 1 .. size : q[Nth(n)] \in Tracks \ {v}
  <2> HIDE DEF Nth, size, left
  <2> QED BY <1>4, <1>t
<1>6. Without(q, v) = [n \in 1 .. size |-> q[Nth(n)]] BY DEF Without
<1> HIDE DEF Nth, size
<1> QED BY <1>3, <1>5, <1>6

-----------------------------------------------------------------------------
USE AutoMixAssumption DEF Decks

-----------------------------------------------------------------------------
(* What holds of a mixer between the steps of a tick, too.  Of the fields'  *)
(* types only what the argument needs.                                      *)

Fields == {"on", "phase", "live", "vid", "cued", "preloading", "eagerLoading",
           "preloaded", "next", "plan", "exit", "elapsed", "missed", "was", "lent",
           "dull", "holdLoop", "queue", "loads"}
Awaited == {"cue", "advance", "kickoff"}
Formed(l) == /\ DOMAIN l = {"by", "deck", "track", "fresh", "newest"}
             /\ l.deck \in Decks /\ l.by \in Awaited \cup {"user", "eager"}
Frame(m) ==
    /\ DOMAIN m = Fields
    /\ \A l \in m.loads : Formed(l)
    /\ m.lent \subseteq {"fx", "glide", "quiet"}
    /\ "quiet" \in m.lent => m.cued # None
Waits(m) ==
    /\ m.preloading => \E l \in m.loads : l.by \in Awaited
    /\ m.eagerLoading => \E l \in m.loads : l.by = "eager"
Sound(m) == Frame(m) /\ Waits(m)

(* From m to n the switch stays where it is, and with KeepsHolds what is    *)
(* borrowed as well.                                                        *)
Keeps(m, n) == Sound(n) /\ n.on = m.on
KeepsHolds(m, n) == Keeps(m, n) /\ n.holdLoop = m.holdLoop /\ n.lent = m.lent

LEMMA ResetArmKeeps ==
  ASSUME NEW m, Frame(m), m.eagerLoading => \E l \in m.loads : l.by = "eager"
  PROVE  KeepsHolds(m, ResetArm(m))
BY DEF Frame, Waits, Sound, Keeps, KeepsHolds, ResetArm, Fields

LEMMA ForgetKeeps ==
  ASSUME NEW m, Sound(m)
  PROVE  KeepsHolds(m, Forget(m))
<1> DEFINE f(l) == [l EXCEPT !.fresh = FALSE]
           n == Forget(m)
<1>1. /\ DOMAIN n = Fields /\ n.on = m.on /\ n.holdLoop = m.holdLoop /\ n.lent = m.lent
      /\ n.cued = m.cued /\ n.preloading = m.preloading /\ n.eagerLoading = m.eagerLoading
      /\ n.loads = {f(l) : l \in m.loads}
  BY DEF Sound, Frame, Forget, Fields
<1>2. \A l \in m.loads : Formed(f(l)) /\ f(l).by = l.by
  BY DEF Sound, Frame, Formed
<1>3. Frame(n) BY <1>1, <1>2 DEF Sound, Frame
<1>4. Waits(n) BY <1>1, <1>2 DEF Sound, Waits
<1> QED BY <1>1, <1>3, <1>4 DEF Sound, Keeps, KeepsHolds

\* A load that begins: the flags stay, and the loads they stand for.
LEMMA BeginKeeps ==
  ASSUME NEW m, Frame(m), NEW by \in Awaited \cup {"user", "eager"}, NEW d \in Decks, NEW v
  PROVE  LET n == Begin(m, by, d, v)
         IN  /\ Frame(n)
             /\ n.on = m.on /\ n.holdLoop = m.holdLoop /\ n.lent = m.lent
             /\ n.preloading = m.preloading /\ n.eagerLoading = m.eagerLoading
             /\ \E l \in n.loads : l.by = by
             /\ \A l \in m.loads : \E k \in n.loads : k.by = l.by
<1> DEFINE f(l) == [l EXCEPT !.newest = @ /\ l.deck # d]
           n == Begin(m, by, d, v)
           new == [by |-> by, deck |-> d, track |-> v, fresh |-> TRUE, newest |-> TRUE]
<1>1. /\ DOMAIN n = Fields /\ n.on = m.on /\ n.holdLoop = m.holdLoop /\ n.lent = m.lent
      /\ n.cued = m.cued /\ n.preloading = m.preloading /\ n.eagerLoading = m.eagerLoading
      /\ n.loads = {f(l) : l \in m.loads} \cup {new}
  BY DEF Frame, Begin, Fields
<1>2. \A l \in m.loads : Formed(f(l)) /\ f(l).by = l.by
  BY DEF Frame, Formed
<1>3. Formed(new) /\ new.by = by BY DEF Formed
<1> HIDE DEF f, new
<1>4. \A l \in n.loads : Formed(l) BY <1>1, <1>2, <1>3
<1>5. Frame(n) BY <1>1, <1>4 DEF Frame
<1>6. \E l \in n.loads : l.by = by BY <1>1, <1>3
<1>7. \A l \in m.loads : \E k \in n.loads : k.by = l.by BY <1>1, <1>2
<1> HIDE DEF n
<1>8. /\ Frame(n) /\ n.on = m.on /\ n.holdLoop = m.holdLoop /\ n.lent = m.lent
      /\ n.preloading = m.preloading /\ n.eagerLoading = m.eagerLoading
  BY <1>1, <1>5
<1> QED BY <1>6, <1>7, <1>8 DEF n

LEMMA AwaitedBegins ==
  ASSUME NEW m, Frame(m), m.eagerLoading => \E l \in m.loads : l.by = "eager",
         NEW by \in Awaited, NEW d \in Decks, NEW v
  PROVE  KeepsHolds(m, Begin(m, by, d, v))
BY BeginKeeps DEF Keeps, KeepsHolds, Sound, Waits

LEMMA AbandonCueKeeps ==
  ASSUME NEW m, Sound(m)
  PROVE  Keeps(m, AbandonCue(m)) /\ AbandonCue(m).lent \subseteq {"fx", "glide"}
BY DEF Sound, Frame, Waits, Keeps, AbandonCue, Fields

LEMMA MissedKeeps ==
  ASSUME NEW m, Sound(m), NEW v
  PROVE  KeepsHolds(m, Missed(m, v)) /\ KeepsHolds(m, Landed(m, v))
<1>1. KeepsHolds(m, Landed(m, v))
  BY DEF Sound, Frame, Waits, Keeps, KeepsHolds, Landed, Fields
<1>2. KeepsHolds(m, Missed(m, v))
  BY DEF Sound, Frame, Waits, Keeps, KeepsHolds, Missed, Fields
<1> QED BY <1>1, <1>2

LEMMA RearmKeeps ==
  ASSUME NEW m, Sound(m)
  PROVE  KeepsHolds(m, Rearm(m))
<1>1. KeepsHolds(m, ResetArm(m)) BY ResetArmKeeps DEF Sound, Waits
<1> QED BY <1>1 DEF Sound, Frame, Waits, Keeps, KeepsHolds, Rearm, Fields

LEMMA AdoptLiveKeeps ==
  ASSUME NEW m, Sound(m), NEW d
  PROVE  Keeps(m, AdoptLive(m, d))
<1> DEFINE a == AbandonCue(Forget(m))
<1>1. Keeps(m, a) BY ForgetKeeps, AbandonCueKeeps DEF Keeps, KeepsHolds
<1>2. Keeps(m, ResetArm(a)) BY <1>1, ResetArmKeeps DEF Sound, Waits, Keeps, KeepsHolds
<1> HIDE DEF a
<1>3. AdoptLive(m, d) = [ResetArm(a) EXCEPT !.live = d, !.vid = track[d], !.phase = "armed"]
  BY DEF AdoptLive, a
<1> QED BY <1>2, <1>3 DEF Sound, Frame, Waits, Keeps, Fields

-----------------------------------------------------------------------------
(* A tick.                                                                  *)

LEMMA ReconcileKeeps ==
  ASSUME NEW m, Sound(m)
  PROVE  Keeps(m, Reconcile(m))
<1> DEFINE n == [m EXCEPT !.was = playing]
<1>1. Keeps(m, n) BY DEF Sound, Frame, Waits, Keeps, Fields
<1>2. Keeps(m, AdoptLive(n, DecideLive(m))) BY <1>1, AdoptLiveKeeps DEF Keeps
<1>3. Keeps(m, [n EXCEPT !.phase = "idle"])
  BY <1>1 DEF Sound, Frame, Waits, Keeps, Fields
<1> HIDE DEF n
<1>4. Reconcile(m) \in {n, AdoptLive(n, DecideLive(m)), [n EXCEPT !.phase = "idle"]}
  BY DEF Reconcile, n
<1> QED BY <1>1, <1>2, <1>3, <1>4

LEMMA OnwardKeeps ==
  ASSUME NEW m, Sound(m), NEW pos
  PROVE  KeepsHolds(m, Onward(m, pos))
<1> DEFINE n == [m EXCEPT !.preloading = TRUE]
<1>1. /\ Frame(n) /\ n.on = m.on /\ n.holdLoop = m.holdLoop /\ n.lent = m.lent
      /\ n.eagerLoading => \E l \in n.loads : l.by = "eager"
  BY DEF Sound, Frame, Waits, Fields
<1>2. Other(m.live) \in Decks BY DEF Other
<1> HIDE DEF n
<1>3. KeepsHolds(m, Begin(n, "advance", Other(m.live), Head(m.queue)))
  BY <1>1, <1>2, AwaitedBegins DEF Awaited, KeepsHolds, Keeps
<1>4. KeepsHolds(m, m) BY DEF KeepsHolds, Keeps
<1> QED BY <1>3, <1>4 DEF Onward, n

LEMMA KickoffKeeps ==
  ASSUME NEW m, Sound(m), NEW pos, TryKickoff(m, pos)
  PROVE  Keeps(m, auto')
<1> DEFINE n == [m EXCEPT !.preloading = TRUE, !.queue = Tail(@)]
           d == IF track["A"] # None THEN "A" ELSE "B"
<1>1. /\ Frame(n) /\ n.on = m.on
      /\ n.eagerLoading => \E l \in n.loads : l.by = "eager"
  BY DEF Sound, Frame, Waits, Fields
<1> HIDE DEF n
<1>2. Keeps(m, Begin(n, "kickoff", "A", Head(m.queue)))
  BY <1>1, AwaitedBegins DEF Awaited, KeepsHolds, Keeps
<1>3. Keeps(m, AdoptLive(m, d)) /\ Keeps(m, m) BY AdoptLiveKeeps DEF Keeps
<1>4. auto' \in {m, AdoptLive(m, d), Begin(n, "kickoff", "A", Head(m.queue))}
  BY DEF TryKickoff, n
<1> QED BY <1>2, <1>3, <1>4

LEMMA EnsurePreloadKeeps ==
  ASSUME NEW m, Sound(m)
  PROVE  Keeps(m, EnsurePreload(m))
<1> DEFINE n == [m EXCEPT !.eagerLoading = TRUE]
           d == Other(m.live)
           v == Head(m.queue)
<1>1. d \in Decks BY DEF Other
<1>2. /\ Frame(n) /\ n.on = m.on /\ n.loads = m.loads /\ n.preloading = m.preloading
  BY DEF Sound, Frame, Fields
<1> HIDE DEF n, d, v
<1>3. Keeps(m, Begin(n, "eager", d, v))
  <2> DEFINE b == Begin(n, "eager", d, v)
  <2>1. "eager" \in Awaited \cup {"user", "eager"} OBVIOUS
  <2>2. /\ Frame(b) /\ b.on = n.on /\ b.preloading = n.preloading
        /\ \E l \in b.loads : l.by = "eager"
        /\ \A l \in n.loads : \E k \in b.loads : k.by = l.by
    BY <1>1, <1>2, <2>1, BeginKeeps
  <2> HIDE DEF b
  <2>3. Waits(b) BY <1>2, <2>2 DEF Sound, Waits
  <2> QED BY <1>2, <2>2, <2>3 DEF Keeps, Sound, b
<1>4. Keeps(m, m) BY DEF Keeps
<1>5. Keeps(m, [m EXCEPT !.preloaded = <<d, v>>])
  BY DEF Sound, Frame, Waits, Keeps, Fields
<1>6. EnsurePreload(m) \in {m, [m EXCEPT !.preloaded = <<d, v>>], Begin(n, "eager", d, v)}
  BY DEF EnsurePreload, n, d, v
<1> QED BY <1>3, <1>4, <1>5, <1>6

LEMMA ArmedKeeps ==
  ASSUME NEW m, Sound(m), NEW pos, TickArmed(m, pos)
  PROVE  Keeps(m, auto')
<1> DEFINE e == EnsurePreload(m)
           n == [e EXCEPT !.exit = IF @ = "none" THEN "planned" ELSE @,
                          !.phase = IF Leading(m, pos) THEN "preload" ELSE @]
<1>1. Keeps(m, e) BY EnsurePreloadKeeps
<1> HIDE DEF e
<1>2. Keeps(m, n) BY <1>1 DEF Sound, Frame, Waits, Keeps, Fields
<1>3. Keeps(m, [m EXCEPT !.phase = "idle"]) BY DEF Sound, Frame, Waits, Keeps, Fields
<1>4. Keeps(m, Onward(m, pos)) BY OnwardKeeps DEF KeepsHolds
<1>5. auto' \in {n, [m EXCEPT !.phase = "idle"], Onward(m, pos)} BY DEF TickArmed, e
<1> HIDE DEF n
<1> QED BY <1>2, <1>3, <1>4, <1>5

\* The cue takes the quiet window and names the deck it is for.
LEMMA CueUpKeeps ==
  ASSUME NEW m, Frame(m), m.eagerLoading => \E l \in m.loads : l.by = "eager",
         NEW d \in Decks, NEW v, NEW p
  PROVE  Keeps(m, CueUp(m, d, v, p)) /\ CueUp(m, d, v, p).holdLoop = m.holdLoop
<1> DEFINE n == CueUp(m, d, v, p)
<1>1. /\ DOMAIN n = Fields /\ n.on = m.on /\ n.holdLoop = m.holdLoop /\ n.loads = m.loads
      /\ n.lent = m.lent \cup {"quiet"} /\ n.cued = d
      /\ n.preloading = FALSE /\ n.eagerLoading = m.eagerLoading
  BY DEF Frame, CueUp, Fields
<1> HIDE DEF n
<1>2. Frame(n) BY <1>1 DEF Frame
<1>3. Waits(n) BY <1>1 DEF Waits
<1> QED BY <1>1, <1>2, <1>3 DEF n, Keeps, Sound

LEMMA PreloadKeeps ==
  ASSUME NEW m, Sound(m), NEW pos, TickPreload(m, pos)
  PROVE  Keeps(m, auto')
<1> DEFINE d == Other(m.live)
           o == Onward(m, pos)
           c == [o EXCEPT !.preloading = TRUE]
           armed == [m EXCEPT !.phase = "armed"]
           load == Begin(c, "cue", d, Head(m.queue))
<1>1. d \in Decks BY DEF Other
<1>2. Keeps(m, o) BY OnwardKeeps DEF KeepsHolds
<1>3. Keeps(m, armed) BY DEF Sound, Frame, Waits, Keeps, Fields
<1>4. ASSUME NEW p PROVE Keeps(m, Onward(CueUp(m, d, track[d], p), pos))
  BY <1>1, CueUpKeeps, OnwardKeeps DEF Keeps, KeepsHolds, Sound, Waits
<1> HIDE DEF o, d
<1>5. /\ Frame(c) /\ c.on = m.on
      /\ c.eagerLoading => \E l \in c.loads : l.by = "eager"
  BY <1>2 DEF Sound, Frame, Waits, Keeps, Fields
<1> HIDE DEF c
<1>6. Keeps(m, load) BY <1>1, <1>5, AwaitedBegins DEF Awaited, KeepsHolds, Keeps
<1> HIDE DEF load, armed
<1>7. \/ auto' \in {o, armed, load}
      \/ \E p \in Plans : auto' = Onward(CueUp(m, d, track[d], p), pos)
  BY DEF TickPreload, o, c, d, load, armed
<1> QED BY <1>2, <1>3, <1>4, <1>6, <1>7

LEMMA CueingKeeps ==
  ASSUME NEW m, Sound(m), NEW pos, TickCueing(m, pos)
  PROVE  Keeps(m, auto')
<1> DEFINE gone == [AbandonCue(m) EXCEPT !.phase = "armed"]
           held == [m EXCEPT !.holdLoop = m.live]
<1>1. Keeps(m, gone)
  BY AbandonCueKeeps DEF Sound, Frame, Waits, Keeps, Fields, AbandonCue
<1>2. Keeps(m, held) BY DEF Sound, Frame, Waits, Keeps, Fields
<1>3. Keeps(m, StartMix(m))
  <2> DEFINE n == StartMix(m)
  <2>1. Other(m.live) \in Decks BY DEF Other
  <2>2. /\ DOMAIN n = Fields /\ n.on = m.on /\ n.loads = m.loads
        /\ n.lent = m.lent \cup {"glide", "fx"} /\ n.cued = Other(m.live)
        /\ n.preloading = m.preloading /\ n.eagerLoading = m.eagerLoading
    BY DEF Sound, Frame, StartMix, Fields
  <2> HIDE DEF n
  <2>3. Frame(n) /\ Waits(n) BY <2>1, <2>2 DEF Sound, Frame, Waits
  <2> QED BY <2>2, <2>3 DEF n, Keeps, Sound
<1>4. Keeps(m, m) BY DEF Keeps
<1>5. auto' \in {gone, held, m, StartMix(m)} BY DEF TickCueing
<1> HIDE DEF gone, held
<1> QED BY <1>1, <1>2, <1>3, <1>4, <1>5

LEMMA SettleKeeps ==
  ASSUME NEW m, Sound(m), Settle(m) \/ HandoffToManual(m)
  PROVE  Keeps(m, auto')
<1>1. CASE Settle(m) BY <1>1 DEF Settle, Sound, Frame, Waits, Keeps, Fields
<1>2. CASE HandoffToManual(m)
  BY <1>2 DEF HandoffToManual, Sound, Frame, Waits, Keeps, Fields
<1> QED BY <1>1, <1>2

LEMMA MixingKeeps ==
  ASSUME NEW m, Sound(m), NEW pos, TickMixing(m, pos)
  PROVE  Keeps(m, auto')
<1> DEFINE e == IF m.live \in playing THEN m.elapsed + 1 ELSE m.elapsed
           on == [m EXCEPT !.elapsed = e, !.dull = Decks]
<1>1. Keeps(m, on) BY DEF Sound, Frame, Waits, Keeps, Fields
<1>2. Keeps(m, [m EXCEPT !.phase = "idle"]) BY DEF Sound, Frame, Waits, Keeps, Fields
<1>3. \/ Settle(m) \/ HandoffToManual(m)
      \/ auto' \in {on, [m EXCEPT !.phase = "idle"]}
  BY DEF TickMixing
<1> HIDE DEF on
<1> QED BY <1>1, <1>2, <1>3, SettleKeeps

LEMMA ManualKeeps ==
  ASSUME NEW m, Sound(m), NEW pos, TickManual(m, pos)
  PROVE  Keeps(m, auto')
<1> DEFINE r == ResetArm(m)
           d == CHOOSE x \in playing : TRUE
           off == [r EXCEPT !.live = None, !.vid = None, !.phase = "idle"]
           back == [r EXCEPT !.live = d, !.vid = track[d], !.phase = "armed"]
<1>1. Keeps(m, r) BY ResetArmKeeps DEF Sound, Waits, KeepsHolds
<1> HIDE DEF r
<1>2. Keeps(m, off) BY <1>1 DEF Sound, Frame, Waits, Keeps, Fields
<1>3. Keeps(m, back) BY <1>1 DEF Sound, Frame, Waits, Keeps, Fields
<1>4. Keeps(m, m) BY DEF Keeps
<1>5. auto' \in {m, off, back} BY DEF TickManual, r
<1> HIDE DEF off, back
<1> QED BY <1>2, <1>3, <1>4, <1>5

LEMMA TickKeeps ==
  ASSUME NEW m, Sound(m), NEW pos, TickAt(m, pos)
  PROVE  Keeps(m, auto') /\ auto'.on
<1> DEFINE n == Reconcile(m)
<1>1. Keeps(m, n) BY ReconcileKeeps
<1> HIDE DEF n
<1>2. \/ TryKickoff(n, pos) \/ TickArmed(n, pos) \/ TickPreload(n, pos)
      \/ TickCueing(n, pos) \/ TickMixing(n, pos) \/ TickManual(n, pos)
  BY DEF TickAt, n
<1>3. Keeps(n, auto')
  BY <1>1, <1>2, KickoffKeeps, ArmedKeeps, PreloadKeeps, CueingKeeps, MixingKeeps,
     ManualKeeps DEF Keeps
<1>4. m.on BY DEF TickAt
<1> QED BY <1>1, <1>3, <1>4 DEF Keeps

-----------------------------------------------------------------------------
(* A load ends: it is taken from the loads, and the flag that stands for it *)
(* is cleared, whatever else comes of it.                                   *)

LEMMA AfterKeeps ==
  ASSUME Sound(auto), NEW l \in auto.loads, NEW inUse, After(l, inUse)
  PROVE  /\ Keeps(auto, auto') /\ auto'.holdLoop = auto.holdLoop
         /\ ~auto.on => auto'.lent = auto.lent
<1> DEFINE m == [auto EXCEPT !.loads = @ \ {l}]
           Same(n) == /\ Keeps(auto, n) /\ n.holdLoop = auto.holdLoop
                      /\ ~auto.on => n.lent = auto.lent
<1>1. /\ Frame(m) /\ m.on = auto.on /\ m.holdLoop = auto.holdLoop /\ m.lent = auto.lent
      /\ m.preloading = auto.preloading /\ m.eagerLoading = auto.eagerLoading
      /\ m.loads = auto.loads \ {l}
  BY DEF Sound, Frame, Fields
<1>2. l.deck \in Decks /\ l.by \in Awaited \cup {"user", "eager"}
  BY DEF Sound, Frame, Formed
<1>3. PICK p \in Plans :
        auto' = CASE l.by = "user" -> m
                  [] l.by = "eager" -> EagerDone(l, m, inUse)
                  [] l.by = "cue" -> CueDone(l, m, inUse, p)
                  [] l.by = "advance" -> AdvanceDone(l, m)
                  [] l.by = "kickoff" -> KickoffDone(l, m)
  BY DEF After
<1> HIDE DEF m
<1>4. CASE l.by = "user"
  <2>1. auto' = m BY <1>3, <1>4
  <2>2. Waits(m) BY <1>1, <1>4 DEF Sound, Waits, Awaited
  <2> QED BY <1>1, <2>1, <2>2 DEF Keeps, Sound
<1>5. CASE l.by = "eager"
  <2> DEFINE n == [m EXCEPT !.eagerLoading = FALSE]
             latched == [Landed(n, l.track) EXCEPT !.preloaded = <<l.deck, l.track>>]
  <2>1. Same(n)
    <3>1. /\ Frame(n) /\ n.on = m.on /\ n.holdLoop = m.holdLoop /\ n.lent = m.lent
          /\ n.loads = m.loads /\ n.preloading = m.preloading /\ n.eagerLoading = FALSE
      BY <1>1 DEF Frame, Fields
    <3>2. Waits(n) BY <1>1, <1>5, <3>1 DEF Sound, Waits, Awaited
    <3> HIDE DEF n
    <3> QED BY <1>1, <3>1, <3>2 DEF Keeps, Sound
  <2> HIDE DEF n
  <2>2. Same(Missed(n, l.track)) /\ KeepsHolds(n, Landed(n, l.track))
    BY <2>1, MissedKeeps DEF Keeps, KeepsHolds
  <2>3. Same(latched)
    BY <2>1, <2>2 DEF Keeps, KeepsHolds, Sound, Frame, Waits, Fields
  <2> HIDE DEF latched
  <2>4. auto' = EagerDone(l, m, inUse) BY <1>3, <1>5
  <2>5. auto' \in {n, latched, Missed(n, l.track)} BY <2>4 DEF EagerDone, n, latched
  <2> HIDE DEF Same
  <2>6. Same(auto') BY <2>1, <2>2, <2>3, <2>5
  <2> QED BY <2>6 DEF Same
<1>6. ASSUME l.by \in Awaited
      PROVE  LET n == [m EXCEPT !.preloading = FALSE]
             IN  /\ Same(n) /\ n.lent = auto.lent /\ n.on = auto.on
                 /\ KeepsHolds(n, Landed(n, l.track)) /\ Same(Missed(n, l.track))
  <2> DEFINE n == [m EXCEPT !.preloading = FALSE]
  <2>1. /\ Frame(n) /\ n.on = m.on /\ n.holdLoop = m.holdLoop /\ n.lent = m.lent
        /\ n.loads = m.loads /\ n.eagerLoading = m.eagerLoading /\ n.preloading = FALSE
    BY <1>1 DEF Frame, Fields
  <2>2. Waits(n) BY <1>1, <1>6, <2>1 DEF Sound, Waits, Awaited
  <2> HIDE DEF n
  <2>3. Same(n) BY <1>1, <2>1, <2>2 DEF Keeps, Sound
  <2>4. KeepsHolds(n, Landed(n, l.track)) /\ Same(Missed(n, l.track))
    BY <2>3, MissedKeeps DEF Keeps, KeepsHolds
  <2>5. n.lent = auto.lent /\ n.on = auto.on BY <1>1, <2>1
  <2> QED BY <2>3, <2>4, <2>5 DEF n
<1>7. CASE l.by \in Awaited
  <2> DEFINE n == [m EXCEPT !.preloading = FALSE]
             landed == Landed(n, l.track)
             armed == [n EXCEPT !.phase = "armed"]
             missed == [Missed(n, l.track) EXCEPT !.phase = "armed"]
             cued == CueUp(landed, l.deck, l.track, p)
             next == [ResetArm(landed) EXCEPT
                        !.live = l.deck, !.vid = l.track, !.phase = "armed", !.queue = Popped(@)]
             first == [landed EXCEPT !.live = "A", !.vid = l.track, !.phase = "armed"]
  <2>1. /\ Same(n) /\ n.lent = auto.lent /\ n.on = auto.on
        /\ KeepsHolds(n, landed) /\ Same(Missed(n, l.track))
    BY <1>6, <1>7
  <2> HIDE DEF n, landed
  <2>2. Same(armed) /\ Same(missed)
    BY <2>1 DEF Keeps, Sound, Frame, Waits, Fields
  <2>3. Keeps(auto, cued) /\ cued.holdLoop = auto.holdLoop
    BY <1>2, <2>1, CueUpKeeps DEF Keeps, KeepsHolds, Sound, Waits
  <2>4. KeepsHolds(n, ResetArm(landed))
    BY <2>1, ResetArmKeeps DEF Keeps, KeepsHolds, Sound, Waits
  <2>5. Same(next)
    BY <2>1, <2>4 DEF Keeps, KeepsHolds, Sound, Frame, Waits, Fields
  <2>6. Same(first)
    BY <2>1 DEF Keeps, KeepsHolds, Sound, Frame, Waits, Fields
  <2>7. auto' \in {CueDone(l, m, inUse, p), AdvanceDone(l, m), KickoffDone(l, m)}
    BY <1>3, <1>7 DEF Awaited
  <2> HIDE DEF armed, missed, cued, next, first
  <2>8. \/ auto' \in {n, armed, missed, next, first, Missed(n, l.track)}
        \/ auto' = cued /\ m.on
    <3>1. CASE auto' = CueDone(l, m, inUse, p)
      BY <3>1 DEF CueDone, Stands, n, landed, armed, missed, cued
    <3>2. CASE auto' = AdvanceDone(l, m)
      BY <3>2 DEF AdvanceDone, n, landed, next
    <3>3. CASE auto' = KickoffDone(l, m)
      BY <3>3 DEF KickoffDone, n, landed, first
    <3> QED BY <2>7, <3>1, <3>2, <3>3
  <2>9. auto' = cued /\ m.on => Same(auto') BY <1>1, <2>3
  <2> HIDE DEF Same
  <2>10. Same(auto') BY <2>1, <2>2, <2>5, <2>6, <2>8, <2>9
  <2> QED BY <2>10 DEF Same
<1> QED BY <1>2, <1>4, <1>5, <1>7

-----------------------------------------------------------------------------
(* The invariant.                                                           *)

MixInv ==
    /\ Sound(auto)
    /\ looping \subseteq {auto.holdLoop} \ {None}
    /\ ~auto.on => looping = {} /\ auto.lent \subseteq {"glide"}

LEMMA LoopsFollow ==
  ASSUME looping \subseteq {auto.holdLoop} \ {None}, Loops
  PROVE  looping' \subseteq {auto'.holdLoop} \ {None}
BY DEF Loops

LEMMA CancelledKeeps ==
  ASSUME NEW m, Sound(m)
  PROVE  LET n == Cancelled(m)
         IN  /\ Keeps(m, n) /\ n.lent \subseteq {"glide"} /\ n.holdLoop = None
<1> DEFINE mixed == [Forget(m) EXCEPT !.lent = {}, !.dull = {}, !.holdLoop = None]
           left == AbandonCue(Forget(m))
           cued == [left EXCEPT !.lent = @ \ {"fx"}]
<1>1. KeepsHolds(m, Forget(m)) BY ForgetKeeps
<1>2. Keeps(m, mixed) /\ mixed.lent = {} /\ mixed.holdLoop = None
  BY <1>1 DEF Keeps, KeepsHolds, Sound, Frame, Waits, Fields
<1>3. /\ Keeps(m, left) /\ left.lent \subseteq {"fx", "glide"} /\ left.holdLoop = None
  BY <1>1, AbandonCueKeeps DEF Keeps, KeepsHolds, AbandonCue, Sound, Frame, Fields
<1> HIDE DEF left
<1>4. Keeps(m, cued) /\ cued.lent \subseteq {"glide"} /\ cued.holdLoop = None
  BY <1>3 DEF Keeps, Sound, Frame, Waits, Fields
<1> HIDE DEF mixed, cued
<1>5. Cancelled(m) \in {Rearm(mixed), Rearm(cued)} BY DEF Cancelled, mixed, cued, left
<1>6. KeepsHolds(mixed, Rearm(mixed)) /\ KeepsHolds(cued, Rearm(cued))
  BY <1>2, <1>4, RearmKeeps DEF Keeps
<1> QED BY <1>2, <1>4, <1>5, <1>6 DEF Keeps, KeepsHolds

LEMMA MixStep ==
  ASSUME MixInv, [Next]_vars
  PROVE  MixInv'
<1> USE DEF MixInv
<1>0. ASSUME NEW m, Sound(m), m.on = auto.on, NEW pos, TickAt(m, pos) PROVE MixInv'
  BY <1>0, TickKeeps, LoopsFollow DEF Keeps, TickAt
<1>1. CASE Tick BY <1>0, <1>1 DEF Tick
<1>2. ASSUME NEW d \in Decks, RunsOut(d) \/ Play(d) \/ Pause(d) PROVE MixInv'
  BY <1>2 DEF RunsOut, Play, Pause, Sound, Frame, Waits
<1>3. CASE Grab BY <1>3 DEF Grab, decks, Sound, Frame, Waits
<1>4. ASSUME NEW d \in Decks, NEW v \in Tracks, Put(d, v) PROVE MixInv'
  <2>1. KeepsHolds(auto, auto')
    BY <1>4, BeginKeeps DEF Put, Keeps, KeepsHolds, Sound, Waits
  <2> QED BY <1>4, <2>1 DEF Put, decks, Keeps, KeepsHolds
<1>5. ASSUME NEW v \in Wanted, Pick(v) PROVE MixInv'
  <2>1. KeepsHolds(auto, auto')
    BY <1>5 DEF Pick, Keeps, KeepsHolds, Sound, Frame, Waits, Fields
  <2> QED BY <1>5, <2>1 DEF Pick, decks, Keeps, KeepsHolds
<1>6. CASE MixNow
  <2>1. Keeps(auto, [auto EXCEPT !.exit = "now"])
    BY DEF Keeps, Sound, Frame, Waits, Fields
  <2> QED BY <1>0, <1>6, <2>1 DEF MixNow, Keeps
<1>7. CASE Skip
  <2> DEFINE a == AbandonCue(Forget(auto))
             n == [a EXCEPT !.queue = IF auto.next = None THEN @ ELSE Without(@, auto.next)]
  <2>1. Keeps(auto, a) BY ForgetKeeps, AbandonCueKeeps DEF Keeps, KeepsHolds
  <2> HIDE DEF a
  <2>2. Keeps(auto, n) BY <2>1 DEF Keeps, Sound, Frame, Waits, Fields
  <2> HIDE DEF n
  <2>3. auto' = Rearm(n) /\ Loops /\ auto.on BY <1>7 DEF Skip, a, n
  <2>4. Keeps(auto, auto') BY <2>2, <2>3, RearmKeeps DEF Keeps, KeepsHolds
  <2> QED BY <2>3, <2>4, LoopsFollow DEF Keeps
<1>8. CASE Hold
  <2>1. auto' = Cancelled(auto) /\ Loops BY <1>8 DEF Hold, Cancel
  <2> QED BY <2>1, CancelledKeeps, LoopsFollow DEF Keeps
<1>9. CASE Disable
  <2> DEFINE c == Cancelled(auto)
  <2>1. Keeps(auto, c) /\ c.lent \subseteq {"glide"} /\ c.holdLoop = None
    BY CancelledKeeps
  <2> HIDE DEF c
  <2>2. auto' = [c EXCEPT !.on = FALSE, !.phase = "idle"] /\ Loops
    BY <1>9 DEF Disable, Cancel, c
  <2>3. Sound(auto') /\ auto'.holdLoop = None /\ auto'.lent = c.lent
    BY <2>1, <2>2 DEF Keeps, Sound, Frame, Waits, Fields
  <2> QED BY <2>1, <2>3, <2>2, LoopsFollow
<1>10. CASE Enable
  <2>1. /\ Sound(auto') /\ auto'.on /\ auto'.holdLoop = auto.holdLoop
    BY <1>10 DEF Enable, Enabled, Sound, Frame, Waits, Fields
  <2> QED BY <1>10, <2>1 DEF Enable, decks
<1>11. ASSUME NEW l \in auto.loads, LoadEnds(l) PROVE MixInv'
  <2>1. PICK inUse : After(l, inUse) BY <1>11 DEF LoadEnds, Lands, Fails
  <2>2. looping' \subseteq looping BY <1>11 DEF LoadEnds, Lands, Fails
  <2> QED BY <2>1, <2>2, AfterKeeps DEF Keeps
<1>12. CASE UNCHANGED vars BY <1>12 DEF vars, decks, Sound, Frame, Waits
<1> QED
  BY <1>1, <1>2, <1>3, <1>4, <1>5, <1>6, <1>7, <1>8, <1>9, <1>10, <1>11, <1>12
  DEF Next, DeckEnds, User

LEMMA MixStart ==
  ASSUME Init
  PROVE  MixInv
<1>1. Sound(Fresh) /\ Fresh.holdLoop = None /\ Fresh.lent = {}
  BY DEF Fresh, Sound, Frame, Waits, Fields
<1> QED BY <1>1 DEF Init, Enabled, MixInv, Sound, Frame, Waits, Fields

LEMMA MixAlways == Spec => []MixInv
BY MixStart, MixStep, PTL DEF Spec

\* For any tracks, queue and number of events: a deck that loops is the one AUTO
\* will free, and the quiet window belongs to a cue.
THEOREM HoldsRemembered == Spec => []HoldsAreRemembered
<1>1. MixInv => HoldsAreRemembered BY DEF MixInv, HoldsAreRemembered, Sound, Frame
<1> QED BY <1>1, MixAlways, PTL

\* A flag that keeps AUTO from loading stands for a load in flight, whatever was
\* skipped, cancelled or superseded.
THEOREM NeverWaitsInVain == Spec => []WaitsForALoad
<1>1. MixInv => WaitsForALoad BY DEF MixInv, WaitsForALoad, Sound, Waits, Awaited
<1> QED BY <1>1, MixAlways, PTL

\* Switched off in any phase, AUTO leaves no deck looping and keeps neither a
\* device nor the quiet window, whatever loads end afterwards.
THEOREM OffHasGivenBack == Spec => []OffGivesBack
<1>1. MixInv => OffGivesBack BY DEF MixInv, OffGivesBack
<1> QED BY <1>1, MixAlways, PTL
-----------------------------------------------------------------------------
(* Type correctness, field by field: the sets are named, so that a step     *)
(* needs only what it writes.                                               *)

Phases == {"idle", "armed", "preload", "cueing", "mixing", "manual"}
DeckOrNone == Decks \cup {None}
TrackOrNone == Tracks \cup {None}
Slots == (Decks \X Tracks) \cup {<<>>}
PlanKinds == {"none", "plain", "extend"}
Exits == {"none", "planned", "now"}
Elapsed == 0 .. Ramp
Queues == Seq(Tracks)
TrackSets == SUBSET Tracks
DeckSets == SUBSET Decks
Lendings == SUBSET {"fx", "glide", "quiet"}
LoadSets == SUBSET Load

Typed(m) ==
  /\ m = [f \in Fields |-> m[f]]
  /\ m.on \in BOOLEAN /\ m.preloading \in BOOLEAN /\ m.eagerLoading \in BOOLEAN
  /\ m.phase \in Phases /\ m.plan \in PlanKinds /\ m.exit \in Exits
  /\ m.live \in DeckOrNone /\ m.cued \in DeckOrNone /\ m.holdLoop \in DeckOrNone
  /\ m.vid \in TrackOrNone /\ m.next \in TrackOrNone
  /\ m.preloaded \in Slots /\ m.elapsed \in Elapsed
  /\ m.missed \in TrackSets /\ m.was \in DeckSets /\ m.dull \in DeckSets
  /\ m.lent \in Lendings /\ m.queue \in Queues /\ m.loads \in LoadSets

LEMMA MixerIs == \A m : Typed(m) <=> m \in Mixer
<1> USE DEF Typed, Mixer, Fields, Phases, DeckOrNone, TrackOrNone, Slots, PlanKinds, Exits,
            Elapsed, Queues, TrackSets, DeckSets, Lendings, LoadSets
<1> SUFFICES ASSUME NEW m PROVE Typed(m) <=> m \in Mixer
  OBVIOUS
<1>1. m \in Mixer => Typed(m) OBVIOUS
<1>2. Typed(m) => m \in Mixer OBVIOUS
<1> QED BY <1>1, <1>2

LEMMA Values ==
  /\ <<>> \in Slots /\ 0 \in Elapsed /\ None \in DeckOrNone /\ None \in TrackOrNone
  /\ Decks \subseteq DeckOrNone /\ Tracks \subseteq TrackOrNone
  /\ \A x \in DeckOrNone : x = None \/ x \in Decks
  /\ {"none", "plain", "extend"} = PlanKinds /\ {"none", "planned", "now"} = Exits
  /\ Phases = {"idle", "armed", "preload", "cueing", "mixing", "manual"}
  /\ \A d \in Decks, v \in Tracks : <<d, v>> \in Slots
  /\ \A v : \A d \in Decks : <<d, v>> \in Slots => v \in Tracks
  /\ \A d : Other(d) \in Decks
BY DEF Phases, DeckOrNone, TrackOrNone, Slots, PlanKinds, Exits, Elapsed, Other

LEMMA SetValues ==
  /\ {} \in DeckSets /\ {} \in Lendings /\ {} \in TrackSets /\ {} \in LoadSets
  /\ Decks \in DeckSets
  /\ \A S \in DeckSets, d \in Decks : S \cup {d} \in DeckSets
  /\ \A d : \A S \in DeckSets : S \ {d} \in DeckSets
  /\ \A x : \A S \in Lendings : S \ {x} \in Lendings
  /\ \A S \in Lendings : /\ S \cup {"quiet"} \in Lendings /\ S \cup {"glide", "fx"} \in Lendings
                         /\ S \ {"fx", "glide"} \in Lendings
  /\ \A S \in TrackSets, v \in Tracks : S \cup {v} \in TrackSets
  /\ \A v : \A S \in TrackSets : S \ {v} \in TrackSets
BY DEF DeckSets, Lendings, TrackSets, LoadSets

LEMMA QueueValues ==
  ASSUME NEW q \in Queues
  PROVE  /\ q # <<>> => Head(q) \in Tracks /\ Tail(q) \in Queues
         /\ Popped(q) \in Queues
         /\ \A v : Without(q, v) \in Queues
         /\ \A v \in Tracks : <<v>> \o Without(q, v) \in Queues
<1>1. \A v : Without(q, v) \in Queues
  <2> SUFFICES ASSUME NEW v PROVE Without(q, v) \in Queues
    OBVIOUS
  <2> DEFINE w == Without(q, v)
  <2>1. w \in Seq(Tracks \ {v}) BY WithoutType DEF Queues
  <2> HIDE DEF w
  <2>2. w \in Seq(Tracks) BY <2>1
  <2> QED BY <2>2 DEF w, Queues
<1>2. \A w \in Queues, v \in Tracks : <<v>> \o w \in Queues BY DEF Queues
<1>3. q # <<>> => Head(q) \in Tracks /\ Tail(q) \in Queues BY DEF Queues
<1> QED BY <1>1, <1>2, <1>3 DEF Popped

LEMMA LoadValues ==
  ASSUME NEW L \in LoadSets
  PROVE  /\ {[l EXCEPT !.fresh = FALSE] : l \in L} \in LoadSets
         /\ \A l : L \ {l} \in LoadSets
         /\ \A d : \A new \in Load :
              {[l EXCEPT !.newest = @ /\ l.deck # d] : l \in L} \cup {new} \in LoadSets
<1>1. \A l \in Load : [l EXCEPT !.fresh = FALSE] \in Load BY DEF Load
<1>2. \A d : \A l \in Load : [l EXCEPT !.newest = @ /\ l.deck # d] \in Load
  <2>1. \A l \in Load, b \in BOOLEAN : [l EXCEPT !.newest = b] \in Load BY DEF Load
  <2>2. \A d : \A l \in Load : (l.newest /\ l.deck # d) \in BOOLEAN OBVIOUS
  <2> QED BY <2>1, <2>2
<1>3. {[l EXCEPT !.fresh = FALSE] : l \in L} \in LoadSets BY <1>1 DEF LoadSets
<1>4. \A l : L \ {l} \in LoadSets BY DEF LoadSets
<1>5. ASSUME NEW d, NEW new \in Load
      PROVE  {[l EXCEPT !.newest = @ /\ l.deck # d] : l \in L} \cup {new} \in LoadSets
  BY <1>2 DEF LoadSets
<1> QED BY <1>3, <1>4, <1>5

\* What the decks are, apart from the mixer.
DecksOK == /\ track \in [Decks -> TrackOrNone]
           /\ playing \in DeckSets /\ looping \in DeckSets
Positions == [Decks -> 0 .. 3]

LEMMA OnIt == ASSUME DecksOK, NEW d \in Decks PROVE track[d] \in TrackOrNone
BY DEF DecksOK

LEMMA ResetArmTyped ==
  ASSUME NEW m, Typed(m)
  PROVE  Typed(ResetArm(m)) /\ ResetArm(m).live = m.live
BY Values DEF Typed, Fields, ResetArm

LEMMA ForgetTyped ==
  ASSUME NEW m, Typed(m)
  PROVE  Typed(Forget(m))
<1>1. {[l EXCEPT !.fresh = FALSE] : l \in m.loads} \in LoadSets BY LoadValues DEF Typed
<1> DEFINE L == {[l EXCEPT !.fresh = FALSE] : l \in m.loads}
<1>2. Forget(m) = [m EXCEPT !.loads = L] BY DEF Forget, Typed, Fields
<1> HIDE DEF L
<1>3. L \in LoadSets BY <1>1 DEF L
<1> QED BY <1>2, <1>3 DEF Typed, Fields

LEMMA BeginTyped ==
  ASSUME NEW m, Typed(m), NEW by \in {"user", "eager", "cue", "advance", "kickoff"},
         NEW d \in Decks, NEW v \in Tracks
  PROVE  Typed(Begin(m, by, d, v))
<1> DEFINE new == [by |-> by, deck |-> d, track |-> v, fresh |-> TRUE, newest |-> TRUE]
           L == {[l EXCEPT !.newest = @ /\ l.deck # d] : l \in m.loads} \cup {new}
<1>1. new \in Load BY DEF Load
<1> HIDE DEF new
<1>2. L \in LoadSets
  <2>1. m.loads \in LoadSets BY DEF Typed
  <2>2. \A e : \A x \in Load :
           {[l EXCEPT !.newest = @ /\ l.deck # e] : l \in m.loads} \cup {x} \in LoadSets
    BY <2>1, LoadValues
  <2> QED BY <1>1, <2>2
<1>3. Begin(m, by, d, v) = [m EXCEPT !.loads = L] BY DEF Begin, Typed, Fields, new
<1> HIDE DEF L
<1> QED BY <1>2, <1>3 DEF Typed, Fields

LEMMA AbandonCueTyped ==
  ASSUME NEW m, Typed(m)
  PROVE  Typed(AbandonCue(m))
<1>1. (m.lent \ {"quiet"}) \in Lendings /\ (m.dull \ {m.cued}) \in DeckSets
  BY SetValues DEF Typed
<1> QED BY <1>1, Values DEF Typed, Fields, AbandonCue

LEMMA MissedTyped ==
  ASSUME NEW m, Typed(m), NEW v \in Tracks
  PROVE  Typed(Missed(m, v)) /\ Typed(Landed(m, v))
<1>1. /\ (m.missed \ {v}) \in TrackSets /\ (m.missed \cup {v}) \in TrackSets
      /\ Without(m.queue, v) \in Queues
  BY SetValues, QueueValues DEF Typed
<1> HIDE DEF Typed
<1>2. Typed([m EXCEPT !.missed = @ \ {v}, !.queue = Without(@, v), !.preloaded = <<>>])
  BY <1>1, Values DEF Typed, Fields
<1>3. Typed([m EXCEPT !.missed = @ \cup {v}]) /\ Typed(Landed(m, v))
  BY <1>1 DEF Typed, Fields, Landed
<1> QED BY <1>2, <1>3 DEF Missed

LEMMA RearmTyped ==
  ASSUME NEW m, Typed(m)
  PROVE  Typed(Rearm(m))
<1> DEFINE r == ResetArm(m)
<1>1. Typed(r) BY ResetArmTyped
<1>2. Rearm(m) = [r EXCEPT !.phase = IF m.live = None THEN "idle" ELSE "armed"]
  BY DEF Rearm
<1> HIDE DEF r
<1> QED BY <1>1, <1>2, Values DEF Typed, Fields

LEMMA AdoptLiveTyped ==
  ASSUME NEW m, Typed(m), DecksOK, NEW d \in Decks
  PROVE  Typed(AdoptLive(m, d))
<1> DEFINE a == ResetArm(AbandonCue(Forget(m)))
           v == track[d]
<1>1. Typed(a) BY ForgetTyped, AbandonCueTyped, ResetArmTyped
<1>2. AdoptLive(m, d) = [a EXCEPT !.live = d, !.vid = v, !.phase = "armed"]
  BY DEF AdoptLive
<1> HIDE DEF a
<1>3. d \in DeckOrNone /\ v \in TrackOrNone BY OnIt, Values
<1> HIDE DEF v
<1> QED BY <1>1, <1>2, <1>3, Values DEF Typed, Fields

LEMMA DecideLiveType ==
  ASSUME DecksOK, NEW m, Typed(m)
  PROVE  DecideLive(m) \in Decks
<1> DEFINE rose == playing \ m.was
<1>1. playing \subseteq Decks /\ rose \subseteq Decks BY DEF DecksOK, DeckSets
<1>2. ASSUME NEW S, S \subseteq Decks, Cardinality(S) = 1
      PROVE  (CHOOSE d \in S : TRUE) \in Decks
  <2>1. S # {} BY <1>2, FS_EmptySet
  <2> QED BY <1>2, <2>1
<1>3. m.live # None => m.live \in Decks BY Values DEF Typed
<1> HIDE DEF rose
<1>4. DecideLive(m) = IF Cardinality(playing) = 1 THEN CHOOSE d \in playing : TRUE
                      ELSE IF Cardinality(rose) = 1 THEN CHOOSE d \in rose : TRUE
                      ELSE IF m.live # None THEN m.live ELSE "A"
  BY DEF DecideLive, rose
<1> QED BY <1>1, <1>2, <1>3, <1>4

LEMMA ReconcileTyped ==
  ASSUME NEW m, Typed(m), DecksOK
  PROVE  Typed(Reconcile(m))
<1> DEFINE n == [m EXCEPT !.was = playing]
<1>1. Typed(n) BY DEF Typed, Fields, DecksOK
<1> HIDE DEF n
<1>2. Typed(AdoptLive(n, DecideLive(m))) BY <1>1, DecideLiveType, AdoptLiveTyped
<1>3. Typed([n EXCEPT !.phase = "idle"]) BY <1>1, Values DEF Typed, Fields
<1>4. Reconcile(m) \in {n, AdoptLive(n, DecideLive(m)), [n EXCEPT !.phase = "idle"]}
  BY DEF Reconcile, n
<1> QED BY <1>1, <1>2, <1>3, <1>4

LEMMA OnwardTyped ==
  ASSUME NEW m, Typed(m), NEW pos
  PROVE  Typed(Onward(m, pos))
<1> DEFINE n == [m EXCEPT !.preloading = TRUE]
<1>1. Typed(n) BY DEF Typed, Fields
<1>2. m.queue # <<>> => Head(m.queue) \in Tracks BY QueueValues DEF Typed
<1> HIDE DEF n
<1>3. m.queue # <<>> => Typed(Begin(n, "advance", Other(m.live), Head(m.queue)))
  BY <1>1, <1>2, BeginTyped, Values
<1> QED BY <1>3 DEF Onward, n

\* A branch of a tick leaves the mixer, the decks that play and where they are
\* of their types.
Ticked == Typed(auto') /\ playing' \in DeckSets /\ at' \in Positions /\ grabbed' \in BOOLEAN

LEMMA KickoffTyped ==
  ASSUME NEW m, Typed(m), DecksOK, grabbed \in BOOLEAN, NEW pos \in Positions, TryKickoff(m, pos)
  PROVE  Ticked
<1> DEFINE d == IF track["A"] # None THEN "A" ELSE "B"
           n == [m EXCEPT !.preloading = TRUE, !.queue = Tail(@)]
<1>1. Typed(AdoptLive(m, d)) BY AdoptLiveTyped
<1>2. ASSUME m.queue # <<>> PROVE Typed(Begin(n, "kickoff", "A", Head(m.queue)))
  <2>1. Head(m.queue) \in Tracks /\ Tail(m.queue) \in Queues BY <1>2, QueueValues DEF Typed
  <2>2. Typed(n) BY <2>1 DEF Typed, Fields
  <2> HIDE DEF n
  <2> QED BY <2>1, <2>2, BeginTyped
<1> HIDE DEF n
<1>3. \/ auto' \in {m, AdoptLive(m, d)}
      \/ m.queue # <<>> /\ auto' = Begin(n, "kickoff", "A", Head(m.queue))
  BY DEF TryKickoff, n
<1>4. Typed(auto') BY <1>1, <1>2, <1>3
<1>5. UNCHANGED <<playing, grabbed>> /\ at' = pos BY DEF TryKickoff
<1> QED BY <1>4, <1>5 DEF Ticked, DecksOK

LEMMA EnsurePreloadTyped ==
  ASSUME NEW m, Typed(m)
  PROVE  Typed(EnsurePreload(m))
<1> DEFINE n == [m EXCEPT !.eagerLoading = TRUE]
           d == Other(m.live)
           v == Head(m.queue)
           s == <<d, v>>
<1>1. d \in Decks BY Values
<1>2. CASE m.queue = <<>> BY <1>2 DEF EnsurePreload
<1>3. CASE m.queue # <<>>
  <2>1. v \in Tracks BY <1>3, QueueValues DEF Typed
  <2>2. s \in Slots BY <1>1, <2>1, Values
  <2>3. Typed(n) BY DEF Typed, Fields
  <2>4. EnsurePreload(m) \in {m, [m EXCEPT !.preloaded = s], Begin(n, "eager", d, v)}
    BY DEF EnsurePreload
  <2> HIDE DEF n, d, v, s
  <2>5. Typed(Begin(n, "eager", d, v)) BY <1>1, <2>1, <2>3, BeginTyped
  <2>6. Typed([m EXCEPT !.preloaded = s]) BY <2>2 DEF Typed, Fields
  <2> QED BY <2>4, <2>5, <2>6
<1> QED BY <1>2, <1>3

LEMMA ArmedTyped ==
  ASSUME NEW m, Typed(m), DecksOK, grabbed \in BOOLEAN, NEW pos \in Positions, TickArmed(m, pos)
  PROVE  Ticked
<1> DEFINE e == EnsurePreload(m)
           n == [e EXCEPT !.exit = IF @ = "none" THEN "planned" ELSE @,
                          !.phase = IF Leading(m, pos) THEN "preload" ELSE @]
<1>1. Typed(e) BY EnsurePreloadTyped
<1>2. auto' \in {n, [m EXCEPT !.phase = "idle"], Onward(m, pos)} BY DEF TickArmed
<1> HIDE DEF e
<1>3. Typed(n) BY <1>1, Values DEF Typed, Fields
<1>4. Typed([m EXCEPT !.phase = "idle"]) BY Values DEF Typed, Fields
<1>5. Typed(Onward(m, pos)) BY OnwardTyped
<1> HIDE DEF n
<1>6. Typed(auto') BY <1>2, <1>3, <1>4, <1>5
<1>7. UNCHANGED <<playing, grabbed>> /\ at' = pos BY DEF TickArmed
<1> QED BY <1>6, <1>7 DEF Ticked, DecksOK

LEMMA CueUpTyped ==
  ASSUME NEW m, Typed(m), NEW d \in Decks, NEW v \in Tracks, NEW p \in Plans
  PROVE  Typed(CueUp(m, d, v, p))
<1>1. /\ (m.dull \cup {d}) \in DeckSets /\ (m.lent \cup {"quiet"}) \in Lendings
      /\ p \in PlanKinds /\ v \in TrackOrNone /\ d \in DeckOrNone
  BY SetValues, Values DEF Typed, Plans
<1> QED BY <1>1, Values DEF Typed, Fields, CueUp

LEMMA PreloadTyped ==
  ASSUME NEW m, Typed(m), DecksOK, grabbed \in BOOLEAN, NEW pos \in Positions, TickPreload(m, pos)
  PROVE  Ticked
<1> DEFINE d == Other(m.live)
           v == track[d]
           o == Onward(m, pos)
           n == [o EXCEPT !.preloading = TRUE]
           armed == [m EXCEPT !.phase = "armed"]
<1>1. d \in Decks /\ v \in TrackOrNone BY Values, OnIt
<1>2. Typed(o) /\ Typed(armed)
  <2>1. Typed(armed) BY Values DEF Typed, Fields
  <2> QED BY <2>1, OnwardTyped
<1>3. Typed(n)
  <2> HIDE DEF o
  <2> QED BY <1>2 DEF Typed, Fields
<1>4. m.queue # <<>> => Typed(Begin(n, "cue", d, Head(m.queue)))
  <2>1. m.queue # <<>> => Head(m.queue) \in Tracks BY QueueValues DEF Typed
  <2> HIDE DEF n
  <2> QED BY <1>1, <1>3, <2>1, BeginTyped
<1>5. ASSUME m.preloaded = <<d, v>>, NEW p \in Plans PROVE Typed(Onward(CueUp(m, d, v, p), pos))
  <2>1. v \in Tracks BY <1>1, <1>5, Values DEF Typed
  <2> QED BY <1>1, <2>1, CueUpTyped, OnwardTyped
<1>6. Typed(auto')
  <2>1. \/ auto' \in {o, armed}
        \/ m.queue # <<>> /\ auto' = Begin(n, "cue", d, Head(m.queue))
        \/ m.preloaded = <<d, v>> /\ \E p \in Plans : auto' = Onward(CueUp(m, d, v, p), pos)
    BY DEF TickPreload
  <2> HIDE DEF o, armed, n, d, v
  <2> QED BY <1>2, <1>4, <1>5, <2>1
<1>7. at' \in Positions
  <2>1. [pos EXCEPT ![d] = 0] \in Positions
    <3> HIDE DEF d
    <3> QED BY <1>1 DEF Positions
  <2> QED BY <2>1 DEF TickPreload
<1>8. playing' = playing /\ grabbed' \in {FALSE, grabbed} BY DEF TickPreload
<1> QED BY <1>6, <1>7, <1>8 DEF Ticked, DecksOK

LEMMA CueingTyped ==
  ASSUME NEW m, Typed(m), DecksOK, grabbed \in BOOLEAN, NEW pos \in Positions, TickCueing(m, pos)
  PROVE  Ticked
<1> DEFINE a == AbandonCue(m)
           d == Other(m.live)
<1>1. Typed([a EXCEPT !.phase = "armed"])
  <2>1. Typed(a) BY AbandonCueTyped
  <2> HIDE DEF a
  <2> QED BY <2>1, Values DEF Typed, Fields
<1>2. Typed([m EXCEPT !.holdLoop = m.live]) BY DEF Typed, Fields
<1>3. Typed(StartMix(m))
  <2>1. d \in DeckOrNone /\ (m.lent \cup {"glide", "fx"}) \in Lendings
    BY Values, SetValues DEF Typed
  <2>2. StartMix(m) = [m EXCEPT !.phase = "mixing", !.cued = d, !.elapsed = 0,
                                !.lent = @ \cup {"glide", "fx"}]
    BY DEF StartMix
  <2> HIDE DEF d
  <2> QED BY <2>1, <2>2, Values DEF Typed, Fields
<1>4. Typed(auto')
  <2>1. auto' \in {m, [a EXCEPT !.phase = "armed"], [m EXCEPT !.holdLoop = m.live], StartMix(m)}
    BY DEF TickCueing
  <2> HIDE DEF a
  <2> QED BY <1>1, <1>2, <1>3, <2>1
<1>5. playing' \in DeckSets
  <2>1. playing' = playing \/ playing' = playing \cup {d} BY DEF TickCueing
  <2>2. d \in Decks BY Values
  <2> HIDE DEF d
  <2> QED BY <2>1, <2>2, SetValues DEF DecksOK
<1>6. UNCHANGED grabbed /\ at' = pos BY DEF TickCueing
<1> QED BY <1>4, <1>5, <1>6 DEF Ticked

LEMMA SettleTyped ==
  ASSUME NEW m, Typed(m), DecksOK, grabbed \in BOOLEAN, Settle(m) \/ HandoffToManual(m)
  PROVE  Typed(auto') /\ playing' \in DeckSets /\ grabbed' \in BOOLEAN
<1>1. CASE Settle(m)
  <2> DEFINE d == Other(m.live)
             v == IF m.next = None THEN track[d] ELSE m.next
             q == Popped(m.queue)
  <2>1. d \in DeckOrNone /\ v \in TrackOrNone /\ q \in Queues
    BY Values, OnIt, QueueValues DEF Typed
  <2>2. auto' = [m EXCEPT !.live = d, !.vid = v, !.cued = None, !.next = None, !.plan = "none",
                          !.exit = "none", !.elapsed = 0, !.preloaded = <<>>,
                          !.phase = "armed", !.lent = {}, !.dull = {}, !.holdLoop = None,
                          !.queue = q]
    BY <1>1 DEF Settle, Typed, Fields
  <2>3. playing' = playing \ {m.live} /\ grabbed' = FALSE BY <1>1 DEF Settle
  <2> HIDE DEF d, v, q
  <2>4. Typed(auto') BY <2>1, <2>2, Values, SetValues DEF Typed, Fields
  <2> QED BY <2>3, <2>4, SetValues DEF DecksOK
<1>2. CASE HandoffToManual(m)
  <2>1. Typed(auto') BY <1>2, Values, SetValues DEF HandoffToManual, Typed, Fields
  <2> QED BY <1>2, <2>1 DEF HandoffToManual, DecksOK
<1> QED BY <1>1, <1>2

LEMMA MixingTyped ==
  ASSUME NEW m, Typed(m), DecksOK, grabbed \in BOOLEAN, NEW pos \in Positions, TickMixing(m, pos)
  PROVE  Ticked
<1> DEFINE e == IF m.live \in playing THEN m.elapsed + 1 ELSE m.elapsed
           on == [m EXCEPT !.elapsed = e, !.dull = Decks]
<1>0. at' = pos BY DEF TickMixing
<1>1. CASE Settle(m) \/ HandoffToManual(m)
  BY <1>0, <1>1, SettleTyped DEF Ticked
<1>2. CASE auto' = [m EXCEPT !.phase = "idle"] /\ UNCHANGED <<playing, grabbed>>
  <2>1. Typed(auto') BY <1>2, Values DEF Typed, Fields
  <2> QED BY <1>0, <1>2, <2>1 DEF Ticked, DecksOK
<1>3. CASE ~(e >= Ramp) /\ auto' = on /\ grabbed' = FALSE /\ UNCHANGED playing
  <2>1. e \in Elapsed BY <1>3 DEF Typed, Elapsed
  <2> HIDE DEF e
  <2>2. Typed(on) BY <2>1, SetValues DEF Typed, Fields
  <2> HIDE DEF on
  <2> QED BY <1>0, <1>3, <2>2 DEF Ticked, DecksOK
<1> QED BY <1>1, <1>2, <1>3 DEF TickMixing

LEMMA ManualTyped ==
  ASSUME NEW m, Typed(m), DecksOK, grabbed \in BOOLEAN, NEW pos \in Positions, TickManual(m, pos)
  PROVE  Ticked
<1> DEFINE r == ResetArm(m)
           d == CHOOSE x \in playing : TRUE
           v == track[d]
<1>1. Typed(r) BY ResetArmTyped
<1>2. playing # {} => d \in DeckOrNone /\ v \in TrackOrNone
  BY OnIt, Values DEF DecksOK, DeckSets
<1>3. \/ auto' = m \/ auto' = [r EXCEPT !.live = None, !.vid = None, !.phase = "idle"]
      \/ /\ playing # {}
         /\ auto' = [r EXCEPT !.live = d, !.vid = v, !.phase = "armed"]
  BY DEF TickManual
<1> HIDE DEF r, d, v
<1>4. Typed(auto') BY <1>1, <1>2, <1>3, Values DEF Typed, Fields
<1>5. UNCHANGED <<playing, grabbed>> /\ at' = pos BY DEF TickManual
<1> QED BY <1>4, <1>5 DEF Ticked, DecksOK

LEMMA LoopsTyped ==
  ASSUME DecksOK, Typed(auto'), Loops
  PROVE  looping' \in DeckSets
BY DEF Loops, DecksOK, Typed, DeckSets, DeckOrNone

LEMMA TickTyped ==
  ASSUME NEW m, Typed(m), DecksOK, grabbed \in BOOLEAN, NEW pos \in Positions, TickAt(m, pos)
  PROVE  Ticked /\ looping' \in DeckSets /\ track' = track
<1> DEFINE n == Reconcile(m)
<1>1. Typed(n) BY ReconcileTyped
<1>2. \/ TryKickoff(n, pos) \/ TickArmed(n, pos) \/ TickPreload(n, pos)
      \/ TickCueing(n, pos) \/ TickMixing(n, pos) \/ TickManual(n, pos)
  BY DEF TickAt
<1>3. Loops /\ track' = track BY DEF TickAt
<1> HIDE DEF n
<1>4. Ticked
  BY <1>1, <1>2, KickoffTyped, ArmedTyped, PreloadTyped, CueingTyped, MixingTyped, ManualTyped
<1> QED BY <1>3, <1>4, LoopsTyped DEF Ticked

\* A flag lowered, a phase set.
LEMMA LoweredTyped ==
  ASSUME NEW m, Typed(m)
  PROVE  /\ Typed([m EXCEPT !.eagerLoading = FALSE]) /\ Typed([m EXCEPT !.preloading = FALSE])
         /\ Typed([m EXCEPT !.phase = "armed"])
<1>1. Typed([m EXCEPT !.eagerLoading = FALSE]) BY DEF Typed, Fields
<1>2. Typed([m EXCEPT !.preloading = FALSE]) BY DEF Typed, Fields
<1>3. Typed([m EXCEPT !.phase = "armed"]) BY Values DEF Typed, Fields
<1> QED BY <1>1, <1>2, <1>3

LEMMA EagerDoneTyped ==
  ASSUME NEW m, Typed(m), NEW l \in Load, NEW inUse
  PROVE  Typed(EagerDone(l, m, inUse))
<1> DEFINE n == [m EXCEPT !.eagerLoading = FALSE]
           a == Landed(n, l.track)
           s == <<l.deck, l.track>>
<1>1. Typed(n) BY LoweredTyped
<1>2. l.deck \in Decks /\ l.track \in Tracks BY DEF Load
<1>3. s \in Slots BY <1>2, Values
<1>4. EagerDone(l, m, inUse) \in {n, [a EXCEPT !.preloaded = s], Missed(n, l.track)}
  BY DEF EagerDone
<1> HIDE DEF n, s
<1>5. Typed(a) /\ Typed(Missed(n, l.track)) BY <1>1, <1>2, MissedTyped
<1> HIDE DEF a
<1>6. Typed([a EXCEPT !.preloaded = s]) BY <1>3, <1>5 DEF Typed, Fields
<1> QED BY <1>1, <1>4, <1>5, <1>6

LEMMA CueDoneTyped ==
  ASSUME NEW m, Typed(m), NEW l \in Load, NEW inUse, NEW p \in Plans
  PROVE  Typed(CueDone(l, m, inUse, p))
<1> DEFINE n == [m EXCEPT !.preloading = FALSE]
           a == Landed(n, l.track)
           b == Missed(n, l.track)
           x == [n EXCEPT !.phase = "armed"]
           y == [b EXCEPT !.phase = "armed"]
<1>1. Typed(n) BY LoweredTyped
<1>2. l.deck \in Decks /\ l.track \in Tracks BY DEF Load
<1>3. CueDone(l, m, inUse, p) \in {x, CueUp(a, l.deck, l.track, p), y} BY DEF CueDone
<1> HIDE DEF n
<1>4. Typed(a) /\ Typed(b) BY <1>1, <1>2, MissedTyped
<1> HIDE DEF a, b
<1>5. Typed(x) /\ Typed(y) BY <1>1, <1>4, LoweredTyped
<1>6. Typed(CueUp(a, l.deck, l.track, p)) BY <1>2, <1>4, CueUpTyped
<1> HIDE DEF x, y
<1> QED BY <1>3, <1>5, <1>6

LEMMA AdvanceDoneTyped ==
  ASSUME NEW m, Typed(m), NEW l \in Load
  PROVE  Typed(AdvanceDone(l, m))
<1> DEFINE n == [m EXCEPT !.preloading = FALSE]
           r == ResetArm(Landed(n, l.track))
           d == l.deck
           v == l.track
           q == Popped(r.queue)
           x == [r EXCEPT !.live = d, !.vid = v, !.phase = "armed", !.queue = q]
<1>1. Typed(n) BY LoweredTyped
<1>2. d \in DeckOrNone /\ v \in TrackOrNone /\ v \in Tracks BY Values DEF Load
<1>3. Typed(Missed(n, v)) /\ Typed(r)
  <2> HIDE DEF n
  <2> QED BY <1>1, <1>2, MissedTyped, ResetArmTyped
<1>4. AdvanceDone(l, m) \in {n, x, Missed(n, v)}
  <2>1. x = [r EXCEPT !.live = d, !.vid = v, !.phase = "armed", !.queue = Popped(@)]
    <3> HIDE DEF n, d, v
    <3>1. r = [f \in Fields |-> r[f]] BY <1>3 DEF Typed
    <3> HIDE DEF r
    <3> QED BY <3>1 DEF Fields
  <2> HIDE DEF x
  <2> QED BY <2>1 DEF AdvanceDone
<1> HIDE DEF n, r, d, v
<1>5. q \in Queues BY <1>3, QueueValues DEF Typed
<1> HIDE DEF q
<1>6. Typed(x) BY <1>2, <1>3, <1>5, Values DEF Typed, Fields
<1> HIDE DEF x
<1> QED BY <1>1, <1>3, <1>4, <1>6

LEMMA KickoffDoneTyped ==
  ASSUME NEW m, Typed(m), NEW l \in Load
  PROVE  Typed(KickoffDone(l, m))
<1> DEFINE n == [m EXCEPT !.preloading = FALSE]
           v == l.track
           a == Landed(n, v)
           x == [a EXCEPT !.live = "A", !.vid = v, !.phase = "armed"]
<1>1. Typed(n) BY LoweredTyped
<1>2. v \in TrackOrNone /\ v \in Tracks /\ "A" \in DeckOrNone BY Values DEF Load
<1>3. KickoffDone(l, m) \in {n, x, Missed(n, v)} BY DEF KickoffDone
<1> HIDE DEF n, v
<1>4. Typed(Missed(n, v)) /\ Typed(a) BY <1>1, <1>2, MissedTyped
<1> HIDE DEF a
<1>5. Typed(x) BY <1>2, <1>4, Values DEF Typed, Fields
<1> HIDE DEF x
<1> QED BY <1>1, <1>3, <1>4, <1>5

LEMMA AfterTyped ==
  ASSUME Typed(auto), DecksOK, grabbed \in BOOLEAN, NEW l \in auto.loads, NEW inUse, After(l, inUse)
  PROVE  /\ l.deck \in Decks /\ l.track \in Tracks
         /\ Typed(auto') /\ playing' \in DeckSets /\ grabbed' \in BOOLEAN
<1> DEFINE L == auto.loads \ {l}
           m == [auto EXCEPT !.loads = L]
<1>1. l \in Load /\ L \in LoadSets
  <2>1. auto.loads \in LoadSets BY DEF Typed
  <2>2. auto.loads \subseteq Load BY <2>1 DEF LoadSets
  <2> QED BY <2>1, <2>2, LoadValues
<1>2. l.deck \in Decks /\ l.track \in Tracks
      /\ l.by \in {"user", "eager", "cue", "advance", "kickoff"}
  BY <1>1 DEF Load
<1>3. m = [auto EXCEPT !.loads = @ \ {l}] BY DEF Typed, Fields
<1> HIDE DEF L
<1>4. Typed(m) BY <1>1 DEF Typed, Fields
<1> HIDE DEF m
<1>5. \E p \in Plans : auto' \in {m, EagerDone(l, m, inUse), CueDone(l, m, inUse, p),
                                  AdvanceDone(l, m), KickoffDone(l, m)}
  BY <1>2, <1>3 DEF After
<1>6. Typed(auto')
  BY <1>1, <1>4, <1>5, EagerDoneTyped, CueDoneTyped, AdvanceDoneTyped, KickoffDoneTyped
<1>7. \E S \in {playing, playing \ {l.deck}} : playing' = S \/ playing' = S \cup {l.deck}
  BY DEF After
<1>8. playing' \in DeckSets
  <2> DEFINE d == l.deck
  <2>1. playing' \in {playing, playing \ {d}, playing \cup {d}, (playing \ {d}) \cup {d}} BY <1>7
  <2>2. d \in Decks /\ playing \in DeckSets BY <1>2 DEF DecksOK
  <2> HIDE DEF d
  <2>3. playing \ {d} \in DeckSets /\ \A S \in DeckSets : S \cup {d} \in DeckSets
    BY <2>2, SetValues
  <2> QED BY <2>1, <2>2, <2>3
<1>9. grabbed' \in BOOLEAN BY DEF After
<1> QED BY <1>2, <1>6, <1>8, <1>9

LEMMA CancelledTyped ==
  ASSUME NEW m, Typed(m)
  PROVE  Typed(Cancelled(m))
<1> DEFINE f == Forget(m)
           x == [f EXCEPT !.lent = {}, !.dull = {}, !.holdLoop = None]
           a == AbandonCue(f)
           y == [a EXCEPT !.lent = @ \ {"fx"}]
<1>1. Typed(f) /\ Typed(a) BY ForgetTyped, AbandonCueTyped
<1>2. Cancelled(m) \in {Rearm(x), Rearm(y)} BY DEF Cancelled
<1> HIDE DEF f, a
<1>3. Typed(x) BY <1>1, Values, SetValues DEF Typed, Fields
<1>4. Typed(y)
  <2>1. a.lent \ {"fx"} \in Lendings BY <1>1, SetValues DEF Typed
  <2> QED BY <1>1, <2>1 DEF Typed, Fields
<1> HIDE DEF x, y
<1> QED BY <1>2, <1>3, <1>4, RearmTyped

LEMMA EnabledTyped ==
  ASSUME NEW m, Typed(m), NEW t \in [Decks -> TrackOrNone], NEW p \in DeckSets
  PROVE  Typed(Enabled(m, t, p))
<1> DEFINE d == IF "A" \in p THEN "A" ELSE IF "B" \in p THEN "B" ELSE None
           v == IF d = None THEN None ELSE t[d]
           ph == IF d = None THEN "idle" ELSE "armed"
<1>1. d \in DeckOrNone /\ v \in TrackOrNone /\ ph \in Phases BY Values
<1>2. Enabled(m, t, p) = [m EXCEPT !.on = TRUE, !.was = p, !.live = d, !.vid = v, !.phase = ph]
  BY DEF Enabled
<1> HIDE DEF d, v, ph
<1> QED BY <1>1, <1>2 DEF Typed, Fields

\* The types, as the steps keep them.
MixTyped == /\ Typed(auto) /\ DecksOK /\ at \in Positions
            /\ grabbed \in BOOLEAN /\ spent \in 0 .. Total

LEMMA MixTypedIs == MixTyped <=> TypeOK
BY MixerIs DEF MixTyped, TypeOK, DecksOK, Positions, TrackOrNone, DeckSets

LEMMA MixTypedStep ==
  ASSUME MixTyped, [Next]_vars
  PROVE  MixTyped'
<1> SUFFICES /\ Typed(auto') /\ track' \in [Decks -> TrackOrNone] /\ playing' \in DeckSets
             /\ looping' \in DeckSets /\ at' \in Positions /\ grabbed' \in BOOLEAN
             /\ spent' \in 0 .. Total
  BY DEF MixTyped, DecksOK, Typed
<1>1. /\ Typed(auto) /\ DecksOK /\ at \in Positions /\ grabbed \in BOOLEAN
      /\ spent \in 0 .. Total
  BY DEF MixTyped
<1>2. track \in [Decks -> TrackOrNone] /\ playing \in DeckSets /\ looping \in DeckSets
  BY <1>1 DEF DecksOK
<1>3. \A kind : Happens(kind) => spent' \in 0 .. Total BY <1>1 DEF Happens
<1> DEFINE Goal == /\ Typed(auto') /\ track' \in [Decks -> TrackOrNone] /\ playing' \in DeckSets
                   /\ looping' \in DeckSets /\ at' \in Positions /\ grabbed' \in BOOLEAN
                   /\ spent' \in 0 .. Total
<1>4. CASE Tick
  <2>1. PICK pos \in Got : TickAt(auto, pos) /\ UNCHANGED spent BY <1>4 DEF Tick
  <2>2. pos \in Positions BY DEF Got, Positions
  <2> QED BY <1>1, <1>2, <2>1, <2>2, TickTyped DEF Ticked
<1>5. ASSUME NEW d \in Decks, RunsOut(d) PROVE Goal
  <2>1. playing \ {d} \in DeckSets BY <1>2, SetValues
  <2> QED BY <1>1, <1>2, <1>5, <2>1 DEF RunsOut
<1>6. ASSUME NEW d \in Decks, Play(d) \/ Pause(d) PROVE Goal
  <2>1. playing \ {d} \in DeckSets /\ playing \cup {d} \in DeckSets BY <1>2, SetValues
  <2> QED BY <1>1, <1>2, <1>3, <1>6, <2>1 DEF Play, Pause
<1>7. ASSUME NEW d \in Decks, NEW v \in Tracks, Put(d, v) PROVE Goal
  BY <1>1, <1>2, <1>3, <1>7, BeginTyped DEF Put, decks
<1>8. CASE Grab BY <1>1, <1>2, <1>3, <1>8 DEF Grab, decks
<1>9. CASE MixNow
  <2> DEFINE m == [auto EXCEPT !.exit = "now"]
  <2>1. Typed(m) BY <1>1, Values DEF Typed, Fields
  <2>2. TickAt(m, at) /\ Happens("now") BY <1>9 DEF MixNow
  <2> HIDE DEF m
  <2> QED BY <1>1, <1>2, <1>3, <2>1, <2>2, TickTyped DEF Ticked
<1>10. CASE Skip
  <2> DEFINE a == AbandonCue(Forget(auto))
             q == IF auto.next = None THEN a.queue ELSE Without(a.queue, auto.next)
             n == [a EXCEPT !.queue = q]
  <2>1. Typed(a) BY <1>1, ForgetTyped, AbandonCueTyped
  <2>2. auto' = Rearm([a EXCEPT !.queue = IF auto.next = None THEN @ ELSE Without(@, auto.next)])
    BY <1>10 DEF Skip
  <2>3. Loops /\ UNCHANGED <<track, playing, at, grabbed>> /\ \E kind : Happens(kind)
    BY <1>10 DEF Skip
  <2> HIDE DEF a
  <2>4. q \in Queues BY <2>1, QueueValues DEF Typed
  <2>5. auto' = Rearm(n) BY <2>2
  <2> HIDE DEF q
  <2>6. Typed(n) BY <2>1, <2>4 DEF Typed, Fields
  <2> HIDE DEF n
  <2>7. Typed(auto') BY <2>5, <2>6, RearmTyped
  <2> QED BY <1>1, <1>2, <1>3, <2>3, <2>7, LoopsTyped
<1>11. CASE Hold
  <2>1. Typed(auto') /\ Loops BY <1>1, <1>11, CancelledTyped DEF Hold, Cancel
  <2>2. playing' \in DeckSets /\ grabbed' \in BOOLEAN
    BY <1>2, <1>11, SetValues DEF Hold, Cancel
  <2> QED BY <1>1, <1>2, <1>3, <1>11, <2>1, <2>2, LoopsTyped DEF Hold
<1>12. CASE Disable
  <2> DEFINE c == Cancelled(auto)
  <2>1. auto' = [c EXCEPT !.on = FALSE, !.phase = "idle"] /\ Loops BY <1>12 DEF Disable, Cancel
  <2>2. Typed(c) BY <1>1, CancelledTyped
  <2> HIDE DEF c
  <2>3. Typed(auto') BY <2>1, <2>2, Values DEF Typed, Fields
  <2>4. playing' \in DeckSets /\ grabbed' \in BOOLEAN
    BY <1>2, <1>12, SetValues DEF Disable, Cancel
  <2> QED BY <1>1, <1>2, <1>3, <1>12, <2>1, <2>3, <2>4, LoopsTyped DEF Disable
<1>13. CASE Enable BY <1>1, <1>2, <1>13, EnabledTyped DEF Enable, decks
<1>14. ASSUME NEW v \in Wanted, Pick(v) PROVE Goal
  <2> DEFINE q == <<v>> \o Without(auto.queue, v)
  <2>1. v \in Tracks BY StartAssumption
  <2>2. q \in Queues BY <1>1, <2>1, QueueValues DEF Typed
  <2>3. auto' = [auto EXCEPT !.queue = q] BY <1>1, <1>14 DEF Pick, Typed, Fields
  <2> HIDE DEF q
  <2>4. Typed(auto') BY <1>1, <2>2, <2>3 DEF Typed, Fields
  <2> QED BY <1>1, <1>2, <1>3, <1>14, <2>4 DEF Pick, decks
<1>15. ASSUME NEW l \in auto.loads, LoadEnds(l) PROVE Goal
  <2>1. PICK inUse : After(l, inUse) BY <1>15 DEF LoadEnds, Lands, Fails
  <2>2. /\ l.deck \in Decks /\ l.track \in Tracks
        /\ Typed(auto') /\ playing' \in DeckSets /\ grabbed' \in BOOLEAN
    BY <1>1, <2>1, AfterTyped
  <2>3. track' \in [Decks -> TrackOrNone]
    <3>1. track' = track \/ track' = [track EXCEPT ![l.deck] = l.track]
      BY <1>15 DEF LoadEnds, Lands, Fails
    <3> QED BY <1>2, <2>2, <3>1 DEF TrackOrNone
  <2>4. at' \in Positions
    <3> DEFINE d == l.deck
    <3>1. at' = at \/ at' = [at EXCEPT ![d] = 0] \/ at' = [at EXCEPT ![d] = at[d]]
      BY <1>15 DEF LoadEnds, Lands, Fails
    <3>2. d \in Decks BY <2>2
    <3> HIDE DEF d
    <3> QED BY <1>1, <3>1, <3>2 DEF Positions
  <2>5. looping' \in DeckSets
    <3>1. looping' = looping \/ looping' = looping \ {l.deck}
      BY <1>15 DEF LoadEnds, Lands, Fails
    <3>2. looping \ {l.deck} \in DeckSets BY <1>2, SetValues
    <3> QED BY <1>2, <3>1, <3>2
  <2>6. UNCHANGED spent BY <1>15 DEF LoadEnds
  <2> QED BY <1>1, <2>2, <2>3, <2>4, <2>5, <2>6
<1>16. CASE UNCHANGED vars BY <1>1, <1>2, <1>16 DEF vars, decks
<1> QED
  BY <1>4, <1>5, <1>6, <1>7, <1>8, <1>9, <1>10, <1>11, <1>12, <1>13, <1>14, <1>15, <1>16
  DEF Next, DeckEnds, User

LEMMA MixTypedStart ==
  ASSUME Init
  PROVE  MixTyped
<1>1. Playlist \in Queues /\ track \in [Decks -> TrackOrNone]
  BY StartAssumption DEF Init, Queues, TrackOrNone
<1>2. playing \in DeckSets /\ looping \in DeckSets BY SetValues DEF Init, DeckSets
<1>3. Typed(Fresh) BY <1>1, Values, SetValues DEF Fresh, Typed, Fields
<1>4. Typed(auto) BY <1>1, <1>2, <1>3, EnabledTyped DEF Init
<1>5. at \in Positions
  <2>1. at = [d \in Decks |-> 0] BY DEF Init
  <2>2. 0 \in 0 .. 3 OBVIOUS
  <2> QED BY <2>1, <2>2 DEF Positions
<1>6. grabbed \in BOOLEAN /\ spent \in 0 .. Total
  <2>1. grabbed = FALSE /\ spent = 0 BY DEF Init
  <2>2. Total \in Nat BY AutoMixAssumption
  <2>3. 0 \in 0 .. Total BY <2>2
  <2> QED BY <2>1, <2>3
<1> QED BY <1>1, <1>2, <1>4, <1>5, <1>6 DEF MixTyped, DecksOK

\* For any tracks, playlist, length of a blend and number of events, the mixer,
\* the decks and the loads in flight stay what the code takes them for: the
\* queue holds tracks only, what skips, picks and misses leave of it included,
\* and a blend's tick count stays below its length.
THEOREM MixTypeCorrect == Spec => []TypeOK
<1>1. MixTyped => TypeOK BY MixTypedIs
<1> QED BY <1>1, MixTypedStart, MixTypedStep, PTL DEF Spec

=============================================================================
