-------------------------- MODULE AccountSyncProofs --------------------------
(***************************************************************************)
(* Theorems of AccountSync.  Everything in it comes from the past (Past),  *)
(* so an edit makes a value and a stamp that nothing else has; and until   *)
(* something tears the two apart (Torn) the stamps of a value are a span   *)
(* in which no other value has one.                                        *)
(***************************************************************************)
EXTENDS AccountSync, TLAPS

Time == 0..now
DataNow == [c : Time, r : Time]
PutNow == [data : DataNow, ts : Time]
NudgeNow == [c : Time, ts : Time]

\* The parts of Past that a render may change.
PastCopies ==
  /\ now \in Nat \ {0}
  /\ mem \in [Devices -> DataNow] /\ stamp \in [Devices -> Time]
  /\ synced \in [Devices -> DataNow \cup {None}]
  /\ timer \in [Devices -> PutNow \cup {None}]
PastRoom ==
  /\ online \in [Devices -> BOOLEAN] /\ sig \in [Devices -> Nat \cup {None}]
  /\ due \in [Devices -> BOOLEAN]
  /\ nudges \in [Devices -> Seq(NudgeNow)]
PastRest ==
  /\ row \in PutNow /\ pushes \subseteq PutNow
  /\ first \in [Devices -> DataNow]
  /\ pull \in [Devices -> [is : {"none", "asked", "answered"}, put : PutNow]]
PastShape ==
  /\ blob \in {"settings", "library"} /\ phase \in [Devices -> {"pulling", "on"}]
  /\ spent \in Nat /\ torn \subseteq Events \cup {"echo", "between"}
Past == PastCopies /\ PastRoom /\ PastRest /\ PastShape

LEMMA PastIsTyped == Past => TypeOK
<1> SUFFICES ASSUME Past PROVE TypeOK
  OBVIOUS
<1>1. Time \subseteq Nat
  BY DEF Past, PastCopies, Time
<1>2. DataNow \subseteq Data /\ PutNow \subseteq Put /\ NudgeNow \subseteq [c : Nat, ts : Nat]
  BY <1>1 DEF DataNow, PutNow, NudgeNow, Data, Put
<1>3. Seq(NudgeNow) \subseteq Seq([c : Nat, ts : Nat])
  <2> DEFINE W == [c : Nat, ts : Nat]
  <2>1. NudgeNow \subseteq W
    BY <1>2
  <2> HIDE DEF W
  <2>2. Seq(NudgeNow) \subseteq Seq(W)
    BY <2>1
  <2> QED
    BY <2>2 DEF W
<1>4. nudges \in [Devices -> Seq([c : Nat, ts : Nat])]
  BY <1>3 DEF Past, PastRoom
<1>5. /\ blob \in {"settings", "library"} /\ now \in Nat
      /\ phase \in [Devices -> {"pulling", "on"}]
      /\ online \in [Devices -> BOOLEAN] /\ sig \in [Devices -> Nat \cup {None}]
      /\ due \in [Devices -> BOOLEAN] /\ spent \in Nat /\ torn \subseteq Events \cup {"echo", "between"}
  BY DEF Past, PastCopies, PastRoom, PastShape
<1>6. /\ row \in Put /\ pushes \subseteq Put /\ first \in [Devices -> Data]
      /\ mem \in [Devices -> Data] /\ stamp \in [Devices -> Nat]
      /\ synced \in [Devices -> Data \cup {None}]
      /\ timer \in [Devices -> Put \cup {None}]
  BY <1>1, <1>2 DEF Past, PastCopies, PastRest
<1>7. pull \in [Devices -> [is : {"none", "asked", "answered"}, put : Put \cup {NoPut}]]
  BY <1>2 DEF Past, PastRest
<1> QED
  BY <1>4, <1>5, <1>6, <1>7 DEF TypeOK

LEMMA PastGrows ==
  ASSUME now \in Nat, now' \in {now, now + 1}
  PROVE  /\ Time \subseteq Time' /\ DataNow \subseteq DataNow' /\ PutNow \subseteq PutNow'
         /\ NudgeNow \subseteq NudgeNow' /\ Seq(NudgeNow) \subseteq Seq(NudgeNow')
<1>1. Time \subseteq Time'
  BY DEF Time
<1>2. DataNow \subseteq DataNow' /\ PutNow \subseteq PutNow' /\ NudgeNow \subseteq NudgeNow'
  BY <1>1 DEF DataNow, PutNow, NudgeNow
<1> QED
  BY <1>1, <1>2

LEMMA RestGrows ==
  ASSUME PastRest, now \in Nat, now' \in {now, now + 1}, UNCHANGED <<row, first, pushes, pull>>
  PROVE  PastRest'
BY PastGrows DEF PastRest

LEMMA ColoursPast ==
  ASSUME PastRoom, now \in Nat, now' \in {now, now + 1}, NEW d \in Devices, NEW s, s.c \in Nat, Colours(d, s)
  PROVE  PastRoom'
<1> DEFINE b == Broadcasts(d, s)
<1>1. /\ due' = [due EXCEPT ![d] = b]
      /\ sig' = [sig EXCEPT ![d] = IF online[d] /\ ~b THEN s.c ELSE sig[d]]
      /\ UNCHANGED <<online, nudges>>
  BY DEF Colours
<1>2. b \in BOOLEAN
  BY DEF Broadcasts
<1> HIDE DEF b
<1>3. due' \in [Devices -> BOOLEAN]
  BY <1>1, <1>2 DEF PastRoom
<1>4. sig' \in [Devices -> Nat \cup {None}] /\ online' \in [Devices -> BOOLEAN]
  BY <1>1 DEF PastRoom
<1>5. nudges' \in [Devices -> Seq(NudgeNow')]
  BY <1>1, PastGrows DEF PastRoom
<1> QED
  BY <1>3, <1>4, <1>5 DEF PastRoom

LEMMA RenderPast ==
  ASSUME PastCopies, PastRoom, NEW d \in Devices, NEW st \in Time,
         NEW s \in [c : 0..now + 1, r : 0..now + 1], NEW sy \in DataNow \cup {None, s},
         Render(d, s, st, sy), sy = s => s \in DataNow
  PROVE  now' \in {now, now + 1} /\ PastCopies' /\ PastRoom'
<1> DEFINE t == now + 1
           p == Pushes(d, s, sy)
<1>1. /\ mem' = [mem EXCEPT ![d] = s]
      /\ stamp' = [stamp EXCEPT ![d] = IF p THEN t ELSE st]
      /\ now' = IF p \/ t \in {s.c, s.r} THEN t ELSE now
      /\ synced' = [synced EXCEPT ![d] = IF p THEN s ELSE sy]
      /\ timer' = IF p THEN [timer EXCEPT ![d] = [data |-> s, ts |-> t]] ELSE timer
      /\ Colours(d, s)
  BY DEF Render
<1> HIDE DEF p
<1>2. now \in Nat \ {0} /\ now' \in {now, now + 1}
  BY <1>1 DEF PastCopies
<1>3. s \in DataNow' /\ s.c \in Nat
  BY <1>1, <1>2 DEF DataNow, Time
<1>4. Time \subseteq Time' /\ DataNow \subseteq DataNow' /\ PutNow \subseteq PutNow'
  BY <1>2, PastGrows
<1>5. p => t \in Time'
  BY <1>1, <1>2 DEF Time
<1>6. mem' \in [Devices -> DataNow'] /\ stamp' \in [Devices -> Time']
  BY <1>1, <1>3, <1>4, <1>5 DEF PastCopies
<1>7. synced' \in [Devices -> DataNow' \cup {None}]
  BY <1>1, <1>3, <1>4 DEF PastCopies
<1>8. timer' \in [Devices -> PutNow' \cup {None}]
  <2>1. CASE p
    <3>1. [data |-> s, ts |-> t] \in PutNow'
      BY <1>3, <1>5, <2>1 DEF PutNow
    <3> QED
      BY <1>1, <1>4, <2>1, <3>1 DEF PastCopies
  <2>2. CASE ~p
    BY <1>1, <1>4, <2>2 DEF PastCopies
  <2> QED
    BY <2>1, <2>2
<1>9. PastRoom'
  BY <1>1, <1>2, <1>3, ColoursPast
<1> QED
  BY <1>2, <1>6, <1>7, <1>8, <1>9 DEF PastCopies

LEMMA EditIsNew ==
  ASSUME Past, NEW d \in Devices, NEW f \in {"c", "r"}
  PROVE  [mem[d] EXCEPT ![f] = now + 1] # synced[d]
<1> DEFINE s == [mem[d] EXCEPT ![f] = now + 1]
<1>1. now \in Nat /\ mem[d] \in DataNow /\ synced[d] \in DataNow \cup {None}
  BY DEF Past, PastCopies
<1>2. s \in Data /\ s[f] = now + 1
  BY <1>1 DEF Data, DataNow, Time
<1>3. synced[d] \in DataNow => synced[d][f] \in Time
  BY DEF DataNow
<1>4. now + 1 \notin Time
  BY <1>1 DEF Time
<1> QED
  BY <1>1, <1>2, <1>3, <1>4, NoneIsNoData

\* What an edit makes is newer than all there was; the render is the code's.
LEMMA EditPast ==
  ASSUME Past, NEW d \in Devices, NEW f \in {"c", "r"}, Edit(d, f)
  PROVE  now' \in {now, now + 1} /\ Past'
<1> DEFINE s == [mem[d] EXCEPT ![f] = now + 1]
<1>1. /\ now \in Nat \ {0} /\ mem[d] \in DataNow /\ stamp[d] \in Time
      /\ synced[d] \in DataNow \cup {None}
  BY DEF Past, PastCopies
<1>2. s \in [c : 0..now + 1, r : 0..now + 1]
  BY <1>1 DEF DataNow, Time
<1>3. synced[d] # s
  BY EditIsNew
<1>4. Render(d, s, stamp[d], synced[d]) /\ UNCHANGED <<blob, phase, row, first, pull, pushes>>
  BY DEF Edit
<1> HIDE DEF s
<1>5. now' \in {now, now + 1} /\ PastCopies' /\ PastRoom'
  BY <1>1, <1>2, <1>3, <1>4, RenderPast DEF Past
<1>6. PastRest'
  BY <1>1, <1>4, <1>5, RestGrows DEF Past
<1>7. spent' \in Nat /\ torn' \subseteq Events \cup {"echo", "between"}
  BY SyncAssumption DEF Edit, Happens, Past, PastShape, Events
<1>8. PastShape'
  BY <1>4, <1>7 DEF Past, PastShape
<1> QED
  BY <1>5, <1>6, <1>8 DEF Past

LEMMA AdoptPast ==
  ASSUME Past, NEW d \in Devices, Adopt(d), UNCHANGED <<blob, row, first, pushes>>,
         phase' \in [Devices -> {"pulling", "on"}], pull' = [pull EXCEPT ![d] = Get("none")]
  PROVE  now' \in {now, now + 1} /\ Past'
<1> DEFINE p == pull[d].put
<1>1. p \in PutNow /\ p.data \in DataNow /\ p.ts \in Time /\ now \in Nat \ {0}
  BY DEF Past, PastRest, PastCopies, PutNow
<1>2. p.data \in [c : 0..now + 1, r : 0..now + 1]
  BY <1>1 DEF DataNow, Time
<1>4. Render(d, p.data, p.ts, p.data) /\ Echoes(Broadcasts(d, p.data))
  BY DEF Adopt
<1> HIDE DEF p
<1>5. now' \in {now, now + 1} /\ PastCopies' /\ PastRoom'
  BY <1>1, <1>2, <1>4, RenderPast DEF Past
<1>6. PutNow \subseteq PutNow' /\ DataNow \subseteq DataNow'
  BY <1>1, <1>5, PastGrows
<1>7. NoPut \in PutNow
  BY <1>1 DEF NoPut, PutNow, DataNow, Time
<1>8. PastRest'
  BY <1>6, <1>7 DEF Past, PastRest, Get
<1>9. PastShape'
  BY <1>4 DEF Past, PastShape, Echoes
<1> QED
  BY <1>5, <1>8, <1>9 DEF Past

LEMMA ArrivePast ==
  ASSUME Past, NEW p \in pushes, Arrive(p) \/ Lose(p)
  PROVE  now' = now /\ Past'
<1>1. /\ now' = now /\ row' \in {row, p} /\ pushes' = pushes \ {p}
      /\ UNCHANGED <<blob, mem, stamp, synced, timer, phase, first, pull, online, sig, due, nudges>>
      /\ Quietly \/ Happens("lose")
  BY DEF Arrive, Lose, copies, room
<1>2. Time' = Time /\ DataNow' = DataNow /\ PutNow' = PutNow /\ NudgeNow' = NudgeNow
  BY <1>1 DEF Time, DataNow, PutNow, NudgeNow
<1>3. PastCopies' /\ PastRoom'
  BY <1>1, <1>2 DEF Past, PastCopies, PastRoom
<1>4. PastRest'
  BY <1>1, <1>2 DEF Past, PastRest
<1>5. PastShape'
  BY <1>1, SyncAssumption DEF Past, PastShape, Quietly, Happens
<1> QED
  BY <1>1, <1>3, <1>4, <1>5 DEF Past

LEMMA WirePast ==
  ASSUME Past, NEW d \in Devices, FirePush(d) \/ Poll(d) \/ Answer(d)
  PROVE  now' = now /\ Past'
<1>0. now' = now /\ UNCHANGED <<blob, mem, stamp, synced, phase, first, online, sig, due, nudges>>
  BY DEF FirePush, Poll, Answer, copies, room
<1>1. Time' = Time /\ DataNow' = DataNow /\ PutNow' = PutNow /\ NudgeNow' = NudgeNow
  BY <1>0 DEF Time, DataNow, PutNow, NudgeNow
<1>2. NoPut \in PutNow
  BY DEF NoPut, PutNow, DataNow, Time, Past, PastCopies
<1>3. timer' \in [Devices -> PutNow \cup {None}]
  BY DEF FirePush, Poll, Answer, Past, PastCopies
<1>4. PastCopies' /\ PastRoom'
  BY <1>0, <1>1, <1>3 DEF Past, PastCopies, PastRoom
<1>5. row' \in PutNow /\ pushes' \subseteq PutNow
  BY DEF FirePush, Poll, Answer, Past, PastRest, PastCopies
<1>6. pull' \in [Devices -> [is : {"none", "asked", "answered"}, put : PutNow]]
  <2>1. CASE Poll(d) \/ Answer(d)
    <3>1. row \in PutNow /\ pull \in [Devices -> [is : {"none", "asked", "answered"}, put : PutNow]]
      BY DEF Past, PastRest
    <3> QED
      BY <1>2, <2>1, <3>1 DEF Poll, Answer, Get
  <2>2. CASE ~(Poll(d) \/ Answer(d))
    BY <2>2 DEF FirePush, Past, PastRest
  <2> QED
    BY <2>1, <2>2
<1>7. spent' \in Nat /\ torn' \subseteq Events \cup {"echo", "between"}
  <2>1. spent \in Nat /\ torn \subseteq Events \cup {"echo", "between"}
    BY DEF Past, PastShape
  <2>2. Quietly \/ \E e \in Kinds : spent' = spent + 1 /\ torn' = torn \cup {e}
    BY DEF FirePush, Poll, Answer, Happens
  <2> QED
    BY <2>1, <2>2, SyncAssumption DEF Quietly
<1> QED
  BY <1>0, <1>1, <1>4, <1>5, <1>6, <1>7 DEF Past, PastRest, PastShape

LEMMA PollLandsPast ==
  ASSUME Past, NEW d \in Devices, PollLands(d)
  PROVE  now' \in {now, now + 1} /\ Past'
<1>1. CASE Adopt(d)
  BY <1>1, AdoptPast DEF PollLands, Past, PastShape
<1>2. CASE ~Adopt(d)
  <2>1. /\ now' = now /\ UNCHANGED <<blob, mem, synced, timer, online, sig, due, nudges, spent, torn, row, first, pushes, phase>>
        /\ stamp' = stamp \/ stamp' = [stamp EXCEPT ![d] = pull[d].put.ts]
        /\ pull' = [pull EXCEPT ![d] = Get("none")]
    BY <1>2 DEF PollLands, Quietly, copies, room
  <2>2. Time' = Time /\ DataNow' = DataNow /\ PutNow' = PutNow /\ NudgeNow' = NudgeNow
    BY <2>1 DEF Time, DataNow, PutNow, NudgeNow
  <2>3. NoPut \in PutNow
    BY DEF NoPut, PutNow, DataNow, Time, Past, PastCopies
  <2>4. pull[d].put.ts \in Time
    BY DEF Past, PastRest, PutNow
  <2>5. PastCopies' /\ PastRoom' /\ PastShape'
    BY <2>1, <2>2, <2>4 DEF Past, PastCopies, PastRoom, PastShape
  <2>6. PastRest'
    BY <2>1, <2>2, <2>3 DEF Past, PastRest, Get
  <2> QED
    BY <2>1, <2>5, <2>6 DEF Past
<1> QED
  BY <1>1, <1>2

LEMMA MountLandsPast ==
  ASSUME Past, NEW d \in Devices, MountLands(d)
  PROVE  now' \in {now, now + 1} /\ Past'
<1>0. phase' = [phase EXCEPT ![d] = "on"] /\ pull' = [pull EXCEPT ![d] = Get("none")]
      /\ UNCHANGED <<blob, row, first>>
  BY DEF MountLands
<1>1. CASE Adopt(d) /\ UNCHANGED pushes
  BY <1>0, <1>1, AdoptPast DEF Past, PastShape
<1>2. CASE ~(Adopt(d) /\ UNCHANGED pushes)
  <2> DEFINE s == IF blob = "settings" THEN first[d] ELSE mem[d]
             t == IF stamp[d] # 0 THEN stamp[d] ELSE now + 1
  <2>1. /\ pushes' = pushes \cup {[data |-> s, ts |-> t]}
        /\ stamp' = [stamp EXCEPT ![d] = t]
        /\ now' = IF stamp[d] # 0 THEN now ELSE now + 1
        /\ synced' = [synced EXCEPT ![d] = s]
        /\ UNCHANGED <<mem, timer, online, sig, due, nudges, spent, torn>>
    BY <1>2 DEF MountLands, Quietly, room
  <2>2. now \in Nat \ {0} /\ now' \in {now, now + 1} /\ s \in DataNow /\ stamp[d] \in Time
    BY <2>1 DEF Past, PastCopies, PastRest
  <2>3. t \in Time'
    BY <2>1, <2>2 DEF Time
  <2> HIDE DEF s, t
  <2>4. Time \subseteq Time' /\ DataNow \subseteq DataNow' /\ PutNow \subseteq PutNow'
        /\ Seq(NudgeNow) \subseteq Seq(NudgeNow')
    BY <2>2, PastGrows
  <2>5. PastCopies' /\ PastRoom'
    BY <2>1, <2>2, <2>3, <2>4 DEF Past, PastCopies, PastRoom
  <2>6. NoPut \in PutNow
    BY DEF NoPut, PutNow, DataNow, Time, Past, PastCopies
  <2>7. [data |-> s, ts |-> t] \in PutNow'
    BY <2>2, <2>3, <2>4 DEF PutNow
  <2>8. PastRest'
    BY <1>0, <2>1, <2>4, <2>6, <2>7 DEF Past, PastRest, Get
  <2>9. PastShape'
    BY <1>0, <2>1 DEF Past, PastShape
  <2> QED
    BY <2>2, <2>5, <2>8, <2>9 DEF Past
<1> QED
  BY <1>1, <1>2

LEMMA RestartPast ==
  ASSUME Past, NEW d \in Devices, Restart(d)
  PROVE  now' = now /\ Past'
<1>1. now' = now /\ Time' = Time /\ DataNow' = DataNow /\ PutNow' = PutNow /\ NudgeNow' = NudgeNow
  BY DEF Restart, Time, DataNow, PutNow, NudgeNow
<1>2. NoPut \in PutNow
  BY DEF NoPut, PutNow, DataNow, Time, Past, PastCopies
<1>3. PastCopies'
  BY <1>1 DEF Past, PastCopies, Restart
<1>4. PastRoom'
  BY <1>1 DEF Past, PastRoom, Restart
<1>5. PastRest'
  BY <1>1, <1>2 DEF Past, PastCopies, PastRest, Restart, Get
<1>6. PastShape'
  BY SyncAssumption DEF Past, PastShape, Restart, Happens
<1> QED
  BY <1>1, <1>3, <1>4, <1>5, <1>6 DEF Past

LEMMA DropPast ==
  ASSUME Past, NEW d \in Devices, Drop(d)
  PROVE  now' = now /\ Past'
<1>1. now' = now /\ Time' = Time /\ DataNow' = DataNow /\ PutNow' = PutNow /\ NudgeNow' = NudgeNow
  BY DEF Drop, Time, DataNow, PutNow, NudgeNow
<1>2. PastCopies' /\ PastRest'
  BY <1>1 DEF Past, PastCopies, PastRest, Drop, copies, wire
<1>3. PastRoom'
  BY <1>1 DEF Past, PastRoom, Drop
<1>4. PastShape'
  BY SyncAssumption DEF Past, PastShape, Drop, Happens
<1> QED
  BY <1>1, <1>2, <1>3, <1>4 DEF Past

LEMMA SendsPast ==
  ASSUME Past, NEW d \in Devices, NEW t \in {now, now + 1}, Sends(d, t), UNCHANGED <<mem, synced, timer>>,
         online' \in [Devices -> BOOLEAN], due' \in [Devices -> BOOLEAN]
  PROVE  now' \in {now, now + 1} /\ PastCopies' /\ PastRoom'
<1> DEFINE n == [c |-> mem[d].c, ts |-> t]
<1>1. /\ stamp' = [stamp EXCEPT ![d] = t] /\ now' = t
      /\ sig' = [sig EXCEPT ![d] = mem[d].c]
      /\ nudges' = [e \in Devices |->
            IF e # d /\ online[e] THEN Append(nudges[e], n) ELSE nudges[e]]
  BY DEF Sends
<1>2. now \in Nat \ {0} /\ now' \in {now, now + 1} /\ mem[d].c \in Time
  BY <1>1 DEF Past, PastCopies, DataNow
<1>3. t \in Time' /\ mem[d].c \in Nat
  BY <1>1, <1>2 DEF Time
<1>4. Time \subseteq Time' /\ DataNow \subseteq DataNow' /\ PutNow \subseteq PutNow'
      /\ NudgeNow \subseteq NudgeNow' /\ Seq(NudgeNow) \subseteq Seq(NudgeNow')
  BY <1>2, PastGrows
<1>5. n \in NudgeNow'
  BY <1>2, <1>3, <1>4 DEF NudgeNow
<1> HIDE DEF n
<1>6. PastCopies'
  <2>1. stamp' \in [Devices -> Time']
    BY <1>1, <1>3, <1>4 DEF Past, PastCopies
  <2>2. /\ mem' \in [Devices -> DataNow'] /\ synced' \in [Devices -> DataNow' \cup {None}]
        /\ timer' \in [Devices -> PutNow' \cup {None}]
    BY <1>4 DEF Past, PastCopies
  <2>3. now' \in Nat \ {0}
    BY <1>2
  <2> QED
    BY <2>1, <2>2, <2>3 DEF PastCopies
<1>7. ASSUME NEW e \in Devices PROVE nudges'[e] \in Seq(NudgeNow')
  <2>1. nudges[e] \in Seq(NudgeNow')
    BY <1>4 DEF Past, PastRoom
  <2> QED
    BY <1>1, <1>5, <2>1
<1>8. sig' \in [Devices -> Nat \cup {None}]
  BY <1>1, <1>3 DEF Past, PastRoom
<1>9. nudges' \in [Devices -> Seq(NudgeNow')]
  BY <1>1, <1>7
<1> QED
  BY <1>2, <1>6, <1>8, <1>9 DEF PastRoom

LEMMA BroadcastPast ==
  ASSUME Past, NEW d \in Devices, Broadcast(d)
  PROVE  now' \in {now, now + 1} /\ Past'
<1>1. /\ due' = [due EXCEPT ![d] = FALSE] /\ \E t \in {now, now + 1} : Sends(d, t)
      /\ UNCHANGED <<blob, row, mem, synced, timer, phase, first, pull, pushes, online, spent>>
      /\ torn' \in {torn, torn \cup {"between"}}
  BY DEF Broadcast, wire
<1>2. due' \in [Devices -> BOOLEAN] /\ online' \in [Devices -> BOOLEAN]
  BY <1>1 DEF Past, PastRoom
<1>3. now' \in {now, now + 1} /\ PastCopies' /\ PastRoom'
  BY <1>1, <1>2, SendsPast
<1>4. PastRest'
  BY <1>1, <1>3, RestGrows DEF Past, PastCopies
<1>5. PastShape'
  BY <1>1 DEF Past, PastShape
<1> QED
  BY <1>3, <1>4, <1>5 DEF Past

LEMMA GoOnlinePast ==
  ASSUME Past, NEW d \in Devices, GoOnline(d)
  PROVE  now' \in {now, now + 1} /\ Past'
<1> DEFINE b == sig[d] # None /\ sig[d] # mem[d].c
<1>1. /\ online' = [online EXCEPT ![d] = TRUE] /\ Echoes(b)
      /\ b => Sends(d, now + 1)
      /\ ~b => sig' = [sig EXCEPT ![d] = mem[d].c] /\ UNCHANGED <<stamp, now, nudges>>
      /\ UNCHANGED <<blob, row, mem, synced, phase, first, pull, timer, pushes, due>>
  BY DEF GoOnline, wire
<1> HIDE DEF b
<1>2. due' \in [Devices -> BOOLEAN] /\ online' \in [Devices -> BOOLEAN]
  BY <1>1 DEF Past, PastRoom
<1>3. now' \in {now, now + 1} /\ PastCopies' /\ PastRoom'
  <2>1. CASE b
    BY <1>1, <1>2, <2>1, SendsPast
  <2>2. CASE ~b
    <3>1. Time' = Time /\ DataNow' = DataNow /\ PutNow' = PutNow /\ NudgeNow' = NudgeNow
      BY <1>1, <2>2 DEF Time, DataNow, PutNow, NudgeNow
    <3>2. mem[d].c \in Nat
      BY DEF Past, PastCopies, DataNow, Time
    <3>3. PastCopies'
      BY <1>1, <2>2, <3>1 DEF Past, PastCopies
    <3>4. PastRoom'
      BY <1>1, <1>2, <2>2, <3>1, <3>2 DEF Past, PastRoom
    <3> QED
      BY <1>1, <2>2, <3>3, <3>4
  <2> QED
    BY <2>1, <2>2
<1>4. PastRest'
  BY <1>1, <1>3, RestGrows DEF Past, PastCopies
<1>5. PastShape'
  BY <1>1 DEF Past, PastShape, Echoes
<1> QED
  BY <1>3, <1>4, <1>5 DEF Past

LEMMA NudgePast ==
  ASSUME Past, NEW d \in Devices, Nudge(d)
  PROVE  now' \in {now, now + 1} /\ Past'
<1> DEFINE n == Head(nudges[d])
           s == [mem[d] EXCEPT !.c = n.c]
           p == phase[d] = "on" /\ s # synced[d]
           t == IF p THEN now + 1 ELSE n.ts
<1>1. nudges[d] \in Seq(NudgeNow) /\ nudges[d] # <<>> /\ nudges' = [nudges EXCEPT ![d] = Tail(@)]
      /\ UNCHANGED <<blob, row, phase, first, pull, pushes, online, due>>
  BY DEF Nudge, Past, PastRoom
<1>2. n \in NudgeNow /\ Tail(nudges[d]) \in Seq(NudgeNow)
  BY <1>1
<1>3. n.c \in Time /\ n.ts \in Time /\ mem[d] \in DataNow /\ now \in Nat \ {0}
  BY <1>2 DEF NudgeNow, Past, PastCopies
<1>4. s \in DataNow /\ n.c \in Nat
  BY <1>3 DEF DataNow, Time
<1>5. \/ /\ mem' = [mem EXCEPT ![d] = s]
         /\ sig' = [sig EXCEPT ![d] = n.c]
         /\ stamp' = [stamp EXCEPT ![d] = t]
         /\ now' = IF p THEN now + 1 ELSE now
         /\ synced' = IF p THEN [synced EXCEPT ![d] = s] ELSE synced
         /\ timer' = IF p THEN [timer EXCEPT ![d] = [data |-> s, ts |-> t]] ELSE timer
         /\ Echoes(TRUE)
      \/ UNCHANGED <<now, mem, stamp, synced, timer, sig, spent, torn>>
  BY DEF Nudge, copies, Quietly
<1>6. t \in IF p THEN {now + 1} ELSE Time
  BY <1>3
<1> HIDE DEF n, s, p, t
<1>7. now' \in {now, now + 1}
  BY <1>5
<1>8. Time \subseteq Time' /\ DataNow \subseteq DataNow' /\ PutNow \subseteq PutNow'
      /\ Seq(NudgeNow) \subseteq Seq(NudgeNow')
  BY <1>3, <1>7, PastGrows
<1>9. CASE UNCHANGED <<now, mem, stamp, synced, timer, sig, spent, torn>>
  <2>1. Time' = Time /\ DataNow' = DataNow /\ PutNow' = PutNow /\ NudgeNow' = NudgeNow
    BY <1>9 DEF Time, DataNow, PutNow, NudgeNow
  <2> QED
    BY <1>1, <1>2, <1>7, <1>9, <2>1 DEF Past, PastCopies, PastRoom, PastRest, PastShape
<1>10. CASE ~UNCHANGED <<now, mem, stamp, synced, timer, sig, spent, torn>>
  <2>1. t \in Time'
    <3>1. CASE p
      <4>1. t = now + 1 /\ now' = now + 1
        BY <1>5, <1>6, <1>10, <3>1
      <4>2. t \in 0..now'
        BY <1>3, <4>1
      <4> QED
        BY <4>2 DEF Time
    <3>2. CASE ~p
      BY <1>6, <1>8, <3>2
    <3> QED
      BY <3>1, <3>2
  <2>2. [data |-> s, ts |-> t] \in PutNow'
    BY <1>4, <1>8, <2>1 DEF PutNow
  <2>3. PastCopies'
    <3>1. now' \in Nat \ {0}
      BY <1>3, <1>7
    <3>2. s \in DataNow'
      BY <1>4, <1>8
    <3>3. mem' \in [Devices -> DataNow'] /\ stamp' \in [Devices -> Time']
      BY <1>5, <1>8, <1>10, <2>1, <3>2 DEF Past, PastCopies
    <3>4. synced' \in [Devices -> DataNow' \cup {None}]
      BY <1>5, <1>8, <1>10, <3>2 DEF Past, PastCopies
    <3>5. timer' \in [Devices -> PutNow' \cup {None}]
      BY <1>5, <1>8, <1>10, <2>2 DEF Past, PastCopies
    <3> QED
      BY <3>1, <3>3, <3>4, <3>5 DEF PastCopies
  <2>4. nudges' \in [Devices -> Seq(NudgeNow')] /\ online' \in [Devices -> BOOLEAN]
             /\ due' \in [Devices -> BOOLEAN]
    BY <1>1, <1>2, <1>8 DEF Past, PastRoom
  <2>5. PastRoom'
    BY <1>4, <1>5, <1>10, <2>4 DEF Past, PastRoom
  <2>6. PastRest'
    BY <1>1, <1>3, <1>7, RestGrows DEF Past
  <2>7. PastShape'
    BY <1>1, <1>5, <1>10 DEF Past, PastShape, Echoes
  <2> QED
    BY <1>7, <2>3, <2>5, <2>6, <2>7 DEF Past
<1> QED
  BY <1>9, <1>10

LEMMA InitPast == Init => Past
<1> SUFFICES ASSUME Init PROVE Past
  OBVIOUS
<1>1. 0 \in Time /\ 1 \in Time /\ now \in Nat \ {0}
  BY DEF Init, Time
<1>2. row \in PutNow /\ row.data \in DataNow /\ NoPut \in PutNow
  BY <1>1 DEF Init, PutNow, DataNow, NoPut
<1>3. PastCopies
  BY <1>1, <1>2 DEF Init, PastCopies
<1>4. PastRoom
  BY DEF Init, PastRoom
<1>5. PastRest
  BY <1>2 DEF Init, PastRest, Get
<1>6. PastShape
  BY DEF Init, PastShape
<1> QED
  BY <1>3, <1>4, <1>5, <1>6 DEF Past

LEMMA StutterPast == Past /\ UNCHANGED vars => now' = now /\ Past'
<1> SUFFICES ASSUME Past, UNCHANGED vars PROVE now' = now /\ Past'
  OBVIOUS
<1> USE DEF vars, copies, wire, room
<1>1. now' = now /\ Time' = Time /\ DataNow' = DataNow /\ PutNow' = PutNow /\ NudgeNow' = NudgeNow
  BY DEF Time, DataNow, PutNow, NudgeNow
<1>2. PastCopies' /\ PastRoom'
  BY <1>1 DEF Past, PastCopies, PastRoom
<1>3. PastRest' /\ PastShape'
  BY <1>1 DEF Past, PastRest, PastShape
<1> QED
  BY <1>1, <1>2, <1>3 DEF Past

LEMMA NextPast == Past /\ [Next]_vars => now' \in {now, now + 1} /\ Past'
<1> SUFFICES ASSUME Past, [Next]_vars PROVE now' \in {now, now + 1} /\ Past'
  OBVIOUS
<1>1. ASSUME NEW d \in Devices, FirePush(d) \/ Poll(d) \/ Answer(d)
      PROVE  now' \in {now, now + 1} /\ Past'
  BY <1>1, WirePast
<1>2. ASSUME NEW d \in Devices, PollLands(d) PROVE now' \in {now, now + 1} /\ Past'
  BY <1>2, PollLandsPast
<1>3. ASSUME NEW d \in Devices, MountLands(d) PROVE now' \in {now, now + 1} /\ Past'
  BY <1>3, MountLandsPast
<1>4. ASSUME NEW d \in Devices, Nudge(d) PROVE now' \in {now, now + 1} /\ Past'
  BY <1>4, NudgePast
<1>5. ASSUME NEW d \in Devices, Restart(d) \/ Drop(d) PROVE now' \in {now, now + 1} /\ Past'
  BY <1>5, RestartPast, DropPast
<1>6. ASSUME NEW d \in Devices, GoOnline(d) PROVE now' \in {now, now + 1} /\ Past'
  BY <1>6, GoOnlinePast
<1>7. ASSUME NEW d \in Devices, NEW f \in {"c", "r"}, Edit(d, f) PROVE now' \in {now, now + 1} /\ Past'
  BY <1>7, EditPast
<1>8. ASSUME NEW p \in pushes, Arrive(p) \/ Lose(p) PROVE now' \in {now, now + 1} /\ Past'
  BY <1>8, ArrivePast
<1>9. ASSUME NEW d \in Devices, Broadcast(d) PROVE now' \in {now, now + 1} /\ Past'
  BY <1>9, BroadcastPast
<1>10. CASE UNCHANGED vars
  BY <1>10, StutterPast
<1> QED
  BY <1>1, <1>2, <1>3, <1>4, <1>5, <1>6, <1>7, <1>8, <1>9, <1>10 DEF Next

\* TypeOK of AccountSync: every render, timer, request and nudge keeps every
\* variable in its type, for any devices and any number of events.
THEOREM SyncTypeCorrect == Spec => []TypeOK
<1>1. Init => Past
  BY InitPast
<1>2. Past /\ [Next]_vars => Past'
  BY NextPast
<1> QED
  BY <1>1, <1>2, PastIsTyped, PTL DEF Spec

-----------------------------------------------------------------------------
(* An adopted copy is newer than the one it replaces.                      *)

LEMMA AdoptsOnlyNewerStep ==
  ASSUME Past, [Next]_vars
  PROVE  \A d \in Devices : phase[d] = "on" /\ mem'[d] # mem[d] => stamp'[d] > stamp[d]
<1> SUFFICES ASSUME NEW d \in Devices, phase[d] = "on", mem'[d] # mem[d]
             PROVE  stamp'[d] > stamp[d]
  OBVIOUS
<1>0. /\ now \in Nat /\ stamp \in [Devices -> Time] /\ stamp[d] \in Nat /\ stamp[d] < now + 1
      /\ mem \in [Devices -> DataNow]
  BY DEF Past, PastCopies, Time
<1>1. ASSUME NEW e \in Devices,
             FirePush(e) \/ Poll(e) \/ Answer(e) \/ Restart(e) \/ Drop(e) \/ GoOnline(e) \/ Broadcast(e)
      PROVE  FALSE
  BY <1>1 DEF FirePush, Poll, Answer, Restart, Drop, GoOnline, Broadcast, copies
<1>2. ASSUME NEW e \in Devices, Adopt(e), Newer(e) PROVE stamp'[d] > stamp[d]
  <2>1. mem' = [mem EXCEPT ![e] = pull[e].put.data]
        /\ stamp' = [stamp EXCEPT ![e] = IF Pushes(e, pull[e].put.data, pull[e].put.data)
                                         THEN now + 1 ELSE pull[e].put.ts]
    BY <1>2 DEF Adopt, Render
  <2>2. e = d
    BY <1>0, <2>1
  <2>3. pull[d].put.ts > stamp[d]
    BY <1>2, <2>2 DEF Newer
  <2> QED
    BY <1>0, <2>1, <2>2, <2>3
<1>3. ASSUME NEW e \in Devices, PollLands(e) \/ MountLands(e) PROVE stamp'[d] > stamp[d]
  <2>1. Adopt(e) /\ Newer(e)
    BY <1>3 DEF PollLands, MountLands, copies
  <2> QED
    BY <1>2, <2>1
<1>4. ASSUME NEW e \in Devices, Nudge(e) PROVE stamp'[d] > stamp[d]
  <2> DEFINE n == Head(nudges[e])
             p == phase[e] = "on" /\ [mem[e] EXCEPT !.c = n.c] # synced[e]
  <2>1. /\ n.ts > stamp[e] /\ mem' = [mem EXCEPT ![e] = [mem[e] EXCEPT !.c = n.c]]
        /\ stamp' = [stamp EXCEPT ![e] = IF p THEN now + 1 ELSE n.ts]
    BY <1>4 DEF Nudge, copies
  <2>2. e = d
    BY <1>0, <2>1
  <2> QED
    BY <1>0, <2>1, <2>2
<1>5. ASSUME NEW e \in Devices, NEW f \in {"c", "r"}, Edit(e, f) PROVE stamp'[d] > stamp[d]
  <2>1. /\ mem' = [mem EXCEPT ![e] = [mem[e] EXCEPT ![f] = now + 1]]
        /\ stamp' = [stamp EXCEPT ![e] = IF Pushes(e, [mem[e] EXCEPT ![f] = now + 1], synced[e])
                                         THEN now + 1 ELSE stamp[e]]
        /\ phase' = phase
    BY <1>5 DEF Edit, Render
  <2>2. e = d
    BY <1>0, <2>1
  <2>3. [mem[d] EXCEPT ![f] = now + 1] # synced[d]
    BY EditIsNew
  <2> QED
    BY <1>0, <2>1, <2>2, <2>3 DEF Pushes
<1>6. ASSUME NEW p \in pushes, Arrive(p) \/ Lose(p) PROVE FALSE
  BY <1>6 DEF Arrive, Lose, copies
<1>7. CASE UNCHANGED vars
  BY <1>7 DEF vars, copies
<1> QED
  BY <1>1, <1>3, <1>4, <1>5, <1>6, <1>7 DEF Next

\* AdoptsOnlyNewer of AccountSync: whatever answers and nudges are on their way,
\* a hydrated copy changes only together with a newer stamp.
THEOREM EditsAreNotReplaced == Spec => AdoptsOnlyNewer
<1>1. Init => Past
  BY InitPast
<1>2. Past /\ [Next]_vars => Past'
  BY NextPast
<1>3. Past /\ [Next]_vars =>
        [\A d \in Devices : phase[d] = "on" /\ mem'[d] # mem[d] => stamp'[d] > stamp[d]]_vars
  BY AdoptsOnlyNewerStep
<1> QED
  BY <1>1, <1>2, <1>3, PTL DEF Spec, AdoptsOnlyNewer

-----------------------------------------------------------------------------
(* Until something tears them apart, the stamps of a value are a span.     *)

Pairs ==
  {NoPut, row} \cup pushes \cup {pull[d].put : d \in Devices}
  \cup ({timer[d] : d \in Devices} \ {None})
  \cup {Stamped(d) : d \in {e \in Devices : stamp[e] # 0}}
OneSpan ==
  \A p, q, r \in Pairs : p.data = r.data /\ p.ts <= q.ts /\ q.ts <= r.ts => q.data = p.data

\* A hydrated device has stamped and sent or seen what it holds; one that
\* reconciles still holds what its mount closed over.
Agreed ==
  \A d \in Devices :
    /\ phase[d] = "on" => stamp[d] # 0 /\ mem[d] = synced[d]
    /\ phase[d] = "pulling" => first[d] = mem[d]
AnswersAreOld == \A d \in Devices : pull[d].is = "answered" => 0 < pull[d].put.ts /\ pull[d].put.ts <= row.ts
Sent(d) ==
  \/ stamp[d] <= row.ts \/ mem[d] = row.data
  \/ \E p \in pushes \cup ({timer[d]} \ {None}) : p.data = mem[d] /\ p.ts <= stamp[d]
OnTheirWay == \A d \in Devices : phase[d] = "on" => Sent(d)
Untorn == OneSpan /\ Agreed /\ AnswersAreOld /\ OnTheirWay /\ row.ts > 0
SyncInv == Past /\ (Torn \/ Untorn)

LEMMA PairsArePast == Past => Pairs \subseteq PutNow
<1> SUFFICES ASSUME Past PROVE Pairs \subseteq PutNow
  OBVIOUS
<1>1. {NoPut, row} \cup pushes \subseteq PutNow
  BY DEF Past, PastRest, PastCopies, NoPut, PutNow, DataNow, Time
<1>2. \A d \in Devices : pull[d].put \in PutNow /\ timer[d] \in PutNow \cup {None}
  BY DEF Past, PastRest, PastCopies
<1>3. \A d \in Devices : Stamped(d) \in PutNow
  BY DEF Past, PastCopies, Stamped, PutNow
<1> QED
  BY <1>1, <1>2, <1>3 DEF Pairs

\* No value but its own lies between a copy's stamp and an older stamp of its value.
LEMMA SpanOfCopy ==
  ASSUME OneSpan, NEW d \in Devices, stamp[d] # 0, NEW p \in Pairs, NEW q \in Pairs,
         p.data = mem[d], p.ts <= q.ts, q.ts <= stamp[d]
  PROVE  q.data = mem[d]
<1>1. Stamped(d) \in Pairs /\ Stamped(d).data = mem[d] /\ Stamped(d).ts = stamp[d]
  BY DEF Pairs, Stamped
<1> QED
  BY <1>1 DEF OneSpan

LEMMA SyncInvGives == SyncInv => OneValuePerStamp /\ EditsAreOnTheirWay
<1> SUFFICES ASSUME SyncInv, ~Torn PROVE OneValuePerStamp /\ EditsAreOnTheirWay
  BY DEF OneValuePerStamp, EditsAreOnTheirWay
<1>1. Untorn
  BY DEF SyncInv
<1>2. Puts \subseteq Pairs
  BY <1>1 DEF Puts, Pairs, Untorn, Agreed
<1>3. OneValuePerStamp
  <2>1. \A p, q \in Pairs : p.ts = q.ts => p.data = q.data
    <3>1. \A p \in Pairs : p.ts \in Nat
      BY PairsArePast DEF SyncInv, PutNow, Time
    <3> QED
      BY <1>1, <3>1 DEF Untorn, OneSpan
  <2> QED
    BY <1>2, <2>1 DEF OneValuePerStamp
<1>4. ASSUME NEW d \in Devices, phase[d] = "on", ~(stamp[d] <= row.ts), mem[d] # row.data
      PROVE  \E p \in pushes \cup ({timer[d]} \ {None}) :
                p.data = mem[d] /\ row.ts < p.ts /\ p.ts <= stamp[d]
  <2>1. PICK p \in pushes \cup ({timer[d]} \ {None}) : p.data = mem[d] /\ p.ts <= stamp[d]
    BY <1>1, <1>4 DEF Untorn, OnTheirWay, Sent
  <2>2. p \in Pairs /\ row \in Pairs /\ stamp[d] # 0
    BY <1>1, <1>4 DEF Pairs, Untorn, Agreed
  <2>3. p.ts \in Nat /\ row.ts \in Nat /\ stamp[d] \in Nat
    BY <2>2, PairsArePast DEF SyncInv, Past, PastCopies, PutNow, Time
  <2>4. row.ts < p.ts
    BY <1>1, <1>4, <2>1, <2>2, <2>3, SpanOfCopy DEF Untorn
  <2> QED
    BY <2>1, <2>4
<1>5. EditsAreOnTheirWay
  BY <1>4 DEF EditsAreOnTheirWay
<1> QED
  BY <1>3, <1>5

\* What pairs there are after a step: old ones, and one made by an edit, or by a
\* second stamp next after the one that is the newest of all.
LEMMA NothingNew ==
  ASSUME OneSpan, Pairs' \subseteq Pairs
  PROVE  OneSpan'
BY DEF OneSpan

LEMMA OneNew ==
  ASSUME Past, OneSpan, NEW n, n.ts = now + 1, Pairs' \subseteq Pairs \cup {n},
         \/ n.data \notin DataNow
         \/ \E o \in Pairs : o.ts = now /\ o.data = n.data
  PROVE  OneSpan'
<1>1. now \in Nat /\ \A p \in Pairs : p.ts \in Nat /\ p.ts <= now /\ p.data \in DataNow
  BY PairsArePast DEF PutNow, Time, Past, PastCopies
<1>2. SUFFICES ASSUME NEW p \in Pairs \cup {n}, NEW q \in Pairs \cup {n}, NEW r \in Pairs \cup {n},
                      p.data = r.data, p.ts <= q.ts, q.ts <= r.ts
               PROVE  q.data = p.data
  BY DEF OneSpan
<1>3. CASE q = n
  <2>1. r = n
    BY <1>1, <1>2, <1>3
  <2> QED
    BY <1>2, <1>3, <2>1
<1>4. CASE q # n /\ r # n
  <2>1. p # n
    BY <1>1, <1>2, <1>4
  <2> QED
    BY <1>2, <1>4, <2>1 DEF OneSpan
<1>5. CASE q # n /\ r = n
  <2>1. p \in Pairs
    BY <1>1, <1>2, <1>5
  <2>2. PICK o \in Pairs : o.ts = now /\ o.data = n.data
    BY <1>1, <1>2, <1>5, <2>1
  <2>3. q \in Pairs /\ q.ts <= o.ts /\ p.data = o.data
    BY <1>1, <1>2, <1>5, <2>2
  <2> QED
    BY <1>2, <2>1, <2>2, <2>3 DEF OneSpan
<1> QED
  BY <1>3, <1>4, <1>5

LEMMA TornStays ==
  ASSUME Past, [Next]_vars
  PROVE  torn \subseteq torn'
<1>1. ASSUME NEW d \in Devices,
             FirePush(d) \/ Poll(d) \/ Answer(d) \/ PollLands(d) \/ MountLands(d)
      PROVE  torn \subseteq torn'
  BY <1>1 DEF FirePush, Poll, Answer, PollLands, MountLands, Adopt, Echoes, Quietly, Happens
<1>2. ASSUME NEW d \in Devices, Broadcast(d) \/ Nudge(d) \/ Restart(d) \/ GoOnline(d) \/ Drop(d)
      PROVE  torn \subseteq torn'
  BY <1>2 DEF Broadcast, Nudge, Restart, GoOnline, Drop, Echoes, Quietly, Happens
<1>3. ASSUME NEW d \in Devices, NEW f \in {"c", "r"}, Edit(d, f) PROVE torn \subseteq torn'
  BY <1>3 DEF Edit, Happens
<1>4. ASSUME NEW p \in pushes, Arrive(p) \/ Lose(p) PROVE torn \subseteq torn'
  BY <1>4 DEF Arrive, Lose, Quietly, Happens
<1>5. CASE UNCHANGED vars
  BY <1>5 DEF vars
<1> QED
  BY <1>1, <1>2, <1>3, <1>4, <1>5 DEF Next

LEMMA EditUntorn ==
  ASSUME Past, Untorn, NEW d \in Devices, NEW f \in {"c", "r"}, Edit(d, f), ~Torn'
  PROVE  Untorn'
<1> DEFINE s == [mem[d] EXCEPT ![f] = now + 1]
           n == [data |-> s, ts |-> now + 1]
<1>1. phase[d] = "on" /\ phase' = phase
  <2>1. phase \in [Devices -> {"pulling", "on"}]
    BY DEF Past, PastShape
  <2> QED
    BY <2>1 DEF Edit, Happens, Torn
<1>2. s # synced[d]
  BY EditIsNew
<1>3. /\ mem' = [mem EXCEPT ![d] = s] /\ stamp' = [stamp EXCEPT ![d] = now + 1]
      /\ synced' = [synced EXCEPT ![d] = s] /\ timer' = [timer EXCEPT ![d] = n]
      /\ UNCHANGED <<row, first, pull, pushes>>
  BY <1>1, <1>2 DEF Edit, Render, Pushes
<1>4. s \notin DataNow /\ now \in Nat /\ s[f] = now + 1
  BY DEF Past, PastCopies, DataNow, Time
<1>5. /\ mem \in [Devices -> DataNow] /\ stamp \in [Devices -> Time]
      /\ synced \in [Devices -> DataNow \cup {None}] /\ timer \in [Devices -> PutNow \cup {None}]
  BY DEF Past, PastCopies
<1> HIDE DEF s
<1>6. \A e \in Devices : Stamped(e)' = IF e = d THEN n ELSE Stamped(e)
  BY <1>3, <1>5 DEF Stamped
<1>7. Pairs' \subseteq Pairs \cup {n}
  BY <1>3, <1>5, <1>6 DEF Pairs
<1>8. OneSpan'
  <2>1. n.ts = now + 1 /\ n.data \notin DataNow
    BY <1>4
  <2>2. OneSpan
    BY DEF Untorn
  <2> HIDE DEF n
  <2> QED
    BY <1>7, <2>1, <2>2, OneNew
<1>9. Agreed'
  BY <1>1, <1>3, <1>4, <1>5 DEF Untorn, Agreed
<1>10. AnswersAreOld' /\ row'.ts > 0
  BY <1>3 DEF Untorn, AnswersAreOld
<1>11. OnTheirWay'
  <2>1. n # None
    <3>1. s \in Data
      BY <1>4, <1>5 DEF s, DataNow, Data, Time
    <3> QED
      BY <1>4, <3>1, NoneIsNoData DEF Put
  <2>2. timer'[d] = n /\ mem'[d] = n.data /\ stamp'[d] = n.ts /\ n.ts <= n.ts
    BY <1>3, <1>4, <1>5
  <2>3. Sent(d)'
    BY <2>1, <2>2 DEF Sent
  <2>4. ASSUME NEW e \in Devices \ {d}, Sent(e) PROVE Sent(e)'
    <3>1. mem'[e] = mem[e] /\ stamp'[e] = stamp[e] /\ timer'[e] = timer[e]
      BY <1>3, <1>5
    <3> QED
      BY <1>3, <2>4, <3>1 DEF Sent
  <2> QED
    BY <1>1, <2>3, <2>4 DEF Untorn, OnTheirWay
<1> QED
  BY <1>8, <1>9, <1>10, <1>11 DEF Untorn

LEMMA AdoptUntorn ==
  ASSUME Past, Untorn, NEW d \in Devices, Adopt(d), Newer(d), Answered(d), ~Torn',
         phase' = [phase EXCEPT ![d] = "on"], pull' = [pull EXCEPT ![d] = Get("none")],
         UNCHANGED <<row, first, pushes>>
  PROVE  Untorn'
<1> DEFINE p == pull[d].put
<1>1. p \in PutNow /\ p \in Pairs /\ 0 < p.ts /\ p.ts <= row.ts
  BY DEF Untorn, AnswersAreOld, Answered, Pairs, Past, PastRest
<1>2. p = [data |-> p.data, ts |-> p.ts]
  BY <1>1 DEF PutNow
<1>3. /\ mem \in [Devices -> DataNow] /\ stamp \in [Devices -> Time]
      /\ synced \in [Devices -> DataNow \cup {None}]
      /\ pull \in [Devices -> [is : {"none", "asked", "answered"}, put : PutNow]]
      /\ phase \in [Devices -> {"pulling", "on"}]
  BY DEF Past, PastCopies, PastRest, PastShape
<1>4. ~Broadcasts(d, p.data) /\ ~Pushes(d, p.data, p.data)
  BY DEF Adopt, Echoes, Torn, Pushes
<1>5. /\ mem' = [mem EXCEPT ![d] = p.data] /\ stamp' = [stamp EXCEPT ![d] = p.ts]
      /\ synced' = [synced EXCEPT ![d] = p.data] /\ timer' = timer
  BY <1>4 DEF Adopt, Render
<1> HIDE DEF p
<1>6. \A e \in Devices : Stamped(e)' = IF e = d THEN p ELSE Stamped(e)
  BY <1>2, <1>3, <1>5 DEF Stamped
<1>7. \A e \in Devices : pull'[e].put = IF e = d THEN NoPut ELSE pull[e].put
  BY <1>3 DEF Get
<1>8. Pairs' \subseteq Pairs
  BY <1>1, <1>3, <1>5, <1>6, <1>7 DEF Pairs
<1>9. OneSpan'
  BY <1>8, NothingNew DEF Untorn
<1>10. Agreed'
  BY <1>1, <1>3, <1>5 DEF Untorn, Agreed
<1>11. AnswersAreOld' /\ row'.ts > 0
  BY <1>3 DEF Untorn, AnswersAreOld, Get
<1>12. OnTheirWay'
  BY <1>1, <1>3, <1>5, <1>6 DEF Untorn, OnTheirWay, Sent
<1> QED
  BY <1>9, <1>10, <1>11, <1>12 DEF Untorn

LEMMA PollLandsUntorn ==
  ASSUME Past, Untorn, NEW d \in Devices, PollLands(d), ~Torn'
  PROVE  Untorn'
<1>0. /\ pull \in [Devices -> [is : {"none", "asked", "answered"}, put : PutNow]]
      /\ stamp \in [Devices -> Time] /\ mem \in [Devices -> DataNow]
      /\ phase \in [Devices -> {"pulling", "on"}]
  BY DEF Past, PastCopies, PastRest, PastShape
<1>1. CASE Adopt(d) /\ Newer(d)
  <2>1. phase' = [phase EXCEPT ![d] = "on"]
    BY <1>0 DEF PollLands
  <2> QED
    BY <1>1, <2>1, AdoptUntorn DEF PollLands
<1>2. CASE ~(Adopt(d) /\ Newer(d))
  <2> DEFINE p == pull[d].put
  <2>1. /\ \/ Newer(d) /\ p.data = synced[d] /\ stamp' = [stamp EXCEPT ![d] = p.ts]
           \/ stamp' = stamp
        /\ pull' = [pull EXCEPT ![d] = Get("none")]
        /\ phase[d] = "on" /\ Answered(d)
        /\ UNCHANGED <<mem, synced, timer, row, first, pushes, phase>>
    BY <1>2 DEF PollLands, copies
  <2>2. p \in PutNow /\ p \in Pairs /\ 0 < p.ts /\ p.ts <= row.ts
    BY <2>1 DEF Untorn, AnswersAreOld, Answered, Pairs, Past, PastRest
  <2>3. mem[d] = synced[d]
    BY <2>1 DEF Untorn, Agreed
  <2>4. p = [data |-> p.data, ts |-> p.ts]
    BY <2>2 DEF PutNow
  <2> HIDE DEF p
  <2>5. Stamped(d)' = p \/ stamp' = stamp
    BY <1>0, <2>1, <2>3, <2>4 DEF Stamped
  <2>6. \A e \in Devices : e # d \/ stamp' = stamp => Stamped(e)' = Stamped(e) /\ stamp'[e] = stamp[e]
    BY <1>0, <2>1 DEF Stamped
  <2>7. \A e \in Devices : pull'[e].put = IF e = d THEN NoPut ELSE pull[e].put
    BY <1>0, <2>1 DEF Get
  <2>8. Pairs' \subseteq Pairs
    BY <2>1, <2>2, <2>5, <2>6, <2>7 DEF Pairs
  <2>9. OneSpan'
    BY <2>8, NothingNew DEF Untorn
  <2>10. Agreed'
    BY <1>0, <2>1, <2>2 DEF Untorn, Agreed
  <2>11. AnswersAreOld' /\ row'.ts > 0
    BY <1>0, <2>1 DEF Untorn, AnswersAreOld, Get
  <2>12. OnTheirWay'
    <3>1. stamp'[d] <= row.ts \/ stamp' = stamp
      BY <1>0, <2>1, <2>2
    <3> QED
      BY <2>1, <2>6, <3>1 DEF Untorn, OnTheirWay, Sent
  <2> QED
    BY <2>9, <2>10, <2>11, <2>12 DEF Untorn
<1> QED
  BY <1>1, <1>2

LEMMA MountLandsUntorn ==
  ASSUME Past, Untorn, NEW d \in Devices, MountLands(d), ~Torn'
  PROVE  Untorn'
<1>0. /\ pull \in [Devices -> [is : {"none", "asked", "answered"}, put : PutNow]]
      /\ stamp \in [Devices -> Time] /\ mem \in [Devices -> DataNow]
      /\ synced \in [Devices -> DataNow \cup {None}] /\ now \in Nat
      /\ phase \in [Devices -> {"pulling", "on"}]
  BY DEF Past, PastCopies, PastRest, PastShape
<1>1. CASE Newer(d)
  BY <1>1, AdoptUntorn DEF MountLands
<1>2. CASE ~Newer(d)
  <2> DEFINE n == Stamped(d)
  <2>1. /\ phase[d] = "pulling" /\ Answered(d) /\ phase' = [phase EXCEPT ![d] = "on"]
        /\ pull' = [pull EXCEPT ![d] = Get("none")]
        /\ UNCHANGED <<row, first, mem, timer>>
    BY <1>2 DEF MountLands
  <2>2. first[d] = mem[d]
    BY <2>1 DEF Untorn, Agreed
  <2>3. stamp[d] # 0
    <3>1. pull[d].put.ts \in Nat /\ stamp[d] \in Nat
      BY <1>0 DEF PutNow, Time
    <3> QED
      BY <1>2, <2>1, <3>1 DEF Newer, Untorn, AnswersAreOld, Answered
  <2>4. /\ pushes' = pushes \cup {n} /\ stamp' = stamp
        /\ synced' = [synced EXCEPT ![d] = mem[d]]
    BY <1>0, <1>2, <2>2, <2>3 DEF MountLands, Stamped
  <2>5. n \in Pairs
    BY <2>3 DEF Pairs
  <2>6. \A e \in Devices : Stamped(e)' = Stamped(e)
    BY <2>1, <2>4 DEF Stamped
  <2> HIDE DEF n
  <2>7. \A e \in Devices : pull'[e].put = IF e = d THEN NoPut ELSE pull[e].put
    BY <1>0, <2>1 DEF Get
  <2>8. Pairs' \subseteq Pairs
    BY <2>1, <2>4, <2>5, <2>6, <2>7 DEF Pairs
  <2>9. OneSpan'
    BY <2>8, NothingNew DEF Untorn
  <2>10. Agreed'
    BY <1>0, <2>1, <2>3, <2>4 DEF Untorn, Agreed
  <2>11. AnswersAreOld' /\ row'.ts > 0
    BY <1>0, <2>1 DEF Untorn, AnswersAreOld, Get
  <2>12. OnTheirWay'
    <3>1. n \in pushes' /\ n # None /\ n.data = mem'[d] /\ n.ts <= stamp'[d]
      <4>1. n \in Put
        BY <1>0 DEF n, Stamped, Put, DataNow, Data, Time
      <4> QED
        BY <1>0, <2>1, <2>4, <4>1, NoneIsNoData DEF n, Stamped, Time
    <3>2. Sent(d)'
      BY <3>1 DEF Sent
    <3>3. ASSUME NEW e \in Devices \ {d}, Sent(e) PROVE Sent(e)'
      BY <2>1, <2>4, <3>3 DEF Sent
    <3>4. \A e \in Devices \ {d} : phase'[e] = phase[e]
      BY <1>0, <2>1
    <3> QED
      BY <3>2, <3>3, <3>4 DEF Untorn, OnTheirWay
  <2> QED
    BY <2>9, <2>10, <2>11, <2>12 DEF Untorn
<1> QED
  BY <1>1, <1>2

LEMMA WireUntorn ==
  ASSUME Past, Untorn, NEW d \in Devices, FirePush(d) \/ Poll(d) \/ Answer(d), ~Torn'
  PROVE  Untorn'
<1>0. /\ pull \in [Devices -> [is : {"none", "asked", "answered"}, put : PutNow]]
      /\ timer \in [Devices -> PutNow \cup {None}] /\ row.ts \in Nat
  BY DEF Past, PastCopies, PastRest, PutNow, Time
<1>1. UNCHANGED <<mem, stamp, synced, phase, first, row>>
  BY DEF FirePush, Poll, Answer, copies
<1>2. \A e \in Devices : Stamped(e)' = Stamped(e)
  BY <1>1 DEF Stamped
<1>3. /\ pushes' \subseteq pushes \cup ({timer[d]} \ {None}) /\ pushes \subseteq pushes'
      /\ \A e \in Devices : timer'[e] \in {timer[e], None}
      /\ \A e \in Devices : timer'[e] = timer[e] \/ timer[e] \in pushes'
  BY <1>0 DEF FirePush, Poll, Answer
<1>4. \A e \in Devices :
        /\ pull'[e].put \in {pull[e].put, NoPut, row}
        /\ pull'[e].is = "answered" =>
              \/ pull[e].is = "answered" /\ pull'[e].put = pull[e].put
              \/ pull'[e].put = row
  <2>1. CASE FirePush(d)
    BY <2>1 DEF FirePush
  <2>2. CASE Poll(d)
    BY <1>0, <2>2 DEF Poll, Get
  <2>3. CASE Answer(d)
    <3>1. pull' = [pull EXCEPT ![d] = [is |-> "answered", put |-> row]]
      BY <2>3 DEF Answer, Happens, Torn
    <3> QED
      BY <1>0, <3>1
  <2> QED
    BY <2>1, <2>2, <2>3
<1>5. Pairs' \subseteq Pairs
  BY <1>1, <1>2, <1>3, <1>4 DEF Pairs
<1>6. OneSpan'
  BY <1>5, NothingNew DEF Untorn
<1>7. Agreed' /\ row'.ts > 0
  BY <1>1 DEF Untorn, Agreed
<1>8. AnswersAreOld'
  BY <1>0, <1>1, <1>4 DEF Untorn, AnswersAreOld
<1>9. OnTheirWay'
  BY <1>1, <1>2, <1>3 DEF Untorn, OnTheirWay, Sent
<1> QED
  BY <1>6, <1>7, <1>8, <1>9 DEF Untorn

LEMMA ArriveUntorn ==
  ASSUME Past, Untorn, NEW p \in pushes, Arrive(p) \/ Lose(p), ~Torn'
  PROVE  Untorn'
<1>0. row \in PutNow /\ p \in PutNow /\ row.ts \in Nat /\ p.ts \in Nat
      /\ stamp \in [Devices -> Time] /\ now \in Nat
  BY DEF Past, PastRest, PastCopies, PutNow, Time
<1>1. Arrive(p)
  BY DEF Lose, Happens, Torn
<1>2. /\ pushes' = pushes \ {p} /\ UNCHANGED <<mem, stamp, synced, phase, first, pull, timer>>
      /\ row' = IF p.ts > row.ts /\ p.data # row.data THEN p ELSE row
  BY <1>1 DEF Arrive, copies
<1>3. p \in Pairs /\ row \in Pairs
  BY DEF Pairs
<1>5. row'.ts >= row.ts /\ row'.ts \in Nat
  BY <1>0, <1>2
<1>6. \A e \in Devices : Stamped(e)' = Stamped(e)
  BY <1>2 DEF Stamped
<1>7. Pairs' \subseteq Pairs
  BY <1>2, <1>3, <1>6 DEF Pairs
<1>8. OneSpan'
  BY <1>7, NothingNew DEF Untorn
<1>9. Agreed' /\ row'.ts > 0
  BY <1>0, <1>2, <1>5 DEF Untorn, Agreed
<1>10. AnswersAreOld'
  <2>1. \A e \in Devices : pull[e].put.ts \in Nat
    BY DEF Past, PastRest, PutNow, Time
  <2> QED
    BY <1>0, <1>2, <1>5, <2>1 DEF Untorn, AnswersAreOld, Answered
<1>11. OnTheirWay'
  <2>1. ASSUME NEW e \in Devices, Sent(e) PROVE Sent(e)'
    <3>1. stamp[e] \in Nat /\ row.ts > 0 /\ OneSpan
      BY <1>0 DEF Time, Untorn
    <3>2. CASE row' = p
      <4>1. mem[e] = row.data => stamp[e] <= p.ts \/ p.data = mem[e]
        BY <1>0, <1>2, <1>3, <3>1, <3>2, SpanOfCopy
      <4> QED
        BY <1>0, <1>2, <1>5, <2>1, <3>1, <3>2, <4>1 DEF Sent
    <3>3. CASE row' = row /\ row # p
      <4>1. p.ts <= row.ts \/ p.data = row.data
        BY <1>0, <1>2, <3>3
      <4>2. p.data = mem[e] => stamp[e] <= row.ts \/ row.data = mem[e]
        BY <1>0, <1>3, <3>1, <4>1, SpanOfCopy
      <4> QED
        BY <1>2, <2>1, <3>3, <4>2 DEF Sent
    <3> QED
      BY <1>2, <3>2, <3>3
  <2> QED
    BY <1>2, <2>1 DEF Untorn, OnTheirWay
<1> QED
  BY <1>8, <1>9, <1>10, <1>11 DEF Untorn

LEMMA RestartUntorn ==
  ASSUME Past, Untorn, NEW d \in Devices, Restart(d)
  PROVE  Untorn'
<1>0. /\ pull \in [Devices -> [is : {"none", "asked", "answered"}, put : PutNow]]
      /\ timer \in [Devices -> PutNow \cup {None}] /\ first \in [Devices -> DataNow]
      /\ synced \in [Devices -> DataNow \cup {None}]
      /\ phase \in [Devices -> {"pulling", "on"}]
  BY DEF Past, PastCopies, PastRest, PastShape
<1>1. /\ UNCHANGED <<row, mem, stamp, pushes>> /\ phase' = [phase EXCEPT ![d] = "pulling"]
      /\ first' = [first EXCEPT ![d] = mem[d]] /\ synced' = [synced EXCEPT ![d] = None]
      /\ pull' = [pull EXCEPT ![d] = Get("asked")] /\ timer' = [timer EXCEPT ![d] = None]
  BY DEF Restart
<1>2. \A e \in Devices : /\ Stamped(e)' = Stamped(e)
                         /\ pull'[e].put \in {pull[e].put, NoPut} /\ timer'[e] \in {timer[e], None}
  BY <1>0, <1>1 DEF Stamped, Get
<1>3. Pairs' \subseteq Pairs
  BY <1>1, <1>2 DEF Pairs
<1>4. OneSpan'
  BY <1>3, NothingNew DEF Untorn
<1>5. Agreed' /\ row'.ts > 0
  BY <1>0, <1>1 DEF Untorn, Agreed
<1>6. AnswersAreOld'
  BY <1>0, <1>1 DEF Untorn, AnswersAreOld, Get
<1>7. OnTheirWay'
  BY <1>0, <1>1, <1>2 DEF Untorn, OnTheirWay, Sent
<1> QED
  BY <1>4, <1>5, <1>6, <1>7 DEF Untorn

LEMMA StillUntorn ==
  ASSUME Untorn, UNCHANGED <<row, mem, stamp, synced, phase, first, pull, timer, pushes>>
  PROVE  Untorn'
<1>1. \A e \in Devices : Stamped(e)' = Stamped(e)
  BY DEF Stamped
<1>2. Pairs' = Pairs
  BY <1>1 DEF Pairs
<1> QED
  BY <1>1, <1>2 DEF Untorn, OneSpan, Agreed, AnswersAreOld, Answered, OnTheirWay, Sent

LEMMA BroadcastUntorn ==
  ASSUME Past, Untorn, NEW d \in Devices, Broadcast(d), ~Torn'
  PROVE  Untorn'
<1> DEFINE n == [data |-> mem[d], ts |-> now + 1]
<1>1. /\ stamp[d] = now /\ stamp' \in {stamp, [stamp EXCEPT ![d] = now + 1]}
      /\ UNCHANGED <<row, mem, synced, phase, first, pull, timer, pushes>>
  <2>1. stamp[d] = now
    BY DEF Broadcast, Torn
  <2>2. Sends(d, now) => stamp' = stamp
    BY <2>1 DEF Sends, Past, PastCopies
  <2>3. Sends(d, now + 1) => stamp' = [stamp EXCEPT ![d] = now + 1]
    BY DEF Sends
  <2> QED
    BY <2>1, <2>2, <2>3 DEF Broadcast, wire
<1>2. CASE stamp' = stamp
  BY <1>1, <1>2, StillUntorn
<1>3. CASE stamp' = [stamp EXCEPT ![d] = now + 1]
  <2>1. /\ now \in Nat \ {0} /\ stamp \in [Devices -> Time] /\ row \in PutNow
        /\ row.ts \in Time /\ Time \subseteq Nat
    BY DEF Past, PastCopies, PastRest, PutNow, Time
  <2>2. \A e \in Devices : Stamped(e)' = IF e = d THEN n ELSE Stamped(e)
    BY <1>1, <1>3, <2>1 DEF Stamped
  <2>3. Stamped(d) \in Pairs /\ Stamped(d).ts = now /\ Stamped(d).data = n.data
    BY <1>1, <2>1 DEF Pairs, Stamped
  <2>4. \A e \in Devices \ {d} : stamp'[e] = stamp[e]
    BY <1>3, <2>1
  <2>5. Pairs' \subseteq Pairs \cup {n}
    BY <1>1, <2>2, <2>4 DEF Pairs
  <2>6. OneSpan'
    <3>1. n.ts = now + 1
      OBVIOUS
    <3>2. OneSpan
      BY DEF Untorn
    <3> HIDE DEF n
    <3> QED
      BY <2>3, <2>5, <3>1, <3>2, OneNew
  <2>7. stamp'[d] = now + 1
    BY <1>3, <2>1
  <2>8. Agreed'
    BY <1>1, <2>1, <2>4, <2>7 DEF Untorn, Agreed
  <2>9. AnswersAreOld' /\ row'.ts > 0
    BY <1>1 DEF Untorn, AnswersAreOld
  <2>10. Sent(d) => Sent(d)'
    <3>1. row \in Pairs /\ OneSpan
      BY DEF Pairs, Untorn
    <3>2. stamp[d] <= row.ts => row.data = mem[d]
      <4>1. stamp[d] <= row.ts => row.ts = now
        BY <1>1, <2>1 DEF Time
      <4> QED
        BY <1>1, <2>1, <2>3, <3>1, <4>1, SpanOfCopy DEF Stamped
    <3>3. \A p \in pushes \cup ({timer[d]} \ {None}) : p.ts \in Nat
      BY DEF Past, PastCopies, PastRest, PutNow, Time
    <3>4. \A p \in pushes \cup ({timer[d]} \ {None}) : p.ts <= stamp[d] => p.ts <= stamp'[d]
      BY <1>1, <2>1, <2>7, <3>3
    <3> QED
      BY <1>1, <3>2, <3>4 DEF Sent
  <2>11. OnTheirWay'
    BY <1>1, <2>4, <2>10 DEF Untorn, OnTheirWay, Sent
  <2> QED
    BY <2>6, <2>8, <2>9, <2>11 DEF Untorn
<1> QED
  BY <1>1, <1>2, <1>3

LEMMA RoomUntorn ==
  ASSUME Past, Untorn, NEW d \in Devices, Nudge(d) \/ GoOnline(d) \/ Drop(d), ~Torn'
  PROVE  Untorn'
<1>1. CASE Nudge(d)
  BY <1>1, StillUntorn DEF Nudge, Echoes, Torn, copies
<1>2. CASE GoOnline(d)
  BY <1>2, StillUntorn DEF GoOnline, Echoes, Torn, wire
<1>3. CASE Drop(d)
  BY <1>3, StillUntorn DEF Drop, copies, wire
<1> QED
  BY <1>1, <1>2, <1>3

LEMMA InitUntorn == Init => Untorn
<1> SUFFICES ASSUME Init PROVE Untorn
  OBVIOUS
<1>1. /\ row = [data |-> [c |-> 1, r |-> 1], ts |-> 1] /\ pushes = {}
      /\ \A d \in Devices : /\ pull[d].put = NoPut /\ timer[d] = None /\ pull[d].is = "asked"
                            /\ mem[d] = row.data /\ stamp[d] \in {0, 1} /\ phase[d] = "pulling"
  BY DEF Init, Get
<1>2. \A d \in Devices : stamp[d] # 0 => Stamped(d) = row
  BY <1>1 DEF Stamped
<1>3. Pairs \subseteq {NoPut, row}
  BY <1>1, <1>2 DEF Pairs
<1>4. OneSpan
  BY <1>1, <1>3 DEF OneSpan, NoPut
<1>5. Agreed
  BY DEF Init, Agreed
<1> QED
  BY <1>1, <1>4, <1>5 DEF Untorn, AnswersAreOld, OnTheirWay

LEMMA SyncInvStep == SyncInv /\ [Next]_vars => SyncInv'
<1> SUFFICES ASSUME SyncInv, [Next]_vars, ~Torn' PROVE Untorn'
  BY NextPast DEF SyncInv
<1>0. Past /\ Untorn
  BY TornStays DEF SyncInv, Torn
<1>1. ASSUME NEW d \in Devices, FirePush(d) \/ Poll(d) \/ Answer(d) PROVE Untorn'
  BY <1>0, <1>1, WireUntorn
<1>2. ASSUME NEW d \in Devices, PollLands(d) PROVE Untorn'
  BY <1>0, <1>2, PollLandsUntorn
<1>3. ASSUME NEW d \in Devices, MountLands(d) PROVE Untorn'
  BY <1>0, <1>3, MountLandsUntorn
<1>4. ASSUME NEW d \in Devices, Nudge(d) \/ GoOnline(d) \/ Drop(d) PROVE Untorn'
  BY <1>0, <1>4, RoomUntorn
<1>5. ASSUME NEW d \in Devices, Restart(d) PROVE Untorn'
  BY <1>0, <1>5, RestartUntorn
<1>6. ASSUME NEW d \in Devices, NEW f \in {"c", "r"}, Edit(d, f) PROVE Untorn'
  BY <1>0, <1>6, EditUntorn
<1>7. ASSUME NEW p \in pushes, Arrive(p) \/ Lose(p) PROVE Untorn'
  BY <1>0, <1>7, ArriveUntorn
<1>8. ASSUME NEW d \in Devices, Broadcast(d) PROVE Untorn'
  BY <1>0, <1>8, BroadcastUntorn
<1>9. CASE UNCHANGED vars
  BY <1>0, <1>9, StillUntorn DEF vars, copies, wire
<1> QED
  BY <1>1, <1>2, <1>3, <1>4, <1>5, <1>6, <1>7, <1>8, <1>9 DEF Next

\* OneValuePerStamp of AccountSync: in the row, in requests and in copies one
\* stamp is one value, however many devices edit, reload and reconnect.
THEOREM StampsNameValues == Spec => []OneValuePerStamp
<1>1. Init => SyncInv
  BY InitPast, InitUntorn DEF SyncInv
<1> QED
  BY <1>1, SyncInvStep, SyncInvGives, PTL DEF Spec

\* EditsAreOnTheirWay of AccountSync: what a hydrated device holds is in the row, or
\* in a request or the debounce that the row will take, through a colour's two stamps.
THEOREM NoEditLeftBehind == Spec => []EditsAreOnTheirWay
<1>1. Init => SyncInv
  BY InitPast, InitUntorn DEF SyncInv
<1> QED
  BY <1>1, SyncInvStep, SyncInvGives, PTL DEF Spec
=============================================================================
